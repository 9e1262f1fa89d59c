-------------------------- MODULE CoordinatorProofs --------------------------
(***************************************************************************)
(* The coordinator for every number of calls, callers that close, native   *)
(* sessions and every queue capacity: an inductive invariant of the server *)
(* state and of the runners, kept by every handler, and the safety         *)
(* properties of Coordinator that it implies.                              *)
(***************************************************************************)
EXTENDS Coordinator, FiniteSetTheorems, SequenceTheorems, WellFoundedInduction, TLAPS

-----------------------------------------------------------------------------
(***************************************************************************)
(* Numbers, sets and queues.                                               *)
(***************************************************************************)

\* A set of numbers that is not empty has a least one.
LEMMA Least ==
  ASSUME NEW T \in SUBSET Nat, T # {}
  PROVE  \E n \in T : \A k \in T : n <= k
<1>1. IsWellFoundedOn(OpToRel(<, Nat), Nat)
  BY NatLessThanWellFounded
<1>2. PICK n \in T : \A k \in T : <<k, n>> \notin OpToRel(<, Nat)
  BY <1>1, WFMin
<1>3. \A k \in T : ~(k < n)
  BY <1>2 DEF OpToRel
<1> QED
  BY <1>3

InQueue(q) == {q[i] : i \in DOMAIN q}
Distinct(q) == \A i, k \in DOMAIN q : q[i] = q[k] => i = k

\* What a queue without the jobs of a set is.
LEMMA WithoutProperties ==
  ASSUME NEW q \in Seq(Jobs), NEW S
  PROVE  /\ Without(q, S) \in Seq(Jobs)
         /\ InQueue(Without(q, S)) = InQueue(q) \ S
         /\ Distinct(q) => Distinct(Without(q, S))
         /\ Len(Without(q, S)) <= Len(q)
         /\ \A a, b : Ahead(Without(q, S), a, b) <=> a \notin S /\ b \notin S /\ Ahead(q, a, b)
<1> DEFINE kept     == {i \in DOMAIN q : q[i] \notin S}
           UpTo(i)  == {k \in kept : k <= i}
           n        == Cardinality(kept)
           place    == [i \in kept |-> Cardinality(UpTo(i))]
           At(m)    == CHOOSE i \in kept : Cardinality(UpTo(i)) = m
           r        == [m \in 1..n |-> q[At(m)]]
<1>1. /\ DOMAIN q = 1..Len(q) /\ Len(q) \in Nat /\ kept \subseteq 1..Len(q)
      /\ \A i \in kept : q[i] \in Jobs
  BY LenProperties, ElementOfSeq
<1>2. IsFiniteSet(kept) /\ n \in Nat /\ n <= Len(q)
  <2>0. Len(q) \in Nat
    BY <1>1
  <2>1. IsFiniteSet(1..Len(q)) /\ Cardinality(1..Len(q)) = Len(q)
    BY <2>0, FS_Interval
  <2>2. kept \in SUBSET (1..Len(q))
    BY <1>1
  <2> HIDE DEF kept
  <2>3. IsFiniteSet(kept) /\ Cardinality(kept) <= Cardinality(1..Len(q))
    BY <2>1, <2>2, FS_Subset
  <2>4. Cardinality(kept) \in Nat
    BY <2>3, FS_CardinalityType
  <2> QED
    BY <1>1, <2>1, <2>3, <2>4
<1>3. ASSUME NEW i \in kept
      PROVE  /\ IsFiniteSet(UpTo(i))
             /\ Cardinality(UpTo(i)) \in Nat /\ Cardinality(UpTo(i)) \in 1..n
  <2>1. UpTo(i) \in SUBSET kept /\ i \in UpTo(i)
    BY <1>1
  <2>2. IsFiniteSet(UpTo(i)) /\ Cardinality(UpTo(i)) <= n /\ Cardinality(UpTo(i)) \in Nat
    BY <1>2, <2>1, FS_Subset, FS_CardinalityType
  <2>3. Cardinality(UpTo(i)) # 0
    BY <2>1, <2>2, FS_EmptySet
  <2> QED
    BY <2>2, <2>3
<1>4. ASSUME NEW i \in kept, NEW k \in kept, i < k
      PROVE  Cardinality(UpTo(i)) < Cardinality(UpTo(k))
  <2>1. UpTo(i) \in SUBSET UpTo(k) /\ k \in UpTo(k) /\ k \notin UpTo(i)
    BY <1>1, <1>4
  <2>2. Cardinality(UpTo(i)) <= Cardinality(UpTo(k)) /\ Cardinality(UpTo(i)) # Cardinality(UpTo(k))
    BY <1>3, <2>1, FS_Subset
  <2>3. Cardinality(UpTo(i)) \in Nat /\ Cardinality(UpTo(k)) \in Nat
    BY <1>3
  <2> QED
    BY <2>2, <2>3
<1>5. \A i, k \in kept : Cardinality(UpTo(i)) = Cardinality(UpTo(k)) => i = k
  <2> SUFFICES ASSUME NEW i \in kept, NEW k \in kept,
                      Cardinality(UpTo(i)) = Cardinality(UpTo(k)), i # k
               PROVE  FALSE
    OBVIOUS
  <2>1. i < k \/ k < i
    BY <1>1
  <2>2. Cardinality(UpTo(i)) \in Nat /\ Cardinality(UpTo(k)) \in Nat
    BY <1>3
  <2> HIDE DEF UpTo, kept
  <2> QED
    BY <1>4, <2>1, <2>2
<1>6. place \in Injection(kept, 1..n)
  <2> HIDE DEF UpTo, kept, n
  <2> QED
    BY <1>3, <1>5 DEF Injection, IsInjective
<1>7. IsFiniteSet(1..n) /\ Cardinality(1..n) = n
  BY <1>2, FS_Interval
<1>8. place \in Surjection(kept, 1..n)
  <2> HIDE DEF place
  <2> QED
    BY <1>6, <1>7, FS_Injection
<1>9. ASSUME NEW m \in 1..n
      PROVE  At(m) \in kept /\ Cardinality(UpTo(At(m))) = m
  <2>1. \E i \in kept : Cardinality(UpTo(i)) = m
    BY <1>8 DEF Surjection
  <2> QED
    BY <2>1
<1>10. ASSUME NEW i \in kept
       PROVE  At(Cardinality(UpTo(i))) = i
  <2> DEFINE m == Cardinality(UpTo(i))
  <2>1. m \in 1..n
    BY <1>3
  <2>2. At(m) \in kept /\ Cardinality(UpTo(At(m))) = m
    BY <1>9, <2>1
  <2> HIDE DEF At, UpTo, kept
  <2> QED
    BY <1>5, <2>2
<1>11. Without(q, S) = r
  BY DEF Without
<1>12. r \in Seq(Jobs) /\ Len(r) = n /\ DOMAIN r = 1..n
  <2>1. \A m \in 1..n : q[At(m)] \in Jobs
    BY <1>1, <1>9
  <2> HIDE DEF At, n
  <2> QED
    BY <1>2, <2>1
<1>13. InQueue(r) = InQueue(q) \ S
  <2>1. ASSUME NEW m \in 1..n PROVE r[m] \in InQueue(q) \ S
    BY <1>9 DEF InQueue
  <2>2. ASSUME NEW i \in DOMAIN q, q[i] \notin S PROVE \E m \in 1..n : r[m] = q[i]
    <3>1. i \in kept
      BY <2>2
    <3>2. Cardinality(UpTo(i)) \in 1..n /\ At(Cardinality(UpTo(i))) = i
      BY <1>3, <1>10, <3>1
    <3> HIDE DEF At, UpTo, kept, n
    <3> QED
      BY <3>2
  <2> HIDE DEF r, n
  <2>3. InQueue(r) \subseteq InQueue(q) \ S
    BY <1>12, <2>1 DEF InQueue
  <2>4. InQueue(q) \ S \subseteq InQueue(r)
    BY <1>12, <2>2 DEF InQueue
  <2> QED
    BY <2>3, <2>4
<1>14. ASSUME Distinct(q), NEW m \in 1..n, NEW l \in 1..n, r[m] = r[l]
       PROVE  m = l
  <2>1. At(m) \in kept /\ At(l) \in kept /\ q[At(m)] = q[At(l)]
    BY <1>9, <1>14
  <2>2. At(m) = At(l)
    BY <1>14, <2>1 DEF Distinct
  <2> HIDE DEF At, UpTo, kept
  <2> QED
    BY <1>9, <2>2
<1>15. ASSUME NEW m \in 1..n, NEW l \in 1..n, m < l
       PROVE  At(m) < At(l)
  <2>1. /\ At(m) \in kept /\ Cardinality(UpTo(At(m))) = m
        /\ At(l) \in kept /\ Cardinality(UpTo(At(l))) = l
    BY <1>9
  <2>2. At(m) # At(l)
    <3> HIDE DEF At, UpTo, kept, n
    <3> QED
      BY <1>2, <1>15, <2>1
  <2>3. ~(At(l) < At(m))
    <3> HIDE DEF At, UpTo, kept, n
    <3>1. ASSUME At(l) < At(m) PROVE FALSE
      <4>1. Cardinality(UpTo(At(l))) < Cardinality(UpTo(At(m)))
        BY <1>4, <2>1, <3>1
      <4> QED
        BY <1>2, <1>15, <2>1, <4>1
    <3> QED
      BY <3>1
  <2>4. At(m) \in Nat /\ At(l) \in Nat
    <3> HIDE DEF At
    <3> QED
      BY <1>1, <2>1
  <2> HIDE DEF At
  <2> QED
    BY <2>2, <2>3, <2>4
<1>16. ASSUME NEW a, NEW b, Ahead(r, a, b)
       PROVE  a \notin S /\ b \notin S /\ Ahead(q, a, b)
  <2>1. PICK m \in 1..n, l \in 1..n : m < l /\ r[m] = a /\ r[l] = b
    <3> HIDE DEF r, n
    <3> QED
      BY <1>12, <1>16 DEF Ahead
  <2>2. q[At(m)] = a /\ q[At(l)] = b
    <3> HIDE DEF At, n
    <3> QED
      BY <2>1
  <2>3. At(m) \in kept /\ At(l) \in kept /\ At(m) < At(l)
    <3> HIDE DEF At, UpTo, kept, n, r
    <3> QED
      BY <1>9, <1>15, <2>1
  <2> HIDE DEF At
  <2> QED
    BY <2>2, <2>3 DEF Ahead
<1>17. ASSUME NEW a, NEW b, a \notin S, b \notin S, Ahead(q, a, b)
       PROVE  Ahead(r, a, b)
  <2>1. PICK i \in kept, k \in kept : i < k /\ q[i] = a /\ q[k] = b
    BY <1>17 DEF Ahead
  <2> DEFINE m == Cardinality(UpTo(i))
             l == Cardinality(UpTo(k))
  <2>2. m \in 1..n /\ l \in 1..n /\ m < l
    BY <1>3, <1>4, <2>1
  <2>3. At(m) = i /\ At(l) = k
    BY <1>10
  <2> HIDE DEF At, m, l
  <2>4. r[m] = a /\ r[l] = b
    BY <2>1, <2>2, <2>3
  <2> HIDE DEF r, n
  <2> QED
    BY <1>12, <2>2, <2>4 DEF Ahead
<1> HIDE DEF r, n
<1> QED
  BY <1>2, <1>11, <1>12, <1>13, <1>14, <1>16, <1>17 DEF Distinct

\* A queue of distinct jobs is as long as it has jobs.
LEMMA DistinctLength ==
  ASSUME NEW q \in Seq(Jobs), Distinct(q)
  PROVE  IsFiniteSet(InQueue(q)) /\ Cardinality(InQueue(q)) = Len(q)
<1>1. DOMAIN q = 1..Len(q) /\ Len(q) \in Nat
  BY LenProperties
<1>2. q \in Bijection(1..Len(q), InQueue(q))
  <2>1. q \in [1..Len(q) -> InQueue(q)]
    BY <1>1, LenProperties DEF InQueue
  <2> QED
    BY <1>1, <2>1 DEF Bijection, Injection, Surjection, IsInjective, InQueue, Distinct
<1>3. ExistsBijection(1..Len(q), InQueue(q))
  BY <1>2 DEF ExistsBijection
<1> QED
  BY <1>1, <1>3, FS_Interval, FS_Bijection

-----------------------------------------------------------------------------
(***************************************************************************)
(* What the functions of the server state do to its fields.                *)
(***************************************************************************)

\* The fields of a server state have their types.
LEMMA CoordHasFields ==
  ASSUME NEW c \in CoordType
  PROVE  /\ c.jobs \in SUBSET Jobs /\ c.job \in [Jobs -> JobType] /\ c.queue \in Seq(Jobs)
         /\ c.free \in [Sessions -> Nat] /\ c.mode \in {"open", "closing", "closed"}
         /\ c.closer \in Closers \cup {None} /\ c.poll \in BOOLEAN /\ c.streams \in SUBSET Jobs
         /\ c.asks \in [Jobs -> Asks] /\ c.reply \in [Jobs -> Replies]
         /\ c.kills \in SUBSET Jobs
         /\ c.closing \in [Closers -> {"none", "waiting", "ok", "timeout", "busy"}]
BY DEF CoordType

\* The fields that no function of the server state changes.
Same(r, c) == /\ r.mode = c.mode /\ r.closer = c.closer /\ r.streams = c.streams
              /\ r.closing = c.closing

\* GenServer.reply.
LEMMA ReplyToEffect ==
  ASSUME NEW c \in CoordType, NEW S, NEW code \in Replies
  PROVE  LET r == ReplyTo(c, S, code)
         IN  /\ r \in CoordType /\ Same(r, c)
             /\ r.jobs = c.jobs /\ r.job = c.job /\ r.queue = c.queue /\ r.free = c.free
             /\ r.poll = c.poll /\ r.kills = c.kills
             /\ \A j \in Jobs : /\ r.asks[j] = IF j \in S THEN "none" ELSE c.asks[j]
                                /\ r.reply[j] = IF j \in S THEN code ELSE c.reply[j]
<1> DEFINE asks  == [j \in Jobs |-> IF j \in S THEN "none" ELSE c.asks[j]]
           reply == [j \in Jobs |-> IF j \in S THEN code ELSE c.reply[j]]
<1>1. asks \in [Jobs -> Asks] /\ reply \in [Jobs -> Replies]
  BY CoordHasFields DEF Asks
<1>2. /\ \A j \in Jobs : asks[j] = IF j \in S THEN "none" ELSE c.asks[j]
      /\ \A j \in Jobs : reply[j] = IF j \in S THEN code ELSE c.reply[j]
  OBVIOUS
<1> HIDE DEF asks, reply
<1>3. [c EXCEPT !.asks = asks, !.reply = reply] \in CoordType
  BY <1>1 DEF CoordType
<1> QED
  BY <1>2, <1>3 DEF ReplyTo, CoordType, Same, asks, reply

\* schedule/1 changes nothing but the poll.
LEMMA ScheduleEffect ==
  ASSUME NEW c \in CoordType
  PROVE  LET r == Schedule(c)
         IN  /\ r \in CoordType /\ Same(r, c)
             /\ r.jobs = c.jobs /\ r.job = c.job /\ r.queue = c.queue /\ r.free = c.free
             /\ r.asks = c.asks /\ r.reply = c.reply /\ r.kills = c.kills
<1> DEFINE poll == c.poll \/ c.jobs # {} \/ c.mode = "closing"
<1>1. poll \in BOOLEAN
  BY Zenon
<1>2. Schedule(c) = [c EXCEPT !.poll = poll]
  BY DEF Schedule
<1> HIDE DEF poll
<1> QED
  BY <1>1, <1>2 DEF CoordType, Same

\* The field of a job.
LEMMA JobFields ==
  ASSUME NEW job \in JobType
  PROVE  /\ job.kind \in {"query", "stream"} /\ job.from \in BOOLEAN /\ job.release \in BOOLEAN
         /\ job.timer \in BOOLEAN /\ job.watched \in BOOLEAN /\ job.worker \in BOOLEAN
         /\ job.session \in Sessions \cup {None}
BY DEF JobType

\* A field of a job changes and the others do not.
LEMMA JobUpdates ==
  ASSUME NEW job \in JobType, NEW v \in BOOLEAN
  PROVE  /\ LET r == [job EXCEPT !.from = v]
            IN  /\ r \in JobType /\ (r.from <=> v) /\ r.session = job.session
                /\ (r.worker <=> job.worker) /\ (r.release <=> job.release)
         /\ LET r == [job EXCEPT !.release = v]
            IN  /\ r \in JobType /\ (r.release <=> v) /\ r.session = job.session
                /\ (r.worker <=> job.worker) /\ (r.from <=> job.from)
         /\ LET r == [job EXCEPT !.worker = v]
            IN  /\ r \in JobType /\ (r.worker <=> v) /\ r.session = job.session
                /\ (r.release <=> job.release) /\ (r.from <=> job.from)
         /\ LET r == [job EXCEPT !.timer = v]
            IN  /\ r \in JobType /\ (r.worker <=> job.worker) /\ r.session = job.session
                /\ (r.release <=> job.release) /\ (r.from <=> job.from)
         /\ LET r == [job EXCEPT !.watched = v]
            IN  /\ r \in JobType /\ (r.worker <=> job.worker) /\ r.session = job.session
                /\ (r.release <=> job.release) /\ (r.from <=> job.from)
<1>1. LET r == [job EXCEPT !.from = v]
      IN  /\ r \in JobType /\ (r.from <=> v) /\ r.session = job.session
          /\ (r.worker <=> job.worker) /\ (r.release <=> job.release)
  BY DEF JobType
<1>2. LET r == [job EXCEPT !.release = v]
      IN  /\ r \in JobType /\ (r.release <=> v) /\ r.session = job.session
          /\ (r.worker <=> job.worker) /\ (r.from <=> job.from)
  BY DEF JobType
<1>3. LET r == [job EXCEPT !.worker = v]
      IN  /\ r \in JobType /\ (r.worker <=> v) /\ r.session = job.session
          /\ (r.release <=> job.release) /\ (r.from <=> job.from)
  BY DEF JobType
<1>4. LET r == [job EXCEPT !.timer = v]
      IN  /\ r \in JobType /\ (r.worker <=> job.worker) /\ r.session = job.session
          /\ (r.release <=> job.release) /\ (r.from <=> job.from)
  BY DEF JobType
<1>5. LET r == [job EXCEPT !.watched = v]
      IN  /\ r \in JobType /\ (r.worker <=> job.worker) /\ r.session = job.session
          /\ (r.release <=> job.release) /\ (r.from <=> job.from)
  BY DEF JobType
<1> QED
  BY <1>1, <1>2, <1>3, <1>4, <1>5

\* The record of a job that is not in the server.
LEMMA NoJobFields ==
  /\ NoJob \in JobType /\ ~NoJob.from /\ ~NoJob.release /\ ~NoJob.timer /\ ~NoJob.worker
  /\ NoJob.session = None
BY DEF NoJob, JobType

\* The jobs of a set that have a session.
Giving(c, S, s) == {j \in S : c.job[j].session = s}

\* remove/3: the jobs leave with their queue entries, their sessions become free, and who
\* waits for the release of a stream is answered.
LEMMA RemoveEffect ==
  ASSUME NEW c \in CoordType, NEW S \in SUBSET Jobs, IsFiniteSet(S)
  PROVE  LET r == Remove(c, S)
         IN  /\ r \in CoordType /\ Same(r, c) /\ r.kills = c.kills
             /\ r.jobs = c.jobs \ S
             /\ r.queue = Without(c.queue, S)
             /\ \A j \in Jobs : r.job[j] = IF j \in S THEN NoJob ELSE c.job[j]
             /\ \A s \in Sessions : r.free[s] = c.free[s] + Cardinality(Giving(c, S, s))
             /\ \A j \in Jobs : IF j \in S /\ c.job[j].release
                                THEN r.asks[j] = "none" /\ r.reply[j] = "end"
                                ELSE r.asks[j] = c.asks[j] /\ r.reply[j] = c.reply[j]
<1> DEFINE released == {j \in S : c.job[j].release}
           a     == ReplyTo(c, released, "end")
           jobs  == c.jobs \ S
           job   == [j \in Jobs |-> IF j \in S THEN NoJob ELSE c.job[j]]
           queue == Without(c.queue, S)
           free  == [s \in Sessions |->
                       c.free[s] + Cardinality(Giving(c, S, s))]
<1>1. /\ a \in CoordType /\ Same(a, c)
      /\ a.jobs = c.jobs /\ a.job = c.job /\ a.queue = c.queue /\ a.free = c.free
      /\ a.kills = c.kills
      /\ \A j \in Jobs : /\ a.asks[j] = IF j \in released THEN "none" ELSE c.asks[j]
                         /\ a.reply[j] = IF j \in released THEN "end" ELSE c.reply[j]
  BY ReplyToEffect DEF Replies
<1>2. jobs \in SUBSET Jobs /\ job \in [Jobs -> JobType]
  BY CoordHasFields, NoJobFields
<1>3. queue \in Seq(Jobs)
  BY CoordHasFields, WithoutProperties
<1>4. free \in [Sessions -> Nat]
  <2> SUFFICES ASSUME NEW s \in Sessions
               PROVE  c.free[s] + Cardinality(Giving(c, S, s)) \in Nat
    OBVIOUS
  <2>1. Giving(c, S, s) \in SUBSET S
    BY DEF Giving
  <2>2. Cardinality(Giving(c, S, s)) \in Nat
    BY <2>1, FS_Subset, FS_CardinalityType
  <2> QED
    BY <2>2, CoordHasFields
<1>5. Remove(c, S) = [a EXCEPT !.jobs = jobs, !.job = job, !.queue = queue, !.free = free]
  BY <1>1 DEF Remove, Giving
<1>6. /\ \A j \in Jobs : job[j] = IF j \in S THEN NoJob ELSE c.job[j]
      /\ \A s \in Sessions : free[s] = c.free[s] + Cardinality(Giving(c, S, s))
  OBVIOUS
<1> HIDE DEF a, jobs, job, queue, free
<1>7. [a EXCEPT !.jobs = jobs, !.job = job, !.queue = queue, !.free = free] \in CoordType
  BY <1>1, <1>2, <1>3, <1>4 DEF CoordType
<1>8. /\ Remove(c, S).jobs = jobs /\ Remove(c, S).job = job /\ Remove(c, S).queue = queue
      /\ Remove(c, S).free = free /\ Remove(c, S).asks = a.asks /\ Remove(c, S).reply = a.reply
      /\ Same(Remove(c, S), a) /\ Remove(c, S).kills = a.kills
  BY <1>1, <1>5 DEF CoordType, Same
<1> QED
  BY <1>1, <1>5, <1>6, <1>7, <1>8 DEF jobs, queue, Same

Cancelled(c, S) == S \cap c.jobs
Leaving(c, S)   == {j \in Cancelled(c, S) : c.job[j].session = None}

\* cancel/3: the calls are answered, unless silently; a job without a session leaves, the
\* others keep theirs and their runners, who are sent exit signals.
LEMMA CancelEffect ==
  ASSUME NEW c \in CoordType, IsFiniteSet(c.jobs), NEW S, NEW response \in {"silent", "end"}
  PROVE  LET r == Cancel(c, S, response)
         IN  /\ r \in CoordType /\ Same(r, c)
             /\ r.jobs = c.jobs \ Leaving(c, S)
             /\ r.queue = Without(c.queue, Leaving(c, S))
             /\ r.free = c.free
             /\ \A j \in Leaving(c, S) : r.job[j] = NoJob
             /\ \A j \in Cancelled(c, S) \ Leaving(c, S) :
                  /\ r.job[j].session = c.job[j].session /\ r.job[j].worker = c.job[j].worker
                  /\ ~r.job[j].from
                  /\ r.job[j].release <=> c.job[j].release /\ response = "silent"
             /\ \A j \in Jobs \ Cancelled(c, S) : r.job[j] = c.job[j]
             /\ \A j \in Jobs :
                  IF j \in Cancelled(c, S) /\ IF response = "silent"
                                              THEN j \in Leaving(c, S) /\ c.job[j].release
                                              ELSE c.job[j].from \/ c.job[j].release
                  THEN r.asks[j] = "none" /\ r.reply[j] = "end"
                  ELSE r.asks[j] = c.asks[j] /\ r.reply[j] = c.reply[j]
<1> DEFINE C    == Cancelled(c, S)
           out  == Leaving(c, S)
           owed == {j \in C : c.job[j].from \/ c.job[j].release}
           a    == IF response = "silent" THEN c ELSE ReplyTo(c, owed, response)
           kept(j) == [c.job[j] EXCEPT !.from = FALSE, !.timer = FALSE,
                                       !.release = c.job[j].release /\ response = "silent"]
           job   == [j \in Jobs |-> IF j \in C THEN kept(j) ELSE c.job[j]]
           kills == a.kills \cup {j \in C : c.job[j].worker /\ runner[j] # "dead"}
           b     == [a EXCEPT !.kills = kills, !.job = job]
<1>1. C \in SUBSET c.jobs /\ C \in SUBSET Jobs /\ out \in SUBSET C
  BY CoordHasFields DEF Cancelled, Leaving
<1>2. /\ a \in CoordType /\ Same(a, c)
      /\ a.jobs = c.jobs /\ a.job = c.job /\ a.queue = c.queue /\ a.free = c.free
      /\ \A j \in Jobs :
           IF j \in C /\ response # "silent" /\ (c.job[j].from \/ c.job[j].release)
           THEN a.asks[j] = "none" /\ a.reply[j] = "end"
           ELSE a.asks[j] = c.asks[j] /\ a.reply[j] = c.reply[j]
  <2>1. CASE response = "silent"
    BY <2>1 DEF Same
  <2>2. CASE response = "end"
    BY <2>2, ReplyToEffect DEF Replies
  <2> QED
    BY <2>1, <2>2
<1>3. ASSUME NEW j \in C
      PROVE  /\ kept(j) \in JobType
             /\ kept(j).session = c.job[j].session /\ kept(j).worker = c.job[j].worker
             /\ ~kept(j).from /\ (kept(j).release <=> c.job[j].release /\ response = "silent")
  <2> DEFINE release == c.job[j].release /\ response = "silent"
  <2>1. c.job[j] \in JobType
    BY <1>1, CoordHasFields
  <2>2. release \in BOOLEAN
    BY Zenon
  <2>3. kept(j) = [c.job[j] EXCEPT !.from = FALSE, !.timer = FALSE, !.release = release]
    OBVIOUS
  <2>4. kept(j).release = release
    <3> HIDE DEF release
    <3> QED
      BY <2>1, <2>3 DEF JobType
  <2>5. /\ kept(j) \in JobType /\ kept(j).session = c.job[j].session
        /\ kept(j).worker = c.job[j].worker /\ ~kept(j).from
    <3> HIDE DEF release
    <3> QED
      BY <2>1, <2>2, <2>3 DEF JobType
  <2> QED
    BY <2>4, <2>5
<1>4. job \in [Jobs -> JobType]
  <2> HIDE DEF kept
  <2> QED
    BY <1>3, CoordHasFields
<1>5. kills \in SUBSET Jobs
  BY <1>1, <1>2, CoordHasFields
<1>6. /\ \A j \in C : job[j] = kept(j)
      /\ \A j \in Jobs \ C : job[j] = c.job[j]
  BY <1>1
<1>17. Cancel(c, S, response) = Remove(b, out)
  <2> DEFINE b0 == [a EXCEPT
                      !.kills = @ \cup {j \in C : c.job[j].worker /\ runner[j] # "dead"},
                      !.job = [j \in Jobs |->
                        IF j \in C
                        THEN [@[j] EXCEPT !.from = FALSE, !.timer = FALSE,
                                          !.release = c.job[j].release /\ response = "silent"]
                        ELSE @[j]]]
  <2>1. Cancel(c, S, response) = Remove(b0, {j \in C : c.job[j].session = None})
    BY DEF Cancel, Cancelled
  <2>2. b0 = b
    <3> HIDE DEF a
    <3> QED
      BY <1>2
  <2> HIDE DEF b0, b
  <2> QED
    BY <2>1, <2>2 DEF Leaving, Cancelled
<1> HIDE DEF a, job, kills, kept
<1>8. /\ b \in CoordType /\ Same(b, a) /\ b.jobs = a.jobs /\ b.job = job /\ b.queue = a.queue
      /\ b.free = a.free /\ b.asks = a.asks /\ b.reply = a.reply
  BY <1>2, <1>4, <1>5 DEF CoordType, Same
<1> HIDE DEF b
<1>9. {j \in C : b.job[j].session = None} = out
  BY <1>3, <1>6, <1>8 DEF Leaving
<1>10. out \in SUBSET Jobs /\ IsFiniteSet(out)
  BY <1>1, FS_Subset
<1>11. \A s \in Sessions : Giving(b, out, s) = {}
  BY <1>9, NoneAssumption DEF Giving
<1> DEFINE r == Remove(b, out)
<1>12. /\ r \in CoordType /\ Same(r, b)
       /\ r.jobs = b.jobs \ out /\ r.queue = Without(b.queue, out)
       /\ \A j \in Jobs : r.job[j] = IF j \in out THEN NoJob ELSE b.job[j]
       /\ \A s \in Sessions : r.free[s] = b.free[s] + Cardinality({})
       /\ \A j \in Jobs : IF j \in out /\ b.job[j].release
                          THEN r.asks[j] = "none" /\ r.reply[j] = "end"
                          ELSE r.asks[j] = b.asks[j] /\ r.reply[j] = b.reply[j]
  <2>1. /\ r \in CoordType /\ Same(r, b)
        /\ r.jobs = b.jobs \ out /\ r.queue = Without(b.queue, out)
        /\ \A j \in Jobs : r.job[j] = IF j \in out THEN NoJob ELSE b.job[j]
        /\ \A j \in Jobs : IF j \in out /\ b.job[j].release
                           THEN r.asks[j] = "none" /\ r.reply[j] = "end"
                           ELSE r.asks[j] = b.asks[j] /\ r.reply[j] = b.reply[j]
    BY <1>8, <1>10, RemoveEffect
  <2>2. ASSUME NEW s \in Sessions PROVE r.free[s] = b.free[s] + Cardinality({})
    <3>1. b \in CoordType
      BY <1>8
    <3>2. out \in SUBSET Jobs /\ IsFiniteSet(out)
      BY <1>10
    <3> HIDE DEF out
    <3>3. r.free[s] = b.free[s] + Cardinality(Giving(b, out, s))
      <4>1. \A t \in Sessions : r.free[t] = b.free[t] + Cardinality(Giving(b, out, t))
        BY <3>1, <3>2, RemoveEffect
      <4> QED
        BY <4>1
    <3> HIDE DEF r
    <3> QED
      BY <1>11, <3>3, Zenon
  <2> QED
    BY <2>1, <2>2
<1>13. r.free = c.free
  <2>1. r.free \in [Sessions -> Nat] /\ c.free \in [Sessions -> Nat]
    BY <1>12, CoordHasFields
  <2>2. \A s \in Sessions : r.free[s] = c.free[s]
    BY <1>2, <1>8, <1>12, <2>1, FS_EmptySet
  <2> QED
    BY <2>1, <2>2
<1>14. Cancel(c, S, response) = r
  BY <1>17
<1> HIDE DEF r
<1>15. \A j \in Jobs :
         IF j \in C /\ IF response = "silent"
                       THEN j \in out /\ c.job[j].release
                       ELSE c.job[j].from \/ c.job[j].release
         THEN r.asks[j] = "none" /\ r.reply[j] = "end"
         ELSE r.asks[j] = c.asks[j] /\ r.reply[j] = c.reply[j]
  BY <1>1, <1>2, <1>3, <1>6, <1>8, <1>12
<1>16. /\ \A j \in C \ out :
            /\ r.job[j].session = c.job[j].session /\ r.job[j].worker = c.job[j].worker
            /\ ~r.job[j].from /\ (r.job[j].release <=> c.job[j].release /\ response = "silent")
       /\ \A j \in Jobs \ C : r.job[j] = c.job[j]
  BY <1>1, <1>3, <1>6, <1>8, <1>12
<1> QED
  BY <1>1, <1>2, <1>8, <1>12, <1>13, <1>14, <1>15, <1>16 DEF Same

-----------------------------------------------------------------------------
(***************************************************************************)
(* The invariant of the server state, as a predicate of a state c and the  *)
(* set G of the jobs whose callers are dead, so that it can be stated of   *)
(* what a handler returns, and what cancel/3 and remove/3 keep of it.      *)
(***************************************************************************)
Waiting(c) == {j \in c.jobs : c.job[j].session = None}

\* A call that is not in the server has left nothing behind; one that is has been made; a
\* runner has a session; a job that has lost its runner has been answered; and the streams
\* that have been handed out were answered and keep their session while they last.
JobsInv(c) ==
  /\ IsFiniteSet(c.jobs)
  /\ \A j \in Jobs \ c.jobs : c.job[j] = NoJob
  /\ \A j \in c.jobs : /\ c.asks[j] # "none" \/ c.reply[j] # "none"
                       /\ c.job[j].session = None => ~c.job[j].worker
                       /\ c.job[j].session # None /\ ~c.job[j].worker => ~c.job[j].from
  /\ \A j \in c.streams : /\ c.reply[j] # "none"
                          /\ j \in c.jobs => c.job[j].session # None

\* A session is free once or held by one job, and the queue holds the waiting jobs.
PlacesInv(c) ==
  /\ \A s \in Sessions : c.free[s] + Cardinality(Giving(c, c.jobs, s)) = 1
  /\ Distinct(c.queue)
  /\ InQueue(c.queue) = Waiting(c)

\* A caller waits if and only if it is owed a reply.
RepliesInv(c, G) ==
  \A j \in Jobs \ G : /\ c.asks[j] \in {"open", "next"} <=> c.job[j].from
                      /\ c.asks[j] = "release" <=> c.job[j].release

Good(c, G) == c \in CoordType /\ JobsInv(c) /\ PlacesInv(c) /\ RepliesInv(c, G)

\* No handler takes a job from its runner, or the runner from its session.
Keeps(r, c) == \A j \in c.jobs : c.job[j].worker => /\ j \in r.jobs /\ r.job[j].worker
                                                    /\ r.job[j].session = c.job[j].session

\* remove/3 of jobs whose runners have gone.
LEMMA RemoveKeeps ==
  ASSUME NEW G, NEW c, Good(c, G), NEW S \in SUBSET c.jobs,
         \A j \in S : c.job[j].session # None /\ ~c.job[j].worker
  PROVE  LET r == Remove(c, S)
         IN  /\ Good(r, G) /\ Same(r, c) /\ Keeps(r, c) /\ r.jobs = c.jobs \ S
             /\ Len(r.queue) <= Len(c.queue)
             /\ \A j \in c.jobs \ S : r.job[j] = c.job[j]
<1> DEFINE r == Remove(c, S)
<1>1. c \in CoordType /\ S \in SUBSET Jobs /\ IsFiniteSet(S) /\ c.jobs \in SUBSET Jobs
  BY CoordHasFields, FS_Subset DEF Good, JobsInv
<1>2. /\ r \in CoordType /\ Same(r, c) /\ r.jobs = c.jobs \ S
      /\ r.queue = Without(c.queue, S)
      /\ \A j \in Jobs : r.job[j] = IF j \in S THEN NoJob ELSE c.job[j]
      /\ \A s \in Sessions : r.free[s] = c.free[s] + Cardinality(Giving(c, S, s))
      /\ \A j \in Jobs : IF j \in S /\ c.job[j].release
                         THEN r.asks[j] = "none" /\ r.reply[j] = "end"
                         ELSE r.asks[j] = c.asks[j] /\ r.reply[j] = c.reply[j]
  BY <1>1, RemoveEffect
<1> HIDE DEF r
<1>3. JobsInv(r)
  <2>1. IsFiniteSet(r.jobs)
    <3>1. IsFiniteSet(c.jobs) /\ r.jobs \in SUBSET c.jobs
      BY <1>2 DEF Good, JobsInv
    <3> QED
      BY <3>1, FS_Subset
  <2>2. \A j \in Jobs \ r.jobs : r.job[j] = NoJob
    BY <1>1, <1>2 DEF Good, JobsInv
  <2>3. \A j \in r.jobs : /\ r.asks[j] # "none" \/ r.reply[j] # "none"
                          /\ r.job[j].session = None => ~r.job[j].worker
                          /\ r.job[j].session # None /\ ~r.job[j].worker => ~r.job[j].from
    BY <1>1, <1>2 DEF Good, JobsInv
  <2>4. \A j \in r.streams : /\ r.reply[j] # "none"
                             /\ j \in r.jobs => r.job[j].session # None
    BY <1>1, <1>2, CoordHasFields DEF Good, JobsInv, Same
  <2> QED
    BY <2>1, <2>2, <2>3, <2>4 DEF JobsInv
<1>4. PlacesInv(r)
  <2>1. ASSUME NEW s \in Sessions
        PROVE  r.free[s] + Cardinality(Giving(r, r.jobs, s)) = 1
    <3>1. /\ Giving(r, r.jobs, s) = Giving(c, c.jobs, s) \ Giving(c, S, s)
          /\ Giving(c, c.jobs, s) \cap Giving(c, S, s) = Giving(c, S, s)
      <4>1. /\ Giving(r, r.jobs, s) \subseteq Giving(c, c.jobs, s) \ Giving(c, S, s)
            /\ Giving(c, c.jobs, s) \ Giving(c, S, s) \subseteq Giving(r, r.jobs, s)
        BY <1>1, <1>2 DEF Giving
      <4>2. Giving(c, S, s) \subseteq Giving(c, c.jobs, s)
        BY <1>1 DEF Giving
      <4> QED
        BY <4>1, <4>2
    <3>2. IsFiniteSet(Giving(c, c.jobs, s)) /\ IsFiniteSet(Giving(c, S, s))
      <4>1. Giving(c, c.jobs, s) \in SUBSET c.jobs /\ Giving(c, S, s) \in SUBSET S
        BY DEF Giving
      <4> QED
        BY <1>1, <4>1, FS_Subset DEF Good, JobsInv
    <3>3. /\ Cardinality(Giving(c, c.jobs, s)) \in Nat /\ Cardinality(Giving(c, S, s)) \in Nat
          /\ Cardinality(Giving(r, r.jobs, s))
               = Cardinality(Giving(c, c.jobs, s)) - Cardinality(Giving(c, S, s))
      <4> DEFINE A == Giving(c, c.jobs, s)
                 B == Giving(c, S, s)
      <4>1. IsFiniteSet(A) /\ IsFiniteSet(B) /\ Giving(r, r.jobs, s) = A \ B /\ A \cap B = B
        BY <3>1, <3>2
      <4> HIDE DEF A, B
      <4>2. Cardinality(A \ B) = Cardinality(A) - Cardinality(A \cap B)
        BY <4>1, FS_Difference
      <4>3. Cardinality(A) \in Nat /\ Cardinality(B) \in Nat
        BY <4>1, FS_CardinalityType
      <4>4. Cardinality(Giving(r, r.jobs, s)) = Cardinality(A) - Cardinality(B)
        BY <4>1, <4>2
      <4> QED
        BY <4>3, <4>4 DEF A, B
    <3>4. /\ c.free[s] \in Nat
          /\ r.free[s] = c.free[s] + Cardinality(Giving(c, S, s))
          /\ c.free[s] + Cardinality(Giving(c, c.jobs, s)) = 1
      BY <1>1, <1>2, CoordHasFields DEF Good, PlacesInv
    <3> QED
      BY <3>3, <3>4
  <2>2. Distinct(r.queue) /\ InQueue(r.queue) = Waiting(c) \ S
    BY <1>1, <1>2, WithoutProperties, CoordHasFields DEF Good, PlacesInv
  <2>3. Waiting(c) \ S = Waiting(r)
    BY <1>1, <1>2 DEF Waiting
  <2> QED
    BY <2>1, <2>2, <2>3 DEF PlacesInv
<1>5. RepliesInv(r, G)
  <2> SUFFICES ASSUME NEW j \in Jobs \ G
               PROVE  /\ r.asks[j] \in {"open", "next"} <=> r.job[j].from
                      /\ r.asks[j] = "release" <=> r.job[j].release
    BY DEF RepliesInv
  <2>1. /\ c.asks[j] \in {"open", "next"} <=> c.job[j].from
        /\ c.asks[j] = "release" <=> c.job[j].release
    BY DEF Good, RepliesInv
  <2>2. CASE j \in S
    <3>1. ~c.job[j].from
      BY <2>2 DEF Good, JobsInv
    <3>2. ~r.job[j].from /\ ~r.job[j].release
      BY <1>2, <2>2, NoJobFields
    <3>3. r.asks[j] \notin {"open", "next", "release"}
      BY <1>2, <2>1, <2>2, <3>1
    <3> QED
      BY <3>2, <3>3
  <2>3. CASE j \notin S
    BY <1>2, <2>1, <2>3
  <2> QED
    BY <2>2, <2>3
<1>6. Keeps(r, c) /\ \A j \in c.jobs \ S : r.job[j] = c.job[j]
  BY <1>1, <1>2 DEF Keeps
<1>7. Len(r.queue) <= Len(c.queue)
  BY <1>1, <1>2, WithoutProperties, CoordHasFields
<1> QED
  BY <1>2, <1>3, <1>4, <1>5, <1>6, <1>7 DEF Good, r

\* cancel/3; it is silent only for callers that are dead or wait for nothing.
LEMMA CancelKeeps ==
  ASSUME NEW G, NEW c, Good(c, G), NEW S, NEW response \in {"silent", "end"},
         response = "silent" => \A j \in Cancelled(c, S) \ G : ~c.job[j].from
  PROVE  LET r == Cancel(c, S, response)
         IN  /\ Good(r, G) /\ Same(r, c) /\ Keeps(r, c) /\ r.jobs = c.jobs \ Leaving(c, S)
             /\ r.free = c.free /\ Len(r.queue) <= Len(c.queue)
             /\ \A j \in r.jobs : /\ r.job[j].session = c.job[j].session
                                  /\ r.job[j].worker = c.job[j].worker
             /\ \A j \in Cancelled(c, S) : ~r.job[j].from
<1> DEFINE r   == Cancel(c, S, response)
           C   == Cancelled(c, S)
           out == Leaving(c, S)
<1>1. /\ c \in CoordType /\ IsFiniteSet(c.jobs) /\ c.jobs \in SUBSET Jobs
      /\ C \in SUBSET c.jobs /\ out \in SUBSET C
  BY CoordHasFields DEF Good, JobsInv, Cancelled, Leaving
<1>2. /\ r \in CoordType /\ Same(r, c) /\ r.jobs = c.jobs \ out
      /\ r.queue = Without(c.queue, out) /\ r.free = c.free
      /\ \A j \in out : r.job[j] = NoJob
      /\ \A j \in C \ out :
           /\ r.job[j].session = c.job[j].session /\ r.job[j].worker = c.job[j].worker
           /\ ~r.job[j].from
           /\ r.job[j].release <=> c.job[j].release /\ response = "silent"
      /\ \A j \in Jobs \ C : r.job[j] = c.job[j]
      /\ \A j \in Jobs :
           IF j \in C /\ IF response = "silent"
                         THEN j \in out /\ c.job[j].release
                         ELSE c.job[j].from \/ c.job[j].release
           THEN r.asks[j] = "none" /\ r.reply[j] = "end"
           ELSE r.asks[j] = c.asks[j] /\ r.reply[j] = c.reply[j]
  BY <1>1, CancelEffect
<1>3. \A j \in out : c.job[j].session = None
  BY DEF Leaving
<1>4. \A j \in C \ out : c.job[j].session # None
  BY DEF Leaving
<1> HIDE DEF r, C, out
<1>5. JobsInv(r)
  <2>1. IsFiniteSet(r.jobs)
    <3>1. r.jobs \in SUBSET c.jobs
      BY <1>2
    <3> QED
      BY <1>1, <3>1, FS_Subset
  <2>2. \A j \in Jobs \ r.jobs : r.job[j] = NoJob
    BY <1>1, <1>2 DEF Good, JobsInv
  <2>3. ASSUME NEW j \in r.jobs
        PROVE  /\ r.asks[j] # "none" \/ r.reply[j] # "none"
               /\ r.job[j].session = None => ~r.job[j].worker
               /\ r.job[j].session # None /\ ~r.job[j].worker => ~r.job[j].from
    <3>1. j \in c.jobs /\ j \in Jobs /\ j \notin out
      BY <1>1, <1>2
    <3>2. /\ c.asks[j] # "none" \/ c.reply[j] # "none"
          /\ c.job[j].session = None => ~c.job[j].worker
          /\ c.job[j].session # None /\ ~c.job[j].worker => ~c.job[j].from
      BY <3>1 DEF Good, JobsInv
    <3> QED
      BY <1>2, <3>1, <3>2
  <2>4. ASSUME NEW j \in r.streams
        PROVE  r.reply[j] # "none" /\ (j \in r.jobs => r.job[j].session # None)
    <3>1. j \in Jobs /\ c.reply[j] # "none" /\ (j \in c.jobs => c.job[j].session # None)
      BY <1>1, <1>2, CoordHasFields DEF Good, JobsInv, Same
    <3> QED
      BY <1>1, <1>2, <3>1
  <2> QED
    BY <2>1, <2>2, <2>3, <2>4 DEF JobsInv
<1>6. PlacesInv(r)
  <2>1. ASSUME NEW s \in Sessions
        PROVE  r.free[s] + Cardinality(Giving(r, r.jobs, s)) = 1
    <3>1. Giving(r, r.jobs, s) = Giving(c, c.jobs, s)
      <4>1. s # None
        BY NoneAssumption
      <4>2. Giving(r, r.jobs, s) \subseteq Giving(c, c.jobs, s)
        BY <1>1, <1>2 DEF Giving
      <4>3. Giving(c, c.jobs, s) \subseteq Giving(r, r.jobs, s)
        BY <1>1, <1>2, <1>3, <4>1 DEF Giving
      <4> QED
        BY <4>2, <4>3
    <3> QED
      BY <1>2, <3>1 DEF Good, PlacesInv
  <2>2. Distinct(r.queue) /\ InQueue(r.queue) = Waiting(c) \ out
    BY <1>1, <1>2, WithoutProperties, CoordHasFields DEF Good, PlacesInv
  <2>3. Waiting(c) \ out = Waiting(r)
    BY <1>1, <1>2 DEF Waiting
  <2> QED
    BY <2>1, <2>2, <2>3 DEF PlacesInv
<1>7. RepliesInv(r, G)
  <2> SUFFICES ASSUME NEW j \in Jobs \ G
               PROVE  /\ r.asks[j] \in {"open", "next"} <=> r.job[j].from
                      /\ r.asks[j] = "release" <=> r.job[j].release
    BY DEF RepliesInv
  <2>1. /\ c.asks[j] \in {"open", "next"} <=> c.job[j].from
        /\ c.asks[j] = "release" <=> c.job[j].release
    BY DEF Good, RepliesInv
  <2>2. c.asks[j] \in Asks
    BY <1>1, CoordHasFields
  <2>3. CASE j \notin C
    BY <1>1, <1>2, <2>1, <2>3
  <2>4. CASE j \in out
    <3>1. ~r.job[j].from /\ ~r.job[j].release
      BY <1>2, <2>4, NoJobFields
    <3>2. r.asks[j] = "none"
      BY <1>1, <1>2, <2>1, <2>2, <2>4 DEF Asks, C
    <3> QED
      BY <3>1, <3>2
  <2>5. CASE j \in C \ out
    BY <1>1, <1>2, <2>1, <2>2, <2>5 DEF Asks, C
  <2> QED
    BY <2>3, <2>4, <2>5
<1>8. Keeps(r, c)
  <2> SUFFICES ASSUME NEW j \in c.jobs, c.job[j].worker
               PROVE  /\ j \in r.jobs /\ r.job[j].worker
                      /\ r.job[j].session = c.job[j].session
    BY DEF Keeps
  <2>1. c.job[j].session # None
    BY DEF Good, JobsInv
  <2> QED
    BY <1>1, <1>2, <1>3, <2>1
<1>9. Len(r.queue) <= Len(c.queue)
  BY <1>1, <1>2, WithoutProperties, CoordHasFields
<1>10. \A j \in r.jobs : /\ r.job[j].session = c.job[j].session
                         /\ r.job[j].worker = c.job[j].worker
  BY <1>1, <1>2
<1>11. \A j \in C : ~r.job[j].from
  BY <1>2, NoJobFields
<1> QED
  BY <1>2, <1>5, <1>6, <1>7, <1>8, <1>9, <1>10, <1>11 DEF Good, r, out, C

-----------------------------------------------------------------------------
(***************************************************************************)
(* dispatch/1.                                                             *)
(***************************************************************************)

\* A free list is finite.
LEMMA FreeSessionsFinite ==
  ASSUME NEW c
  PROVE  /\ IsFiniteSet(FreeSessions(c)) /\ Cardinality(FreeSessions(c)) \in Nat
         /\ Cardinality(FreeSessions(c)) = 0 <=> FreeSessions(c) = {}
<1>1. FreeSessions(c) \in SUBSET Sessions
  BY DEF FreeSessions
<1>2. IsFiniteSet(FreeSessions(c))
  BY <1>1, SessionsAssumption, FS_Subset
<1> QED
  BY <1>2, FS_CardinalityType, FS_EmptySet

\* How the number of jobs in time grows down the queue.
LEMMA InTimeGrows ==
  ASSUME NEW c, NEW k \in Nat
  PROVE  /\ IsFiniteSet(InTime(c, k)) /\ Cardinality(InTime(c, k)) \in Nat
         /\ InTime(c, 0) = {} /\ Cardinality(InTime(c, 0)) = 0
         /\ Cardinality(InTime(c, k + 1)) <= Cardinality(InTime(c, k)) + 1
         /\ Cardinality(InTime(c, k + 1)) # Cardinality(InTime(c, k)) => k + 1 \in InTime(c, k + 1)
<1>1. IsFiniteSet(InTime(c, k)) /\ Cardinality(InTime(c, k)) \in Nat
  <2>1. InTime(c, k) \in SUBSET (1..k)
    BY DEF InTime
  <2>2. IsFiniteSet(1..k)
    BY FS_Interval
  <2> QED
    BY <2>1, <2>2, FS_Subset, FS_CardinalityType
<1>2. InTime(c, 0) = {} /\ Cardinality(InTime(c, 0)) = 0
  <2>1. InTime(c, 0) = {}
    BY DEF InTime
  <2> QED
    BY <2>1, FS_EmptySet
<1>3. CASE c.queue[k + 1] \in late
  <2>1. InTime(c, k + 1) = InTime(c, k)
    BY <1>3 DEF InTime
  <2> QED
    BY <1>1, <1>2, <2>1
<1>4. CASE c.queue[k + 1] \notin late
  <2>1. InTime(c, k + 1) = InTime(c, k) \cup {k + 1}
    BY <1>4 DEF InTime
  <2>2. k + 1 \notin InTime(c, k) /\ k + 1 \in InTime(c, k + 1)
    BY <2>1 DEF InTime
  <2>3. Cardinality(InTime(c, k + 1)) = Cardinality(InTime(c, k)) + 1
    BY <1>1, <2>1, <2>2, FS_AddElement
  <2> QED
    BY <1>1, <1>2, <2>2, <2>3
<1> QED
  BY <1>3, <1>4

\* There is a place in the queue where dispatch/1 ends.
LEMMA DispatchEnds ==
  ASSUME NEW c \in CoordType
  PROVE  \E n \in 0..Len(c.queue) : DispatchEnd(c, n)
<1> DEFINE room  == Cardinality(FreeSessions(c))
           In(n) == Cardinality(InTime(c, n))
           last  == Len(c.queue)
           T     == {n \in 0..last : In(n) >= room}
<1>1. room \in Nat /\ last \in Nat
  BY FreeSessionsFinite, CoordHasFields, LenProperties
<1>2. ASSUME NEW n \in Nat
      PROVE  /\ In(n) \in Nat /\ In(0) = 0 /\ In(n + 1) <= In(n) + 1
             /\ In(n + 1) # In(n) => n + 1 \in InTime(c, n + 1)
  BY InTimeGrows
<1>3. \A n \in 0..last :
        DispatchEnd(c, n) <=> /\ In(n) <= room /\ (n < last => In(n) = room)
                              /\ n > 0 /\ In(n) = room => n \in InTime(c, n)
  BY DEF DispatchEnd
<1> HIDE DEF room, In, last
<1>4. CASE In(last) < room
  <2>1. last \in 0..last /\ In(last) <= room /\ ~(last < last) /\ In(last) # room
    BY <1>1, <1>2, <1>4
  <2>2. DispatchEnd(c, last)
    BY <1>3, <2>1
  <2> QED
    BY <2>1, <2>2 DEF last
<1>5. CASE ~(In(last) < room)
  <2>1. last \in T /\ T \in SUBSET Nat
    BY <1>1, <1>2, <1>5
  <2>2. PICK n \in T : \A m \in T : n <= m
    BY <2>1, Least
  <2>3. n \in 0..last /\ n \in Nat /\ In(n) >= room
    BY <1>1, <2>2
  <2>4. CASE n = 0
    <3>1. In(n) = 0 /\ room = 0
      BY <1>1, <1>2, <2>3, <2>4
    <3>2. DispatchEnd(c, n)
      BY <1>3, <2>3, <2>4, <3>1
    <3> QED
      BY <2>3, <3>2 DEF last
  <2>5. CASE n # 0
    <3> DEFINE m == n - 1
    <3>1. m \in Nat /\ m \in 0..last /\ n = m + 1 /\ ~(n <= m)
      BY <1>1, <2>3, <2>5
    <3>2. m \notin T
      BY <2>2, <3>1
    <3>3. ~(In(m) >= room)
      BY <3>1, <3>2
    <3> HIDE DEF m, T
    <3>4. In(m) \in Nat /\ In(n) \in Nat /\ In(n) <= In(m) + 1
      BY <1>2, <2>3, <3>1
    <3>5. In(n) = room /\ In(n) # In(m)
      BY <1>1, <2>3, <3>3, <3>4
    <3>6. n \in InTime(c, n)
      BY <1>2, <3>1, <3>5
    <3>7. In(n) <= room
      BY <1>1, <3>5
    <3>8. DispatchEnd(c, n)
      BY <1>3, <2>3, <3>5, <3>6, <3>7
    <3> QED
      BY <2>3, <3>8 DEF last
  <2> QED
    BY <2>4, <2>5
<1> QED
  BY <1>4, <1>5

\* The invariant while the jobs of S have left the queue and have no session yet.
Almost(c, S, G) ==
  /\ c \in CoordType /\ JobsInv(c) /\ RepliesInv(c, G)
  /\ \A s \in Sessions : c.free[s] + Cardinality(Giving(c, c.jobs, s)) = 1
  /\ Distinct(c.queue)
  /\ InQueue(c.queue) = Waiting(c) \ S

\* The jobs of S are given their sessions and their runners.
Started(c, S, at) ==
  [c EXCEPT !.free = [s \in Sessions |-> @[s] - Cardinality({j \in S : at[j] = s})],
            !.job  = [j \in Jobs |-> IF j \in S
                                     THEN [@[j] EXCEPT !.session = at[j], !.worker = TRUE]
                                     ELSE @[j]]]

\* Free sessions, each given to one job, restore the invariant.
LEMMA StartKeeps ==
  ASSUME NEW G, NEW c, NEW S \in SUBSET Waiting(c), Almost(c, S, G),
         NEW at \in [S -> FreeSessions(c)], \A i, j \in S : at[i] = at[j] => i = j
  PROVE  LET r == Started(c, S, at)
         IN  /\ Good(r, G) /\ Same(r, c) /\ Keeps(r, c) /\ r.queue = c.queue
             /\ \A s \in FreeSessions(r) : s \in FreeSessions(c) /\ \A j \in S : at[j] # s
<1> DEFINE r       == Started(c, S, at)
           Taking(s) == {j \in S : at[j] = s}
           free    == [s \in Sessions |-> c.free[s] - Cardinality(Taking(s))]
           job     == [j \in Jobs |-> IF j \in S
                                      THEN [c.job[j] EXCEPT !.session = at[j], !.worker = TRUE]
                                      ELSE c.job[j]]
<1>1. /\ c \in CoordType /\ c.jobs \in SUBSET Jobs /\ S \in SUBSET c.jobs
      /\ \A j \in S : c.job[j].session = None
      /\ \A j \in S : at[j] \in Sessions /\ c.free[at[j]] > 0
  BY CoordHasFields DEF Almost, Waiting, FreeSessions
<1>2. ASSUME NEW s \in Sessions
      PROVE  \/ Taking(s) = {} /\ Cardinality(Taking(s)) = 0
             \/ Cardinality(Taking(s)) = 1 /\ c.free[s] = 1 /\ \E j \in S : at[j] = s
  <2>1. CASE Taking(s) = {}
    BY <2>1, FS_EmptySet
  <2>2. CASE Taking(s) # {}
    <3>1. PICK j \in S : at[j] = s
      BY <2>2
    <3>2. Taking(s) = {j}
      BY <3>1
    <3>3. Cardinality(Taking(s)) = 1
      BY <3>2, FS_Singleton
    <3>4. Giving(c, c.jobs, s) \in SUBSET c.jobs
      BY DEF Giving
    <3>5. Cardinality(Giving(c, c.jobs, s)) \in Nat
      BY <3>4, FS_Subset, FS_CardinalityType DEF Almost, JobsInv
    <3>6. c.free[s] + Cardinality(Giving(c, c.jobs, s)) = 1 /\ c.free[s] \in Nat /\ c.free[s] > 0
      BY <1>1, <3>1, CoordHasFields DEF Almost
    <3> QED
      BY <3>1, <3>3, <3>5, <3>6
  <2> QED
    BY <2>1, <2>2
<1>3. free \in [Sessions -> Nat] /\ \A s \in Sessions : free[s] = c.free[s] - Cardinality(Taking(s))
  <2>1. \A s \in Sessions : c.free[s] \in Nat
    BY <1>1, CoordHasFields
  <2> HIDE DEF Taking
  <2>2. \A s \in Sessions : c.free[s] - Cardinality(Taking(s)) \in Nat
    BY <1>2, <2>1
  <2> QED
    BY <2>2
<1>4. ASSUME NEW j \in Jobs
      PROVE  /\ job[j] \in JobType
             /\ j \notin S => job[j] = c.job[j]
             /\ j \in S => /\ job[j].session = at[j] /\ job[j].worker
                           /\ job[j].from = c.job[j].from /\ job[j].release = c.job[j].release
  <2>1. c.job[j] \in JobType
    BY <1>1, CoordHasFields
  <2> QED
    BY <1>1, <2>1 DEF JobType
<1>5. job \in [Jobs -> JobType]
  BY <1>4
<1>6. r = [c EXCEPT !.free = free, !.job = job]
  BY <1>1 DEF Started, CoordType
<1> HIDE DEF r, free, job
<1>7. /\ r \in CoordType /\ Same(r, c) /\ r.jobs = c.jobs /\ r.queue = c.queue
      /\ r.free = free /\ r.job = job /\ r.asks = c.asks /\ r.reply = c.reply
  BY <1>1, <1>3, <1>5, <1>6 DEF CoordType, Same
<1>8. JobsInv(r)
  <2>1. IsFiniteSet(r.jobs)
    BY <1>7 DEF Almost, JobsInv
  <2>2. \A j \in Jobs \ r.jobs : r.job[j] = NoJob
    BY <1>1, <1>4, <1>7 DEF Almost, JobsInv
  <2>3. ASSUME NEW j \in r.jobs
        PROVE  /\ r.asks[j] # "none" \/ r.reply[j] # "none"
               /\ r.job[j].session = None => ~r.job[j].worker
               /\ r.job[j].session # None /\ ~r.job[j].worker => ~r.job[j].from
    <3>1. /\ c.asks[j] # "none" \/ c.reply[j] # "none"
          /\ c.job[j].session = None => ~c.job[j].worker
          /\ c.job[j].session # None /\ ~c.job[j].worker => ~c.job[j].from
      BY <1>7 DEF Almost, JobsInv
    <3>2. CASE j \in S
      <4>1. r.job[j].session # None /\ r.job[j].worker
        BY <1>1, <1>4, <1>7, <3>2, NoneAssumption
      <4> QED
        BY <1>7, <3>1, <4>1
    <3>3. CASE j \notin S
      BY <1>1, <1>4, <1>7, <3>1, <3>3
    <3> QED
      BY <3>2, <3>3
  <2>4. ASSUME NEW j \in r.streams
        PROVE  r.reply[j] # "none" /\ (j \in r.jobs => r.job[j].session # None)
    <3>1. j \in Jobs /\ c.reply[j] # "none" /\ (j \in c.jobs => c.job[j].session # None)
      BY <1>1, <1>7, CoordHasFields DEF Almost, JobsInv, Same
    <3> QED
      BY <1>1, <1>4, <1>7, <3>1
  <2> QED
    BY <2>1, <2>2, <2>3, <2>4 DEF JobsInv
<1>9. PlacesInv(r)
  <2>1. ASSUME NEW s \in Sessions
        PROVE  r.free[s] + Cardinality(Giving(r, r.jobs, s)) = 1
    <3>1. s # None
      BY NoneAssumption
    <3>2. Giving(r, r.jobs, s) = Giving(c, c.jobs, s) \cup Taking(s)
      <4>1. Giving(r, r.jobs, s) \subseteq Giving(c, c.jobs, s) \cup Taking(s)
        BY <1>1, <1>4, <1>7 DEF Giving
      <4>2. Giving(c, c.jobs, s) \subseteq Giving(r, r.jobs, s)
        BY <1>1, <1>4, <1>7, <3>1 DEF Giving
      <4>3. Taking(s) \subseteq Giving(r, r.jobs, s)
        BY <1>1, <1>4, <1>7 DEF Giving
      <4> QED
        BY <4>1, <4>2, <4>3
    <3>3. c.free[s] + Cardinality(Giving(c, c.jobs, s)) = 1 /\ c.free[s] \in Nat
      BY <1>1, CoordHasFields DEF Almost
    <3>4. r.free[s] = c.free[s] - Cardinality(Taking(s))
      BY <1>3, <1>7
    <3>5. IsFiniteSet(Giving(c, c.jobs, s)) /\ Cardinality(Giving(c, c.jobs, s)) \in Nat
      <4>1. Giving(c, c.jobs, s) \in SUBSET c.jobs
        BY DEF Giving
      <4> QED
        BY <4>1, FS_Subset, FS_CardinalityType DEF Almost, JobsInv
    <3>6. CASE Taking(s) = {} /\ Cardinality(Taking(s)) = 0
      <4>1. Giving(r, r.jobs, s) = Giving(c, c.jobs, s)
        BY <3>2, <3>6
      <4> QED
        BY <3>3, <3>4, <3>5, <3>6, <4>1
    <3>7. CASE Cardinality(Taking(s)) = 1 /\ c.free[s] = 1
      <4>1. Cardinality(Giving(c, c.jobs, s)) = 0
        BY <3>3, <3>5, <3>7
      <4>2. Giving(c, c.jobs, s) = {}
        BY <3>5, <4>1, FS_EmptySet
      <4>3. Giving(r, r.jobs, s) = Taking(s)
        BY <3>2, <4>2
      <4> QED
        BY <3>4, <3>7, <4>3
    <3> QED
      BY <1>2, <3>6, <3>7
  <2>2. Waiting(r) = Waiting(c) \ S
    BY <1>1, <1>4, <1>7, NoneAssumption DEF Waiting
  <2> QED
    BY <1>7, <2>1, <2>2 DEF Almost, PlacesInv
<1>10. RepliesInv(r, G)
  BY <1>4, <1>7 DEF Almost, RepliesInv
<1>11. Keeps(r, c)
  <2> SUFFICES ASSUME NEW j \in c.jobs, c.job[j].worker
               PROVE  /\ j \in r.jobs /\ r.job[j].worker
                      /\ r.job[j].session = c.job[j].session
    BY DEF Keeps
  <2>1. c.job[j].session # None
    BY DEF Almost, JobsInv
  <2> QED
    BY <1>1, <1>4, <1>7, <2>1
<1>12. ASSUME NEW s \in FreeSessions(r)
       PROVE  s \in FreeSessions(c) /\ \A j \in S : at[j] # s
  <2>1. s \in Sessions /\ r.free[s] > 0 /\ r.free[s] = c.free[s] - Cardinality(Taking(s))
    BY <1>3, <1>7 DEF FreeSessions
  <2>2. c.free[s] \in Nat
    BY <1>1, <2>1, CoordHasFields
  <2>3. Taking(s) = {} /\ Cardinality(Taking(s)) = 0
    <3> HIDE DEF Taking
    <3> QED
      BY <1>2, <2>1, <2>2
  <2>4. c.free[s] > 0
    BY <2>1, <2>2, <2>3
  <2> QED
    BY <2>1, <2>3, <2>4 DEF FreeSessions
<1> QED
  BY <1>7, <1>8, <1>9, <1>10, <1>11, <1>12 DEF Good, r

\* The first k jobs of the queue, those of them that are in time, and what is left when they
\* are taken and the others dropped.
Front(c, k)   == {c.queue[i] : i \in 1..k}
Starting(c, k) == {c.queue[i] : i \in InTime(c, k)}
Popped(c, k)  == [c EXCEPT !.queue = SubSeq(@, k + 1, Len(@))]
Rest(c, k)    == Cancel(Popped(c, k), Front(c, k) \ Starting(c, k), "end")

\* The jobs that are in time are as many as their places in the queue.
LEMMA StartingIsInTime ==
  ASSUME NEW c, NEW k \in Nat, k <= Len(c.queue), Len(c.queue) \in Nat,
         DOMAIN c.queue = 1..Len(c.queue), Distinct(c.queue)
  PROVE  /\ IsFiniteSet(Starting(c, k))
         /\ Cardinality(Starting(c, k)) = Cardinality(InTime(c, k))
<1> DEFINE f == [i \in InTime(c, k) |-> c.queue[i]]
<1>1. InTime(c, k) \subseteq DOMAIN c.queue
  BY DEF InTime
<1>2. f \in Bijection(InTime(c, k), Starting(c, k))
  <2>1. f \in [InTime(c, k) -> Starting(c, k)]
    BY DEF Starting
  <2>2. \A i, j \in InTime(c, k) : f[i] = f[j] => i = j
    BY <1>1 DEF Distinct
  <2>3. \A j \in Starting(c, k) : \E i \in InTime(c, k) : f[i] = j
    BY DEF Starting
  <2> HIDE DEF f
  <2> QED
    BY <2>1, <2>2, <2>3 DEF Bijection, Injection, Surjection, IsInjective
<1>3. ExistsBijection(InTime(c, k), Starting(c, k))
  BY <1>2 DEF ExistsBijection
<1> QED
  BY <1>3, InTimeGrows, FS_Bijection

\* The queue without its front.
LEMMA PoppedQueue ==
  ASSUME NEW c \in CoordType, NEW k \in 0..Len(c.queue), Distinct(c.queue)
  PROVE  LET r == Popped(c, k)
         IN  /\ r \in CoordType /\ Same(r, c) /\ r.jobs = c.jobs /\ r.job = c.job
             /\ r.free = c.free /\ r.asks = c.asks /\ r.reply = c.reply
             /\ Len(r.queue) = Len(c.queue) - k /\ Distinct(r.queue)
             /\ InQueue(r.queue) = InQueue(c.queue) \ Front(c, k)
             /\ \A a, b : Ahead(r.queue, a, b) => Ahead(c.queue, a, b)
<1> DEFINE q == c.queue
           n == Len(q)
           t == SubSeq(q, k + 1, n)
<1>1. q \in Seq(Jobs) /\ n \in Nat /\ DOMAIN q = 1..n /\ k \in Nat /\ k <= n
  BY CoordHasFields, LenProperties
<1>2. /\ t \in Seq(Jobs) /\ Len(t) = n - k /\ DOMAIN t = 1..(n - k)
      /\ \A i \in 1..(n - k) : t[i] = q[k + i]
  <2>1. k + 1 \in Int /\ n \in Int /\ \A i \in (k + 1)..n : q[i] \in Jobs
    BY <1>1, ElementOfSeq
  <2>2. /\ t \in Seq(Jobs)
        /\ Len(t) = IF k + 1 <= n THEN n - (k + 1) + 1 ELSE 0
        /\ \A i \in 1..n - (k + 1) + 1 : t[i] = q[k + 1 + i - 1]
    BY <1>1, <2>1, SubSeqProperties
  <2>3. Len(t) = n - k
    BY <1>1, <2>2
  <2>4. DOMAIN t = 1..(n - k)
    BY <2>2, <2>3, LenProperties
  <2>5. \A i \in 1..(n - k) : i \in 1..n - (k + 1) + 1 /\ k + 1 + i - 1 = k + i
    BY <1>1
  <2> QED
    BY <2>2, <2>3, <2>4, <2>5
<1>3. Popped(c, k) = [c EXCEPT !.queue = t]
  BY DEF Popped
<1> HIDE DEF t
<1>4. /\ Popped(c, k) \in CoordType /\ Same(Popped(c, k), c) /\ Popped(c, k).queue = t
      /\ Popped(c, k).jobs = c.jobs /\ Popped(c, k).job = c.job /\ Popped(c, k).free = c.free
      /\ Popped(c, k).asks = c.asks /\ Popped(c, k).reply = c.reply
  BY <1>2, <1>3 DEF CoordType, Same
<1>5. Distinct(t)
  <2> SUFFICES ASSUME NEW i \in 1..(n - k), NEW l \in 1..(n - k), t[i] = t[l]
               PROVE  i = l
    BY <1>2 DEF Distinct
  <2>1. k + i \in 1..n /\ k + l \in 1..n /\ q[k + i] = q[k + l]
    BY <1>1, <1>2
  <2>2. k + i = k + l
    BY <1>1, <2>1 DEF Distinct
  <2> QED
    BY <1>1, <2>2
<1>6. InQueue(t) = InQueue(q) \ Front(c, k)
  <2>1. ASSUME NEW i \in 1..(n - k)
        PROVE  t[i] \in InQueue(q) \ Front(c, k)
    <3>1. k + i \in 1..n /\ t[i] = q[k + i] /\ k + i > k
      BY <1>1, <1>2
    <3>2. t[i] \in InQueue(q)
      BY <1>1, <3>1 DEF InQueue
    <3>3. ASSUME NEW l \in 1..k, q[l] = q[k + i] PROVE FALSE
      <4>1. l \in DOMAIN q /\ k + i \in DOMAIN q /\ l # k + i
        BY <1>1, <3>1
      <4> QED
        BY <3>3, <4>1 DEF Distinct
    <3> QED
      BY <3>1, <3>2, <3>3 DEF Front
  <2>2. ASSUME NEW l \in 1..n, q[l] \notin Front(c, k)
        PROVE  \E i \in 1..(n - k) : t[i] = q[l]
    <3>1. l \notin 1..k
      BY <2>2 DEF Front
    <3>2. l - k \in 1..(n - k) /\ k + (l - k) = l
      BY <1>1, <3>1
    <3>3. t[l - k] = q[l]
      BY <1>2, <3>2
    <3> QED
      BY <3>2, <3>3
  <2>3. InQueue(t) \subseteq InQueue(q) \ Front(c, k)
    BY <1>2, <2>1 DEF InQueue
  <2>4. ASSUME NEW j \in InQueue(q) \ Front(c, k) PROVE j \in InQueue(t)
    <3>1. PICK l \in DOMAIN q : q[l] = j
      BY DEF InQueue
    <3>2. l \in 1..n /\ q[l] \notin Front(c, k)
      BY <1>1, <3>1
    <3>3. PICK i \in 1..(n - k) : t[i] = q[l]
      BY <2>2, <3>2
    <3> QED
      BY <1>2, <3>1, <3>3 DEF InQueue
  <2> QED
    BY <2>3, <2>4
<1>7. ASSUME NEW a, NEW b, Ahead(t, a, b)
      PROVE  Ahead(q, a, b)
  <2>1. PICK i \in 1..(n - k), l \in 1..(n - k) : i < l /\ t[i] = a /\ t[l] = b
    BY <1>2, <1>7 DEF Ahead
  <2>2. /\ k + i \in 1..n /\ k + l \in 1..n /\ k + i < k + l
        /\ q[k + i] = a /\ q[k + l] = b
    BY <1>1, <1>2, <2>1
  <2> QED
    BY <1>1, <2>2 DEF Ahead
<1> QED
  BY <1>2, <1>4, <1>5, <1>6, <1>7

\* The server once the front of the queue has been taken and the jobs that are late are dropped.
LEMMA RestIsAlmost ==
  ASSUME NEW G, NEW c, Good(c, G), NEW k \in 0..Len(c.queue)
  PROVE  LET r == Rest(c, k)
         IN  /\ Almost(r, Starting(c, k), G) /\ Starting(c, k) \in SUBSET Waiting(r)
             /\ Same(r, c) /\ Keeps(r, c) /\ r.free = c.free
             /\ Len(r.queue) <= Len(c.queue) - k
<1> DEFINE r == Rest(c, k)
           p == Popped(c, k)
           S == Starting(c, k)
           F == Front(c, k)
           D == F \ S
<1>1. /\ c \in CoordType /\ c.jobs \in SUBSET Jobs /\ IsFiniteSet(c.jobs)
      /\ Distinct(c.queue) /\ InQueue(c.queue) = Waiting(c) /\ k \in Nat
      /\ DOMAIN c.queue = 1..Len(c.queue) /\ Len(c.queue) \in Nat
  BY CoordHasFields, LenProperties DEF Good, JobsInv, PlacesInv
<1>2. /\ p \in CoordType /\ Same(p, c) /\ p.jobs = c.jobs /\ p.job = c.job
      /\ p.free = c.free /\ p.asks = c.asks /\ p.reply = c.reply
      /\ Len(p.queue) = Len(c.queue) - k /\ Distinct(p.queue)
      /\ InQueue(p.queue) = Waiting(c) \ F
  BY <1>1, PoppedQueue
<1>3. S \subseteq F /\ F \subseteq Waiting(c)
  <2>1. F \subseteq InQueue(c.queue)
    BY <1>1 DEF Front, InQueue
  <2>2. S \subseteq F
    BY DEF Starting, Front, InTime
  <2> QED
    BY <1>1, <2>1, <2>2
<1>4. \A j \in F : j \in c.jobs /\ c.job[j].session = None /\ ~c.job[j].worker
  BY <1>3 DEF Waiting, Good, JobsInv
<1>5. r = Cancel(p, D, "end")
  BY DEF Rest
<1> HIDE DEF r, p, S, F
<1>6. Cancelled(p, D) = D /\ Leaving(p, D) = D /\ D \in SUBSET Jobs
  BY <1>1, <1>2, <1>4 DEF Cancelled, Leaving
<1>7. /\ r \in CoordType /\ Same(r, p) /\ r.jobs = c.jobs \ D
      /\ r.queue = Without(p.queue, D) /\ r.free = c.free
      /\ \A j \in D : r.job[j] = NoJob
      /\ \A j \in Jobs \ D : r.job[j] = c.job[j]
      /\ \A j \in Jobs : IF j \in D /\ (c.job[j].from \/ c.job[j].release)
                         THEN r.asks[j] = "none" /\ r.reply[j] = "end"
                         ELSE r.asks[j] = c.asks[j] /\ r.reply[j] = c.reply[j]
  <2> DEFINE R == Cancel(p, D, "end")
  <2> HIDE DEF D
  <2>1. /\ R \in CoordType /\ Same(R, p) /\ R.jobs = p.jobs \ D
        /\ R.queue = Without(p.queue, D) /\ R.free = p.free
        /\ \A j \in D : R.job[j] = NoJob
        /\ \A j \in Jobs \ D : R.job[j] = p.job[j]
        /\ \A j \in Jobs : IF j \in D /\ (p.job[j].from \/ p.job[j].release)
                           THEN R.asks[j] = "none" /\ R.reply[j] = "end"
                           ELSE R.asks[j] = p.asks[j] /\ R.reply[j] = p.reply[j]
    BY <1>1, <1>2, <1>6, CancelEffect
  <2> HIDE DEF R
  <2>2. r = R
    BY <1>5 DEF R
  <2> QED
    BY <1>2, <2>1, <2>2
<1>8. Same(r, c)
  BY <1>2, <1>7 DEF Same
<1> HIDE DEF D
<1>9. D \subseteq F /\ F = D \cup S /\ D \cap S = {}
  BY <1>3 DEF D
<1>10. JobsInv(r)
  <2>1. IsFiniteSet(r.jobs)
    <3>1. r.jobs \in SUBSET c.jobs
      BY <1>7
    <3> QED
      BY <1>1, <3>1, FS_Subset
  <2>2. \A j \in Jobs \ r.jobs : r.job[j] = NoJob
    BY <1>7 DEF Good, JobsInv
  <2>3. \A j \in r.jobs : /\ r.asks[j] # "none" \/ r.reply[j] # "none"
                          /\ r.job[j].session = None => ~r.job[j].worker
                          /\ r.job[j].session # None /\ ~r.job[j].worker => ~r.job[j].from
    BY <1>1, <1>7 DEF Good, JobsInv
  <2>4. ASSUME NEW j \in r.streams
        PROVE  r.reply[j] # "none" /\ (j \in r.jobs => r.job[j].session # None)
    <3>1. j \in Jobs /\ c.reply[j] # "none" /\ (j \in c.jobs => c.job[j].session # None)
      BY <1>1, <1>8, CoordHasFields DEF Good, JobsInv, Same
    <3> QED
      BY <1>7, <3>1
  <2> QED
    BY <2>1, <2>2, <2>3, <2>4 DEF JobsInv
<1>11. RepliesInv(r, G)
  <2> SUFFICES ASSUME NEW j \in Jobs \ G
               PROVE  /\ r.asks[j] \in {"open", "next"} <=> r.job[j].from
                      /\ r.asks[j] = "release" <=> r.job[j].release
    BY DEF RepliesInv
  <2>1. /\ c.asks[j] \in {"open", "next"} <=> c.job[j].from
        /\ c.asks[j] = "release" <=> c.job[j].release
    BY DEF Good, RepliesInv
  <2>2. CASE j \in D
    <3>1. ~r.job[j].from /\ ~r.job[j].release
      BY <1>7, <2>2, NoJobFields
    <3>2. r.asks[j] \notin {"open", "next", "release"}
      BY <1>7, <2>1, <2>2
    <3> QED
      BY <3>1, <3>2
  <2>3. CASE j \notin D
    BY <1>7, <2>1, <2>3
  <2> QED
    BY <2>2, <2>3
<1>12. ASSUME NEW s \in Sessions PROVE r.free[s] + Cardinality(Giving(r, r.jobs, s)) = 1
  <2>1. s # None
    BY NoneAssumption
  <2>2. Giving(r, r.jobs, s) \subseteq Giving(c, c.jobs, s)
    BY <1>1, <1>7 DEF Giving
  <2>3. Giving(c, c.jobs, s) \subseteq Giving(r, r.jobs, s)
    BY <1>1, <1>4, <1>7, <1>9, <2>1 DEF Giving
  <2>4. Giving(c, c.jobs, s) = Giving(r, r.jobs, s)
    BY <2>2, <2>3
  <2> QED
    BY <1>7, <2>4 DEF Good, PlacesInv
<1>13. Waiting(r) = Waiting(c) \ D
  BY <1>1, <1>7 DEF Waiting
<1>14. Distinct(r.queue) /\ InQueue(r.queue) = Waiting(r) \ S /\ Len(r.queue) <= Len(p.queue)
  <2>1. p.queue \in Seq(Jobs)
    BY <1>2, CoordHasFields
  <2>2. /\ Distinct(r.queue) /\ InQueue(r.queue) = InQueue(p.queue) \ D
        /\ Len(r.queue) <= Len(p.queue)
    BY <1>2, <1>7, <2>1, WithoutProperties
  <2> QED
    BY <1>2, <1>9, <1>13, <2>2
<1>15. S \in SUBSET Waiting(r)
  BY <1>3, <1>9, <1>13
<1>16. Keeps(r, c)
  BY <1>1, <1>4, <1>7, <1>9 DEF Keeps
<1> QED
  BY <1>2, <1>7, <1>8, <1>10, <1>11, <1>12, <1>14, <1>15, <1>16 DEF Almost, S, r

\* dispatch/1: every job is placed again, and while a session stays free nobody waits.
LEMMA DispatchKeeps ==
  ASSUME NEW G, NEW c, Good(c, G), NEW r \in Dispatched(c)
  PROVE  /\ Good(r, G) /\ Same(r, c) /\ Keeps(r, c)
         /\ FreeSessions(r) # {} => r.queue = <<>>
         /\ Len(r.queue) <= Len(c.queue)
         /\ FreeSessions(c) # {} /\ c.queue # <<>> => Len(r.queue) < Len(c.queue)
<1> DEFINE k    == CHOOSE n \in 0..Len(c.queue) : DispatchEnd(c, n)
           S    == Starting(c, k)
           rest == Rest(c, k)
           Ats  == {f \in [S -> FreeSessions(c)] : \A i, j \in S : f[i] = f[j] => i = j}
<1>1. c \in CoordType /\ Distinct(c.queue)
  BY DEF Good, PlacesInv
<1>2. k \in 0..Len(c.queue) /\ DispatchEnd(c, k)
  BY <1>1, DispatchEnds
<1>3. r \in IF S = {} THEN {rest} ELSE {Schedule(Started(rest, S, at)) : at \in Ats}
  BY DEF Dispatched, Starting, Front, Popped, Rest, Started
<1> HIDE DEF k
<1>4. /\ Almost(rest, S, G) /\ S \in SUBSET Waiting(rest)
      /\ Same(rest, c) /\ Keeps(rest, c) /\ rest.free = c.free
      /\ Len(rest.queue) <= Len(c.queue) - k
  BY <1>2, RestIsAlmost
<1>5. /\ Len(c.queue) \in Nat /\ DOMAIN c.queue = 1..Len(c.queue) /\ c.queue \in Seq(Jobs)
      /\ rest.queue \in Seq(Jobs) /\ Len(rest.queue) \in Nat
  BY <1>1, <1>4, CoordHasFields, LenProperties DEF Almost
<1>6. /\ k \in Nat /\ k <= Len(c.queue)
      /\ IsFiniteSet(S) /\ Cardinality(S) = Cardinality(InTime(c, k)) /\ Cardinality(S) \in Nat
  BY <1>1, <1>2, <1>5, StartingIsInTime, InTimeGrows
<1> DEFINE room == Cardinality(FreeSessions(c))
<1>7. /\ room \in Nat /\ (FreeSessions(c) # {} => room # 0)
      /\ (k < Len(c.queue) => Cardinality(S) = room)
  BY <1>2, <1>6, FreeSessionsFinite DEF DispatchEnd
<1>8. Cardinality(S) # room => rest.queue = <<>>
  BY <1>4, <1>5, <1>6, <1>7, EmptySeq
<1>9. FreeSessions(rest) = FreeSessions(c)
  BY <1>4 DEF FreeSessions
<1>10. Len(rest.queue) <= Len(c.queue)
       /\ (FreeSessions(c) # {} /\ c.queue # <<>> => Len(rest.queue) < Len(c.queue))
  <2>1. ASSUME FreeSessions(c) # {}, c.queue # <<>> PROVE k > 0
    <3>1. Len(c.queue) > 0
      BY <1>5, <2>1, EmptySeq
    <3>2. CASE k = 0
      <4>1. Cardinality(S) = 0
        BY <1>6, <3>2, InTimeGrows
      <4> QED
        BY <1>7, <2>1, <3>1, <3>2, <4>1
    <3> QED
      BY <1>6, <3>2
  <2> QED
    BY <1>4, <1>5, <1>6, <2>1
<1> HIDE DEF S, rest, room
<1>11. CASE S = {}
  <2>1. r = rest
    BY <1>3, <1>11
  <2>2. Good(r, G)
    BY <1>4, <1>11, <2>1 DEF Almost, Good, PlacesInv
  <2>3. FreeSessions(r) # {} => r.queue = <<>>
    BY <1>7, <1>8, <1>9, <1>11, <2>1, FS_EmptySet
  <2> QED
    BY <1>4, <1>10, <2>1, <2>2, <2>3
<1>12. CASE S # {}
  <2>1. PICK at \in Ats : r = Schedule(Started(rest, S, at))
    BY <1>3, <1>12
  <2>2. at \in [S -> FreeSessions(rest)] /\ \A i, j \in S : at[i] = at[j] => i = j
    BY <1>9, <2>1
  <2> DEFINE b == Started(rest, S, at)
  <2>3. /\ Good(b, G) /\ Same(b, rest) /\ Keeps(b, rest) /\ b.queue = rest.queue
        /\ \A s \in FreeSessions(b) : s \in FreeSessions(rest) /\ \A j \in S : at[j] # s
    BY <1>4, <2>2, StartKeeps
  <2> HIDE DEF b
  <2>4. b \in CoordType
    BY <2>3 DEF Good
  <2>5. /\ r \in CoordType /\ Same(r, b) /\ r.jobs = b.jobs /\ r.job = b.job
        /\ r.queue = b.queue /\ r.free = b.free /\ r.asks = b.asks /\ r.reply = b.reply
    BY <2>1, <2>4, ScheduleEffect DEF b
  <2>6. Good(r, G)
    BY <2>3, <2>5 DEF Good, JobsInv, PlacesInv, RepliesInv, Waiting, Giving, Same
  <2>7. Same(r, c) /\ Keeps(r, c)
    BY <1>4, <2>3, <2>5 DEF Same, Keeps
  <2>8. ASSUME FreeSessions(r) # {} PROVE r.queue = <<>>
    <3>1. PICK s \in FreeSessions(r) : TRUE
      BY <2>8
    <3>2. s \in FreeSessions(rest) /\ \A j \in S : at[j] # s
      BY <2>3, <2>5, <3>1 DEF FreeSessions
    <3>3. at \in Injection(S, FreeSessions(rest)) /\ at \notin Surjection(S, FreeSessions(rest))
      BY <2>2, <3>2 DEF Injection, IsInjective, Surjection
    <3>4. Cardinality(S) # Cardinality(FreeSessions(rest))
      BY <3>3, FreeSessionsFinite, FS_Injection
    <3> QED
      BY <1>8, <1>9, <2>3, <2>5, <3>4 DEF room
  <2> QED
    BY <1>10, <2>3, <2>5, <2>6, <2>7, <2>8
<1> QED
  BY <1>11, <1>12

-----------------------------------------------------------------------------
(***************************************************************************)
(* What else a handler may do to the server state.                         *)
(***************************************************************************)

\* The parts of the state that the invariant does not speak of; a stream may be forgotten.
LEMMA GoodDepends ==
  ASSUME NEW G, NEW c, Good(c, G), NEW r \in CoordType,
         r.jobs = c.jobs, r.job = c.job, r.queue = c.queue, r.free = c.free,
         r.streams \subseteq c.streams, r.asks = c.asks, r.reply = c.reply
  PROVE  Good(r, G)
BY DEF Good, JobsInv, PlacesInv, RepliesInv, Waiting, Giving

\* schedule/1.
LEMMA ScheduleKeeps ==
  ASSUME NEW G, NEW c, Good(c, G)
  PROVE  LET r == Schedule(c)
         IN  /\ Good(r, G) /\ Same(r, c) /\ r.jobs = c.jobs /\ r.job = c.job
             /\ r.queue = c.queue /\ r.free = c.free
<1> DEFINE r == Schedule(c)
<1>1. c \in CoordType
  BY DEF Good
<1>2. /\ r \in CoordType /\ Same(r, c) /\ r.jobs = c.jobs /\ r.job = c.job
      /\ r.queue = c.queue /\ r.free = c.free /\ r.asks = c.asks /\ r.reply = c.reply
  BY <1>1, ScheduleEffect
<1> HIDE DEF r
<1>3. Good(r, G)
  BY <1>2, GoodDepends DEF Same
<1> QED
  BY <1>2, <1>3 DEF r

\* The call, the runner or the timer of one job changes, and the job keeps its place.
LEMMA JobChange ==
  ASSUME NEW G, NEW c, Good(c, G), NEW j \in Jobs, NEW r \in CoordType,
         r.jobs = c.jobs, r.queue = c.queue, r.free = c.free,
         \A i \in Jobs \ {j} : /\ r.job[i] = c.job[i]
                               /\ r.asks[i] = c.asks[i] /\ r.reply[i] = c.reply[i],
         r.job[j].session = c.job[j].session,
         j \notin c.jobs => r.job[j] = NoJob,
         j \in c.jobs => /\ r.asks[j] # "none" \/ r.reply[j] # "none"
                         /\ c.job[j].session = None => ~r.job[j].worker
                         /\ c.job[j].session # None /\ ~r.job[j].worker => ~r.job[j].from,
         c.reply[j] # "none" => r.reply[j] # "none",
         \/ r.streams \subseteq c.streams
         \/ /\ r.streams = c.streams \cup {j}
            /\ r.reply[j] # "none" /\ c.job[j].session # None,
         j \in G \/ /\ r.asks[j] \in {"open", "next"} <=> r.job[j].from
                    /\ r.asks[j] = "release" <=> r.job[j].release
  PROVE  Good(r, G)
<1>1. c \in CoordType /\ c.jobs \in SUBSET Jobs /\ c.streams \in SUBSET Jobs
  BY CoordHasFields DEF Good
<1>2. JobsInv(r)
  <2>1. \A i \in Jobs \ r.jobs : r.job[i] = NoJob
    BY DEF Good, JobsInv
  <2>2. ASSUME NEW i \in r.jobs
        PROVE  /\ r.asks[i] # "none" \/ r.reply[i] # "none"
               /\ r.job[i].session = None => ~r.job[i].worker
               /\ r.job[i].session # None /\ ~r.job[i].worker => ~r.job[i].from
    <3>1. CASE i = j
      BY <3>1
    <3>2. CASE i # j
      BY <1>1, <3>2 DEF Good, JobsInv
    <3> QED
      BY <3>1, <3>2
  <2>3. ASSUME NEW i \in r.streams
        PROVE  r.reply[i] # "none" /\ (i \in r.jobs => r.job[i].session # None)
    <3>1. CASE i \in c.streams
      <4>1. i \in Jobs /\ c.reply[i] # "none" /\ (i \in c.jobs => c.job[i].session # None)
        BY <1>1, <3>1 DEF Good, JobsInv
      <4>2. CASE i = j
        BY <4>1, <4>2
      <4>3. CASE i # j
        BY <4>1, <4>3
      <4> QED
        BY <4>2, <4>3
    <3>2. CASE i \notin c.streams
      BY <3>2
    <3> QED
      BY <3>1, <3>2
  <2> QED
    BY <2>1, <2>2, <2>3 DEF Good, JobsInv
<1>3. \A i \in c.jobs : r.job[i].session = c.job[i].session
  BY <1>1
<1>4. PlacesInv(r)
  <2>1. \A s \in Sessions : Giving(r, r.jobs, s) = Giving(c, c.jobs, s)
    BY <1>3 DEF Giving
  <2>2. Waiting(r) = Waiting(c)
    BY <1>3 DEF Waiting
  <2> QED
    BY <2>1, <2>2 DEF Good, PlacesInv
<1>5. RepliesInv(r, G)
  <2> SUFFICES ASSUME NEW i \in Jobs \ G
               PROVE  /\ r.asks[i] \in {"open", "next"} <=> r.job[i].from
                      /\ r.asks[i] = "release" <=> r.job[i].release
    BY DEF RepliesInv
  <2>1. CASE i = j
    BY <2>1
  <2>2. CASE i # j
    BY <2>2 DEF Good, RepliesInv
  <2> QED
    BY <2>1, <2>2
<1> QED
  BY <1>2, <1>4, <1>5 DEF Good

\* The server with one more call.
WithCall(c, j, kind) ==
  [c EXCEPT !.jobs = @ \cup {j},
            !.asks[j] = "open",
            !.job[j] = [NoJob EXCEPT !.kind = kind, !.from = TRUE, !.timer = TRUE,
                                     !.watched = TRUE],
            !.queue = Append(@, j)]

\* A call is put at the end of the queue.
LEMMA QueuedIsGood ==
  ASSUME NEW G, NEW c, Good(c, G), NEW j \in Jobs, NEW kind \in {"query", "stream"},
         c.asks[j] = "none", c.reply[j] = "none"
  PROVE  LET r == WithCall(c, j, kind)
         IN  /\ Good(r, G) /\ Same(r, c) /\ Keeps(r, c) /\ r.free = c.free
             /\ r.queue = Append(c.queue, j) /\ Len(r.queue) = Len(c.queue) + 1
<1> DEFINE new == [NoJob EXCEPT !.kind = kind, !.from = TRUE, !.timer = TRUE, !.watched = TRUE]
           r   == WithCall(c, j, kind)
           q   == Append(c.queue, j)
<1>1. /\ c \in CoordType /\ c.jobs \in SUBSET Jobs /\ c.queue \in Seq(Jobs)
      /\ c.asks \in [Jobs -> Asks] /\ c.job \in [Jobs -> JobType]
      /\ Distinct(c.queue) /\ InQueue(c.queue) = Waiting(c)
  BY CoordHasFields DEF Good, PlacesInv
<1>2. /\ new \in JobType /\ new.from /\ ~new.release /\ ~new.worker /\ new.session = None
  BY DEF NoJob, JobType
<1>3. j \notin c.jobs /\ j \notin c.streams
  BY DEF Good, JobsInv
<1> HIDE DEF new
<1>4. /\ q \in Seq(Jobs) /\ Len(c.queue) \in Nat /\ Len(q) = Len(c.queue) + 1
      /\ DOMAIN c.queue = 1..Len(c.queue) /\ DOMAIN q = 1..Len(q)
      /\ q[Len(q)] = j /\ \A i \in 1..Len(c.queue) : q[i] = c.queue[i]
  BY <1>1, AppendProperties, LenProperties
<1>10. r = [c EXCEPT !.jobs = @ \cup {j}, !.asks[j] = "open", !.job[j] = new, !.queue = q]
  BY DEF WithCall, new
<1> HIDE DEF q, r
<1>5. /\ r \in CoordType /\ Same(r, c) /\ r.jobs = c.jobs \cup {j} /\ r.free = c.free
      /\ r.queue = q /\ r.reply = c.reply
      /\ r.job[j] = new /\ r.asks[j] = "open"
      /\ \A i \in Jobs \ {j} : r.job[i] = c.job[i] /\ r.asks[i] = c.asks[i]
  BY <1>1, <1>2, <1>4, <1>10 DEF CoordType, Same, Asks
<1>6. JobsInv(r)
  <2>1. IsFiniteSet(r.jobs)
    BY <1>5, FS_AddElement DEF Good, JobsInv
  <2>2. \A i \in Jobs \ r.jobs : r.job[i] = NoJob
    BY <1>5 DEF Good, JobsInv
  <2>3. \A i \in r.jobs : /\ r.asks[i] # "none" \/ r.reply[i] # "none"
                          /\ r.job[i].session = None => ~r.job[i].worker
                          /\ r.job[i].session # None /\ ~r.job[i].worker => ~r.job[i].from
    BY <1>1, <1>2, <1>5 DEF Good, JobsInv
  <2>4. ASSUME NEW i \in r.streams
        PROVE  r.reply[i] # "none" /\ (i \in r.jobs => r.job[i].session # None)
    <3>1. i \in c.streams /\ i \in Jobs /\ i # j
      BY <1>1, <1>3, <1>5, CoordHasFields DEF Same
    <3> QED
      BY <1>5, <3>1 DEF Good, JobsInv
  <2> QED
    BY <2>1, <2>2, <2>3, <2>4 DEF JobsInv
<1>7. PlacesInv(r)
  <2>1. ASSUME NEW s \in Sessions PROVE Giving(r, r.jobs, s) = Giving(c, c.jobs, s)
    <3>1. s # None
      BY NoneAssumption
    <3>2. Giving(r, r.jobs, s) \subseteq Giving(c, c.jobs, s)
      BY <1>1, <1>2, <1>5, <3>1 DEF Giving
    <3>3. Giving(c, c.jobs, s) \subseteq Giving(r, r.jobs, s)
      BY <1>1, <1>3, <1>5 DEF Giving
    <3> QED
      BY <3>2, <3>3
  <2>2. Waiting(r) = Waiting(c) \cup {j}
    <3>1. Waiting(r) \subseteq Waiting(c) \cup {j}
      BY <1>1, <1>5 DEF Waiting
    <3>2. Waiting(c) \cup {j} \subseteq Waiting(r)
      BY <1>1, <1>2, <1>3, <1>5 DEF Waiting
    <3> QED
      BY <3>1, <3>2
  <2>3. j \notin InQueue(c.queue)
    BY <1>1, <1>3 DEF Waiting
  <2>4. Distinct(q)
    <3> SUFFICES ASSUME NEW i \in DOMAIN q, NEW k \in DOMAIN q, q[i] = q[k]
                 PROVE  i = k
      BY DEF Distinct
    <3>1. \A l \in DOMAIN q : l = Len(q) \/ (l \in DOMAIN c.queue /\ q[l] = c.queue[l])
      BY <1>4
    <3>2. \A l \in DOMAIN c.queue : c.queue[l] # j
      BY <2>3 DEF InQueue
    <3> QED
      BY <1>1, <1>4, <3>1, <3>2 DEF Distinct
  <2>5. InQueue(q) = InQueue(c.queue) \cup {j}
    <3>1. InQueue(q) \subseteq InQueue(c.queue) \cup {j}
      BY <1>4 DEF InQueue
    <3>2. j \in InQueue(q)
      BY <1>4 DEF InQueue
    <3>3. InQueue(c.queue) \subseteq InQueue(q)
      BY <1>4 DEF InQueue
    <3> QED
      BY <3>1, <3>2, <3>3
  <2> QED
    BY <1>1, <1>5, <2>1, <2>2, <2>4, <2>5 DEF Good, PlacesInv
<1>8. RepliesInv(r, G)
  <2> SUFFICES ASSUME NEW i \in Jobs \ G
               PROVE  /\ r.asks[i] \in {"open", "next"} <=> r.job[i].from
                      /\ r.asks[i] = "release" <=> r.job[i].release
    BY DEF RepliesInv
  <2>1. CASE i = j
    BY <1>2, <1>5, <2>1
  <2>2. CASE i # j
    BY <1>5, <2>2 DEF Good, RepliesInv
  <2> QED
    BY <2>1, <2>2
<1>9. Keeps(r, c)
  BY <1>1, <1>3, <1>5 DEF Keeps
<1> QED
  BY <1>4, <1>5, <1>6, <1>7, <1>8, <1>9 DEF Good, r, q, new

-----------------------------------------------------------------------------
(***************************************************************************)
(* The invariant of the system, in five parts.                             *)
(***************************************************************************)

\* The types of everything but the server state.
OthersTypeOK ==
  /\ late \subseteq Jobs /\ gone \subseteq Jobs
  /\ expire \subseteq Jobs /\ finished \subseteq Jobs /\ wanted \subseteq Jobs
  /\ runner \in [Jobs -> Runners]
  /\ slot \in [Jobs -> Sessions \cup {None}]
  /\ zombies \subseteq Jobs
  /\ holder \in [Sessions -> Jobs \cup {None}]
  /\ broken \subseteq Sessions
  /\ native \in {"ready", "retiring", "closed"}

\* The queue never exceeds its capacity, and nobody waits while a session is free.
QueueInv(c) == /\ Len(c.queue) <= Capacity
               /\ c.mode = "open" /\ FreeSessions(c) # {} => c.queue = <<>>

\* A process that runs is the runner of its job and works on the session of its job.
RunInv ==
  \A j \in Jobs : /\ runner[j] \notin {"none", "dead"} =>
                       j \in coord.jobs /\ coord.job[j].worker /\ slot[j] = coord.job[j].session
                  /\ runner[j] = "none" => slot[j] = None

\* How far the server and the native database have got in closing.
NativeInv ==
  /\ coord.mode = "open" => native = "ready"
  /\ native = "closed" => \A s \in Sessions : holder[s] = None
  /\ coord.mode = "closed" => coord.jobs = {} /\ native = "closed"
  /\ \A c \in Closers : coord.closing[c] = "ok" => coord.mode = "closed"

Core == Good(coord, gone) /\ QueueInv(coord) /\ RunInv /\ NativeInv

Invariant == OthersTypeOK /\ Core

\* A queue that does not grow stays right, unless a session becomes free or the server opens.
LEMMA QueueKept ==
  ASSUME NEW c \in CoordType, NEW r \in CoordType, QueueInv(c),
         r.mode = "open" => c.mode = "open" /\ FreeSessions(r) \subseteq FreeSessions(c),
         Len(r.queue) <= Len(c.queue)
  PROVE  QueueInv(r)
<1>1. /\ c.queue \in Seq(Jobs) /\ r.queue \in Seq(Jobs)
      /\ Len(c.queue) \in Nat /\ Len(r.queue) \in Nat
  BY CoordHasFields, LenProperties
<1>2. Len(r.queue) <= Capacity
  BY <1>1, CapacityAssumption DEF QueueInv
<1>3. ASSUME r.mode = "open", FreeSessions(r) # {} PROVE r.queue = <<>>
  <2>1. c.queue = <<>>
    BY <1>3 DEF QueueInv
  <2>2. Len(c.queue) = 0
    BY <2>1, EmptySeq
  <2>3. Len(r.queue) = 0
    BY <1>1, <2>2
  <2> QED
    BY <1>1, <2>3, EmptySeq
<1> QED
  BY <1>2, <1>3 DEF QueueInv

\* Runners keep their jobs when a handler leaves them to it.
LEMMA RunsKept ==
  ASSUME RunInv, runner' = runner, slot' = slot, Keeps(coord', coord)
  PROVE  RunInv'
BY DEF RunInv, Keeps

\* Closing does not advance.
LEMMA NativeKept ==
  ASSUME NativeInv, coord'.mode = coord.mode, coord'.closing = coord.closing,
         native' = native, holder' = holder,
         coord'.jobs \subseteq coord.jobs \/ coord.mode = "open"
  PROVE  NativeInv'
BY DEF NativeInv

\* The handlers that end with a smaller or equal server: what they have to show.
LEMMA HandlerStep ==
  ASSUME Core, Good(coord', gone), UNCHANGED <<gone, runner, slot, holder, native>>,
         Keeps(coord', coord), coord'.jobs \subseteq coord.jobs, coord'.free = coord.free,
         Len(coord'.queue) <= Len(coord.queue),
         coord'.mode = coord.mode, coord'.closing = coord.closing
  PROVE  Core'
<1>1. coord \in CoordType /\ coord' \in CoordType
  BY DEF Core, Good
<1>2. QueueInv(coord')
  <2>1. FreeSessions(coord') \subseteq FreeSessions(coord)
    BY DEF FreeSessions
  <2> QED
    BY <1>1, <2>1, QueueKept DEF Core
<1>3. RunInv' /\ NativeInv'
  BY RunsKept, NativeKept DEF Core
<1>4. Good(coord', gone')
  OBVIOUS
<1> QED
  BY <1>2, <1>3, <1>4 DEF Core

-----------------------------------------------------------------------------
(***************************************************************************)
(* The handlers keep the invariant: calls.                                 *)
(***************************************************************************)

\* A call is answered without having become, or while it no longer is, a job.
LEMMA AnswerOnly ==
  ASSUME NEW G, NEW c, Good(c, G), NEW j \in Jobs
  PROVE  LET r == [c EXCEPT !.reply[j] = "end"]
         IN  /\ Good(r, G) /\ Same(r, c) /\ Keeps(r, c) /\ r.jobs = c.jobs /\ r.free = c.free
             /\ r.queue = c.queue
<1> DEFINE r == [c EXCEPT !.reply[j] = "end"]
<1>1. c \in CoordType
  BY DEF Good
<1>2. /\ r \in CoordType /\ Same(r, c) /\ r.jobs = c.jobs /\ r.free = c.free
      /\ r.queue = c.queue /\ r.job = c.job /\ r.asks = c.asks /\ r.reply[j] = "end"
      /\ \A i \in Jobs \ {j} : r.reply[i] = c.reply[i]
  BY <1>1 DEF CoordType, Same, Replies
<1> HIDE DEF r
<1>3. /\ j \notin c.jobs => c.job[j] = NoJob
      /\ j \in c.jobs => /\ c.job[j].session = None => ~c.job[j].worker
                         /\ c.job[j].session # None /\ ~c.job[j].worker => ~c.job[j].from
      /\ j \in G \/ /\ c.asks[j] \in {"open", "next"} <=> c.job[j].from
                    /\ c.asks[j] = "release" <=> c.job[j].release
  BY DEF Good, JobsInv, RepliesInv
<1>4. Good(r, G)
  BY <1>2, <1>3, JobChange DEF Same
<1>5. Keeps(r, c)
  BY <1>2 DEF Keeps
<1> QED
  BY <1>2, <1>4, <1>5 DEF r

\* {:query, ...}, {:transaction, ...} and {:stream, ...}.
LEMMA AdmitStep ==
  ASSUME Core, NEW j \in Jobs, NEW kind \in Kinds, Admit(j, kind)
  PROVE  Core'
<1> DEFINE refused == \/ coord.mode # "open" \/ j \in late
                      \/ FreeSessions(coord) = {} /\ Len(coord.queue) >= Capacity
           queued  == WithCall(coord, j, kind)
<1>1. /\ coord.asks[j] = "none" /\ coord.reply[j] = "none"
      /\ IF refused THEN coord' = [coord EXCEPT !.reply[j] = "end"]
         ELSE coord' \in Dispatched(queued)
      /\ UNCHANGED <<gone, runner, slot, holder, native>>
  BY DEF Admit, Unchanged, procVars, nativeVars, WithCall
<1>2. Good(coord, gone) /\ coord \in CoordType
  BY DEF Core, Good
<1>3. CASE refused
  <2> DEFINE r == [coord EXCEPT !.reply[j] = "end"]
  <2>1. coord' = r
    BY <1>1, <1>3
  <2>2. /\ Good(r, gone) /\ Same(r, coord) /\ Keeps(r, coord)
        /\ r.jobs = coord.jobs /\ r.free = coord.free /\ r.queue = coord.queue
    BY <1>2, AnswerOnly
  <2> HIDE DEF r, refused, queued
  <2>3. Len(coord'.queue) <= Len(coord.queue)
    BY <1>2, <2>1, <2>2, CoordHasFields, LenProperties
  <2> QED
    BY <1>1, <2>1, <2>2, <2>3, HandlerStep DEF Same
<1>4. CASE ~refused
  <2>1. coord' \in Dispatched(queued) /\ coord.mode = "open"
        /\ (FreeSessions(coord) # {} \/ ~(Len(coord.queue) >= Capacity))
    BY <1>1, <1>4
  <2>2. kind \in {"query", "stream"}
    BY KindsAssumption
  <2>3. /\ Good(queued, gone) /\ Same(queued, coord) /\ Keeps(queued, coord)
        /\ queued.free = coord.free /\ queued.queue = Append(coord.queue, j)
        /\ Len(queued.queue) = Len(coord.queue) + 1
    BY <1>1, <1>2, <2>2, QueuedIsGood
  <2> HIDE DEF queued, refused
  <2>4. /\ Good(coord', gone) /\ Same(coord', queued) /\ Keeps(coord', queued)
        /\ FreeSessions(coord') # {} => coord'.queue = <<>>
        /\ Len(coord'.queue) <= Len(queued.queue)
        /\ FreeSessions(queued) # {} /\ queued.queue # <<>> => Len(coord'.queue) < Len(queued.queue)
    BY <2>1, <2>3, DispatchKeeps
  <2>5. /\ coord.queue \in Seq(Jobs) /\ Len(coord.queue) \in Nat
        /\ coord' \in CoordType /\ coord'.queue \in Seq(Jobs) /\ Len(coord'.queue) \in Nat
        /\ queued.queue \in Seq(Jobs)
    BY <1>2, <2>3, <2>4, CoordHasFields, LenProperties DEF Good
  <2>6. queued.queue # <<>>
    BY <2>3, <2>5, EmptySeq
  <2>7. FreeSessions(queued) = FreeSessions(coord)
    BY <2>3 DEF FreeSessions
  <2>8. Len(coord'.queue) <= Capacity
    <3>1. Len(coord.queue) <= Capacity
      BY DEF Core, QueueInv
    <3>2. CASE FreeSessions(coord) # {}
      BY <2>3, <2>4, <2>5, <2>6, <2>7, <3>1, <3>2, CapacityAssumption
    <3>3. CASE ~(Len(coord.queue) >= Capacity)
      BY <2>3, <2>4, <2>5, <3>3, CapacityAssumption
    <3> QED
      BY <2>1, <3>2, <3>3
  <2>9. QueueInv(coord')
    BY <2>4, <2>8 DEF QueueInv
  <2>10. Keeps(coord', coord)
    BY <2>3, <2>4 DEF Keeps
  <2>11. RunInv'
    BY <1>1, <2>10, RunsKept DEF Core
  <2>12. NativeInv'
    BY <1>1, <2>1, <2>3, <2>4, NativeKept DEF Core, Same
  <2>13. Good(coord', gone')
    BY <1>1, <2>4
  <2> QED
    BY <2>9, <2>11, <2>12, <2>13 DEF Core
<1> QED
  BY <1>3, <1>4

\* A job is cancelled and the poll is scheduled.
LEMMA CancelStep ==
  ASSUME Core, NEW c, Good(c, gone), NEW S, NEW response \in {"silent", "end"},
         response = "silent" => \A j \in Cancelled(c, S) \ gone : ~c.job[j].from,
         coord' = Schedule(Cancel(c, S, response)),
         UNCHANGED <<gone, runner, slot, holder, native>>,
         Keeps(c, coord), c.jobs = coord.jobs, c.free = coord.free, c.queue = coord.queue,
         c.mode = coord.mode, c.closing = coord.closing
  PROVE  Core'
<1> DEFINE r == Cancel(c, S, response)
<1>1. /\ Good(r, gone) /\ Same(r, c) /\ Keeps(r, c) /\ r.jobs \subseteq c.jobs
      /\ r.free = c.free /\ Len(r.queue) <= Len(c.queue)
  BY CancelKeeps
<1> HIDE DEF r
<1>2. coord' = Schedule(r)
  BY DEF r
<1>3. /\ Good(coord', gone) /\ Same(coord', r) /\ coord'.jobs = r.jobs /\ coord'.job = r.job
      /\ coord'.queue = r.queue /\ coord'.free = r.free
  BY <1>1, <1>2, ScheduleKeeps
<1>4. Keeps(coord', coord)
  BY <1>1, <1>3 DEF Keeps
<1>5. /\ coord'.jobs \subseteq coord.jobs /\ coord'.free = coord.free
      /\ Len(coord'.queue) <= Len(coord.queue)
      /\ coord'.mode = coord.mode /\ coord'.closing = coord.closing
  BY <1>1, <1>3 DEF Same
<1> QED
  BY <1>3, <1>4, <1>5, HandlerStep

\* Stream.next.
LEMMA StreamNextStep ==
  ASSUME Core, NEW j \in Jobs, StreamNext(j)
  PROVE  Core'
<1> DEFINE asked == [coord EXCEPT !.asks[j] = "next", !.job[j].from = TRUE]
<1>1. /\ j \notin gone /\ coord.asks[j] = "none" /\ coord.reply[j] = "ok"
      /\ UNCHANGED <<gone, runner, slot, holder, native>>
  BY DEF StreamNext, nativeVars
<1>2. /\ Good(coord, gone) /\ coord \in CoordType
      /\ coord.queue \in Seq(Jobs) /\ Len(coord.queue) \in Nat
      /\ Len(coord.queue) <= Len(coord.queue)
  BY CoordHasFields, LenProperties DEF Core, Good
<1>3. CASE j \in coord.jobs /\ coord.job[j].worker
  <2> DEFINE job  == [coord.job[j] EXCEPT !.from = TRUE]
             jobs == [coord.job EXCEPT ![j] = job]
             asks == [coord.asks EXCEPT ![j] = "next"]
  <2>7. asked = [coord EXCEPT !.asks = asks, !.job = jobs]
    BY <1>2 DEF CoordType
  <2>8. /\ job \in JobType /\ job.from /\ job.session = coord.job[j].session
        /\ (job.worker <=> coord.job[j].worker) /\ (job.release <=> coord.job[j].release)
    <3>1. coord.job[j] \in JobType
      BY <1>2, CoordHasFields
    <3> QED
      BY <3>1, JobUpdates
  <2> HIDE DEF job
  <2>9. /\ jobs \in [Jobs -> JobType] /\ jobs[j] = job
        /\ asks \in [Jobs -> Asks] /\ asks[j] = "next"
        /\ \A i \in Jobs \ {j} : jobs[i] = coord.job[i] /\ asks[i] = coord.asks[i]
    BY <1>2, <2>8, CoordHasFields DEF Asks
  <2> HIDE DEF asked, jobs, asks
  <2>1. /\ asked \in CoordType /\ Same(asked, coord) /\ asked.jobs = coord.jobs
        /\ asked.queue = coord.queue /\ asked.free = coord.free /\ asked.reply = coord.reply
        /\ asked.asks[j] = "next" /\ asked.job[j].from
        /\ asked.job[j].session = coord.job[j].session
        /\ asked.job[j].worker <=> coord.job[j].worker
        /\ asked.job[j].release <=> coord.job[j].release
        /\ \A i \in Jobs \ {j} : asked.job[i] = coord.job[i] /\ asked.asks[i] = coord.asks[i]
    BY <1>2, <2>7, <2>8, <2>9 DEF CoordType, Same
  <2>2. coord.job[j].session # None /\ ~coord.job[j].release
    BY <1>1, <1>2, <1>3 DEF Good, JobsInv, RepliesInv
  <2>3. Good(asked, gone)
    <3>1. /\ asked.asks[j] # "none" /\ asked.job[j].worker /\ ~asked.job[j].release
          /\ asked.reply[j] # "none" /\ asked.streams \subseteq coord.streams
          /\ asked.asks[j] \in {"open", "next"} /\ asked.asks[j] # "release"
      BY <1>1, <1>3, <2>1, <2>2 DEF Same
    <3>2. \A i \in Jobs \ {j} : /\ asked.job[i] = coord.job[i]
                                 /\ asked.asks[i] = coord.asks[i]
                                 /\ asked.reply[i] = coord.reply[i]
      BY <2>1
    <3> QED
      BY <1>2, <1>3, <2>1, <2>2, <3>1, <3>2, JobChange
  <2>4. Keeps(asked, coord)
    BY <2>1, <1>2, CoordHasFields DEF Keeps
  <2>5. CASE j \in late
    <3>1. coord' = Schedule(Cancel(asked, {j}, "end"))
      BY <1>3, <2>5 DEF StreamNext, asked
    <3> QED
      BY <1>1, <2>1, <2>3, <2>4, <3>1, CancelStep DEF Same
  <2>6. CASE j \notin late
    <3>1. coord' = asked
      BY <1>3, <2>6 DEF StreamNext, asked
    <3> QED
      BY <1>1, <1>2, <2>1, <2>3, <2>4, <3>1, HandlerStep DEF Same
  <2> QED
    BY <2>5, <2>6
<1>4. CASE ~(j \in coord.jobs /\ coord.job[j].worker)
  <2>1. coord' = [coord EXCEPT !.reply[j] = "end"]
    BY <1>4 DEF StreamNext
  <2>2. /\ Good(coord', gone) /\ Same(coord', coord) /\ Keeps(coord', coord)
        /\ coord'.jobs = coord.jobs /\ coord'.free = coord.free /\ coord'.queue = coord.queue
    BY <1>2, <2>1, AnswerOnly
  <2> QED
    BY <1>1, <1>2, <2>2, HandlerStep DEF Same
<1> QED
  BY <1>3, <1>4

\* The record of one job is replaced.
LEMMA SetJob ==
  ASSUME NEW c \in CoordType, NEW j \in Jobs, NEW job \in JobType
  PROVE  LET r == [c EXCEPT !.job[j] = job]
         IN  /\ r \in CoordType /\ Same(r, c) /\ r.jobs = c.jobs /\ r.queue = c.queue
             /\ r.free = c.free /\ r.asks = c.asks /\ r.reply = c.reply
             /\ r.job[j] = job /\ \A i \in Jobs \ {j} : r.job[i] = c.job[i]
<1> DEFINE jobs == [c.job EXCEPT ![j] = job]
           r    == [c EXCEPT !.job[j] = job]
<1>1. r = [c EXCEPT !.job = jobs]
  OBVIOUS
<1>2. /\ jobs \in [Jobs -> JobType] /\ jobs[j] = job
      /\ \A i \in Jobs \ {j} : jobs[i] = c.job[i]
  BY CoordHasFields
<1> HIDE DEF jobs, r
<1>3. /\ r \in CoordType /\ Same(r, c) /\ r.jobs = c.jobs /\ r.queue = c.queue
      /\ r.free = c.free /\ r.asks = c.asks /\ r.reply = c.reply /\ r.job = jobs
  BY <1>1, <1>2 DEF CoordType, Same
<1> QED
  BY <1>2, <1>3 DEF r

\* Nobody loses a runner when the record of one job changes and it keeps its own.
LEMMA KeepsJob ==
  ASSUME NEW c \in CoordType, NEW j \in Jobs, NEW r, r.jobs = c.jobs,
         \A i \in Jobs \ {j} : r.job[i] = c.job[i],
         r.job[j].session = c.job[j].session, c.job[j].worker => r.job[j].worker
  PROVE  Keeps(r, c)
BY CoordHasFields DEF Keeps

\* Stream.release and the end of a stream.
LEMMA StreamReleaseStep ==
  ASSUME Core, NEW j \in Jobs, StreamRelease(j)
  PROVE  Core'
<1> DEFINE left == [coord EXCEPT !.streams = @ \ {j}]
           r    == Cancel(left, {j}, "silent")
           w    == [r EXCEPT !.asks[j] = "release", !.job[j].release = TRUE, !.job[j].timer = TRUE]
<1>1. /\ j \notin gone /\ j \in coord.streams /\ coord.asks[j] = "none"
      /\ UNCHANGED <<gone, runner, slot, holder, native>>
  BY DEF StreamRelease, Unchanged, procVars, nativeVars
<1>2. /\ Good(coord, gone) /\ coord \in CoordType
      /\ coord.queue \in Seq(Jobs) /\ Len(coord.queue) \in Nat
      /\ Len(coord.queue) <= Len(coord.queue)
  BY CoordHasFields, LenProperties DEF Core, Good
<1>3. /\ left \in CoordType /\ left.jobs = coord.jobs /\ left.job = coord.job
      /\ left.queue = coord.queue /\ left.free = coord.free /\ left.asks = coord.asks
      /\ left.reply = coord.reply /\ left.streams \subseteq coord.streams
      /\ left.mode = coord.mode /\ left.closing = coord.closing
  BY <1>2 DEF CoordType
<1>4. IF j \in coord.jobs THEN coord' = Schedule(w) ELSE coord' = [left EXCEPT !.reply[j] = "end"]
  BY DEF StreamRelease
<1> HIDE DEF left
<1>5. Good(left, gone)
  BY <1>2, <1>3, GoodDepends
<1>6. CASE j \notin coord.jobs
  <2>1. /\ Good(coord', gone) /\ Same(coord', left) /\ Keeps(coord', left)
        /\ coord'.jobs = left.jobs /\ coord'.free = left.free /\ coord'.queue = left.queue
    BY <1>4, <1>5, <1>6, AnswerOnly
  <2>2. Keeps(coord', coord)
    BY <1>3, <2>1 DEF Keeps
  <2> QED
    BY <1>1, <1>2, <1>3, <2>1, <2>2, HandlerStep DEF Same
<1>7. CASE j \in coord.jobs
  <2>1. ~coord.job[j].from /\ coord.job[j].session # None
    BY <1>1, <1>2, <1>7 DEF Good, JobsInv, RepliesInv
  <2>2. Cancelled(left, {j}) = {j} /\ Leaving(left, {j}) = {}
    BY <1>3, <1>7, <2>1 DEF Cancelled, Leaving
  <2>3. /\ Good(r, gone) /\ Same(r, left) /\ Keeps(r, left) /\ r.jobs = left.jobs
        /\ r.free = left.free /\ Len(r.queue) <= Len(left.queue)
        /\ r.job[j].session = left.job[j].session /\ r.job[j].worker = left.job[j].worker
        /\ ~r.job[j].from
    <3>1. \A i \in Cancelled(left, {j}) \ gone : ~left.job[i].from
      BY <1>3, <2>1, <2>2
    <3>2. /\ Good(r, gone) /\ Same(r, left) /\ Keeps(r, left)
          /\ r.jobs = left.jobs \ Leaving(left, {j})
          /\ r.free = left.free /\ Len(r.queue) <= Len(left.queue)
          /\ \A i \in r.jobs : /\ r.job[i].session = left.job[i].session
                               /\ r.job[i].worker = left.job[i].worker
          /\ \A i \in Cancelled(left, {j}) : ~r.job[i].from
      <4> DEFINE S == {j}
                 response == "silent"
      <4>1. /\ response \in {"silent", "end"}
            /\ response = "silent" => \A i \in Cancelled(left, S) \ gone : ~left.job[i].from
            /\ r = Cancel(left, S, response)
        BY <3>1
      <4> HIDE DEF S, response, r
      <4>2. /\ Good(r, gone) /\ Same(r, left) /\ Keeps(r, left)
            /\ r.jobs = left.jobs \ Leaving(left, S)
            /\ r.free = left.free /\ Len(r.queue) <= Len(left.queue)
            /\ \A i \in r.jobs : /\ r.job[i].session = left.job[i].session
                                 /\ r.job[i].worker = left.job[i].worker
            /\ \A i \in Cancelled(left, S) : ~r.job[i].from
        BY <1>5, <4>1, CancelKeeps
      <4> QED
        BY <4>2 DEF S
    <3> QED
      BY <1>3, <1>7, <2>2, <3>2
  <2> HIDE DEF r
  <2>4. r \in CoordType /\ r.job[j] \in JobType
    BY <2>3, CoordHasFields DEF Good
  <2> DEFINE b1   == [r.job[j] EXCEPT !.release = TRUE]
             b2   == [b1 EXCEPT !.timer = TRUE]
             asks == [r.asks EXCEPT ![j] = "release"]
             jobs == [r.job EXCEPT ![j] = b2]
  <2>5. w = [r EXCEPT !.asks = asks, !.job = jobs]
    BY <2>4 DEF CoordType
  <2>6. /\ b1 \in JobType /\ b1.release /\ b1.session = r.job[j].session
        /\ (b1.worker <=> r.job[j].worker) /\ (b1.from <=> r.job[j].from)
    BY <2>4, JobUpdates
  <2> HIDE DEF b1
  <2>7. /\ b2 \in JobType /\ b2.release /\ b2.session = r.job[j].session
        /\ (b2.worker <=> r.job[j].worker) /\ ~b2.from
    BY <2>3, <2>6, JobUpdates
  <2> HIDE DEF b2
  <2>8. /\ asks \in [Jobs -> Asks] /\ asks[j] = "release"
        /\ jobs \in [Jobs -> JobType] /\ jobs[j] = b2
        /\ \A i \in Jobs \ {j} : jobs[i] = r.job[i] /\ asks[i] = r.asks[i]
    BY <2>4, <2>7, CoordHasFields DEF Asks
  <2> HIDE DEF w, asks, jobs
  <2>9. /\ w \in CoordType /\ Same(w, r) /\ w.jobs = r.jobs /\ w.queue = r.queue
        /\ w.free = r.free /\ w.reply = r.reply /\ w.job = jobs /\ w.asks = asks
    BY <2>4, <2>5, <2>8 DEF CoordType, Same
  <2>10. Good(w, gone)
    <3>1. /\ \A i \in Jobs \ {j} : /\ w.job[i] = r.job[i]
                                   /\ w.asks[i] = r.asks[i] /\ w.reply[i] = r.reply[i]
          /\ w.job[j].session = r.job[j].session
          /\ w.streams \subseteq r.streams
          /\ w.asks[j] = "release" /\ w.job[j].release /\ ~w.job[j].from
          /\ (w.job[j].worker <=> r.job[j].worker)
      BY <2>7, <2>8, <2>9 DEF Same
    <3>2. j \in r.jobs /\ (r.job[j].session = None => ~r.job[j].worker)
      BY <1>3, <1>7, <2>3 DEF Good, JobsInv
    <3> QED
      BY <2>3, <2>9, <3>1, <3>2, JobChange
  <2>11. /\ Good(coord', gone) /\ Same(coord', w) /\ coord'.jobs = w.jobs /\ coord'.job = w.job
         /\ coord'.queue = w.queue /\ coord'.free = w.free
    BY <1>4, <1>7, <2>10, ScheduleKeeps
  <2>12. Keeps(w, r)
    BY <2>4, <2>7, <2>8, <2>9, KeepsJob
  <2>13. Keeps(coord', coord)
    BY <1>3, <2>3, <2>11, <2>12 DEF Keeps
  <2>14. /\ coord'.jobs \subseteq coord.jobs /\ coord'.free = coord.free
         /\ Len(coord'.queue) <= Len(coord.queue)
         /\ coord'.mode = coord.mode /\ coord'.closing = coord.closing
    BY <1>3, <2>3, <2>9, <2>11 DEF Same
  <2> QED
    BY <1>1, <2>11, <2>13, <2>14, HandlerStep
<1> QED
  BY <1>6, <1>7

\* As HandlerStep, for handlers that let a runner go on, or forget one that is dead.
LEMMA LiveStep ==
  ASSUME Core, Good(coord', gone), UNCHANGED <<gone, slot, holder, native>>,
         \A i \in Jobs : \/ runner'[i] = runner[i]
                         \/ runner[i] \notin {"none", "dead"} /\ runner'[i] # "none",
         \A i \in coord.jobs : coord.job[i].worker /\ runner'[i] # "dead" =>
                                 /\ i \in coord'.jobs /\ coord'.job[i].worker
                                 /\ coord'.job[i].session = coord.job[i].session,
         coord'.jobs = coord.jobs, coord'.free = coord.free, coord'.queue = coord.queue,
         coord'.mode = coord.mode, coord'.closing = coord.closing
  PROVE  Core'
<1>1. coord \in CoordType /\ coord' \in CoordType
  BY DEF Core, Good
<1>2. QueueInv(coord')
  BY DEF QueueInv, FreeSessions, Core
<1>3. RunInv'
  BY DEF Core, RunInv
<1>4. NativeInv'
  BY NativeKept DEF Core
<1>5. Good(coord', gone')
  OBVIOUS
<1> QED
  BY <1>2, <1>3, <1>4, <1>5 DEF Core

\* The server once a runner has answered the call of its job.
Reported(c, j, code, streams) ==
  [ReplyTo(c, {j}, code) EXCEPT !.job[j].from = FALSE, !.streams = streams]

\* A runner answers when its stream is open, or with the next batch of it.
LEMMA RunnerAnswers ==
  ASSUME NEW G, NEW c, Good(c, G), NEW j \in c.jobs, c.job[j].from, c.job[j].worker,
         NEW code \in {"ok", "end"}, NEW streams \in {c.streams, c.streams \cup {j}}
  PROVE  LET r == Reported(c, j, code, streams)
         IN  /\ Good(r, G) /\ Keeps(r, c) /\ r.jobs = c.jobs /\ r.free = c.free
             /\ r.queue = c.queue /\ r.mode = c.mode /\ r.closing = c.closing
<1> DEFINE a    == ReplyTo(c, {j}, code)
           r    == Reported(c, j, code, streams)
           job  == [c.job[j] EXCEPT !.from = FALSE]
           jobs == [c.job EXCEPT ![j] = job]
<1>1. c \in CoordType /\ j \in Jobs /\ code \in Replies /\ c.job[j] \in JobType
  BY CoordHasFields DEF Good, Replies
<1>2. /\ a \in CoordType /\ Same(a, c) /\ a.jobs = c.jobs /\ a.job = c.job
      /\ a.queue = c.queue /\ a.free = c.free
      /\ a.asks[j] = "none" /\ a.reply[j] = code
      /\ \A i \in Jobs \ {j} : a.asks[i] = c.asks[i] /\ a.reply[i] = c.reply[i]
  BY <1>1, ReplyToEffect
<1>3. r = [a EXCEPT !.job = jobs, !.streams = streams]
  <2>1. r = [a EXCEPT !.job[j].from = FALSE, !.streams = streams]
    BY DEF Reported
  <2> HIDE DEF a, r
  <2> QED
    BY <1>2, <2>1 DEF CoordType
<1> HIDE DEF a, r
<1>4. /\ job \in JobType /\ ~job.from /\ job.session = c.job[j].session
      /\ (job.worker <=> c.job[j].worker) /\ (job.release <=> c.job[j].release)
  BY <1>1, JobUpdates
<1> HIDE DEF job
<1>5. /\ jobs \in [Jobs -> JobType] /\ jobs[j] = job
      /\ \A i \in Jobs \ {j} : jobs[i] = c.job[i]
  BY <1>1, <1>4, CoordHasFields
<1>6. streams \in SUBSET Jobs
  BY <1>1, CoordHasFields
<1> HIDE DEF jobs
<1>7. /\ r \in CoordType /\ r.jobs = c.jobs /\ r.job = jobs /\ r.queue = c.queue
      /\ r.free = c.free /\ r.asks = a.asks /\ r.reply = a.reply /\ r.streams = streams
      /\ r.mode = c.mode /\ r.closing = c.closing
  BY <1>2, <1>3, <1>5, <1>6 DEF CoordType, Same
<1>8. /\ \A i \in Jobs \ {j} : /\ r.job[i] = c.job[i]
                               /\ r.asks[i] = c.asks[i] /\ r.reply[i] = c.reply[i]
      /\ r.job[j].session = c.job[j].session /\ r.job[j].worker /\ ~r.job[j].from
      /\ (r.job[j].release <=> c.job[j].release)
      /\ r.asks[j] = "none" /\ r.reply[j] # "none"
  BY <1>2, <1>4, <1>5, <1>7
<1>9. c.job[j].session # None /\ (j \in G \/ ~c.job[j].release)
  BY <1>1 DEF Good, JobsInv, RepliesInv
<1>10. Good(r, G)
  BY <1>1, <1>7, <1>8, <1>9, JobChange
<1>11. Keeps(r, c)
  BY <1>1, <1>7, <1>8, KeepsJob
<1> QED
  BY <1>7, <1>10, <1>11 DEF r

\* {:stream_ready, ...}.
LEMMA StreamReadyStep ==
  ASSUME OthersTypeOK, Core, NEW j \in Jobs, StreamReady(j)
  PROVE  Core'
<1>1. /\ runner[j] = "holding" /\ j \in coord.jobs /\ coord.job[j].from /\ coord.job[j].worker
      /\ UNCHANGED <<gone, slot, holder, native>>
  BY DEF StreamReady, nativeVars
<1>2. /\ Good(coord, gone) /\ coord \in CoordType
      /\ coord.queue \in Seq(Jobs) /\ Len(coord.queue) \in Nat
      /\ Len(coord.queue) <= Len(coord.queue)
  BY CoordHasFields, LenProperties DEF Core, Good
<1>3. CASE j \in late
  <2>1. coord' = Schedule(Cancel(coord, {j}, "end")) /\ runner' = runner
    BY <1>3 DEF StreamReady
  <2>2. Keeps(coord, coord)
    BY DEF Keeps
  <2> QED
    BY <1>1, <1>2, <2>1, <2>2, CancelStep
<1>4. CASE j \notin late
  <2> DEFINE a == ReplyTo(coord, {j}, "ok")
  <2>1. coord' = [a EXCEPT !.job[j].from = FALSE, !.streams = @ \cup {j}]
        /\ runner' = [runner EXCEPT ![j] = "serving"]
    BY <1>4 DEF StreamReady
  <2>2. a.streams = coord.streams /\ a \in CoordType
    BY <1>2, ReplyToEffect DEF Same, Replies
  <2> HIDE DEF a
  <2>3. coord' = [a EXCEPT !.job[j].from = FALSE, !.streams = coord.streams \cup {j}]
    BY <2>1, <2>2 DEF CoordType
  <2>6. coord' = Reported(coord, j, "ok", coord.streams \cup {j})
    BY <2>3 DEF Reported, a
  <2>4. /\ Good(coord', gone) /\ Keeps(coord', coord) /\ coord'.jobs = coord.jobs
        /\ coord'.free = coord.free /\ coord'.queue = coord.queue
        /\ coord'.mode = coord.mode /\ coord'.closing = coord.closing
    BY <1>1, <1>2, <2>6, RunnerAnswers
  <2>5. \A i \in Jobs : \/ runner'[i] = runner[i]
                        \/ runner[i] \notin {"none", "dead"} /\ runner'[i] # "none"
    BY <1>1, <2>1 DEF OthersTypeOK
  <2> QED
    BY <1>1, <2>4, <2>5, LiveStep DEF Keeps
<1> QED
  BY <1>3, <1>4

\* {:stream_batch, ...}.
LEMMA StreamBatchStep ==
  ASSUME OthersTypeOK, Core, NEW j \in Jobs, StreamBatch(j)
  PROVE  Core'
<1>1. /\ runner[j] = "serving" /\ j \in coord.jobs /\ coord.job[j].from /\ coord.job[j].worker
      /\ UNCHANGED <<gone, slot, holder, native>>
  BY DEF StreamBatch, nativeVars
<1>2. /\ Good(coord, gone) /\ coord \in CoordType
      /\ coord.queue \in Seq(Jobs) /\ Len(coord.queue) \in Nat
      /\ Len(coord.queue) <= Len(coord.queue)
  BY CoordHasFields, LenProperties DEF Core, Good
<1>3. CASE j \in late
  <2>1. coord' = Schedule(Cancel(coord, {j}, "end")) /\ runner' = runner
    BY <1>3 DEF StreamBatch
  <2>2. Keeps(coord, coord)
    BY DEF Keeps
  <2> QED
    BY <1>1, <1>2, <2>1, <2>2, CancelStep
<1>4. CASE j \notin late
  <2>1. PICK done \in BOOLEAN :
          /\ coord' = [ReplyTo(coord, {j}, IF done THEN "end" ELSE "ok")
                        EXCEPT !.job[j].from = FALSE]
          /\ runner' = [runner EXCEPT ![j] = IF done THEN "finished" ELSE @]
    BY <1>4 DEF StreamBatch
  <2> DEFINE code == IF done THEN "end" ELSE "ok"
             a    == ReplyTo(coord, {j}, code)
  <2>2. code \in {"ok", "end"} /\ code \in Replies
    BY DEF Replies
  <2>3. coord' = [a EXCEPT !.job[j].from = FALSE]
    BY <2>1
  <2> HIDE DEF code
  <2>4. a.streams = coord.streams /\ a \in CoordType
    BY <1>2, <2>2, ReplyToEffect DEF Same
  <2> HIDE DEF a
  <2>5. coord' = [a EXCEPT !.job[j].from = FALSE, !.streams = coord.streams]
    BY <2>3, <2>4 DEF CoordType
  <2> DEFINE r == Reported(coord, j, code, coord.streams)
  <2>8. coord' = r
    BY <2>5 DEF Reported, a
  <2>9. /\ Good(r, gone) /\ Keeps(r, coord) /\ r.jobs = coord.jobs
        /\ r.free = coord.free /\ r.queue = coord.queue
        /\ r.mode = coord.mode /\ r.closing = coord.closing
    BY <1>1, <1>2, <2>2, RunnerAnswers
  <2> HIDE DEF r
  <2>6. /\ Good(coord', gone) /\ Keeps(coord', coord) /\ coord'.jobs = coord.jobs
        /\ coord'.free = coord.free /\ coord'.queue = coord.queue
        /\ coord'.mode = coord.mode /\ coord'.closing = coord.closing
    BY <2>8, <2>9
  <2>7. \A i \in Jobs : \/ runner'[i] = runner[i]
                        \/ runner[i] \notin {"none", "dead"} /\ runner'[i] # "none"
    BY <1>1, <2>1 DEF OthersTypeOK
  <2> QED
    BY <1>1, <2>6, <2>7, LiveStep DEF Keeps
<1> QED
  BY <1>3, <1>4

\* Aphid.close.
LEMMA CloseStep ==
  ASSUME OthersTypeOK, Core, NEW x \in Closers, Close(x)
  PROVE  Core'
<1>1. /\ Good(coord, gone) /\ coord \in CoordType
      /\ coord.queue \in Seq(Jobs) /\ Len(coord.queue) \in Nat
      /\ Len(coord.queue) <= Len(coord.queue)
      /\ UNCHANGED <<gone, runner, slot, holder>>
  BY CoordHasFields, LenProperties DEF Core, Good, Close, procVars
<1>2. ASSUME NEW code \in {"ok", "busy"}, coord' = [coord EXCEPT !.closing[x] = code],
             native' = native, code = "ok" => coord.mode = "closed"
      PROVE  Core'
  <2> DEFINE closing == [coord.closing EXCEPT ![x] = code]
  <2>1. /\ closing \in [Closers -> {"none", "waiting", "ok", "timeout", "busy"}]
        /\ closing[x] = code /\ \A y \in Closers \ {x} : closing[y] = coord.closing[y]
    BY <1>1, CoordHasFields
  <2>2. coord' = [coord EXCEPT !.closing = closing]
    BY <1>2
  <2> HIDE DEF closing
  <2>3. /\ coord' \in CoordType /\ coord'.jobs = coord.jobs /\ coord'.job = coord.job
        /\ coord'.queue = coord.queue /\ coord'.free = coord.free /\ coord'.mode = coord.mode
        /\ coord'.streams = coord.streams /\ coord'.asks = coord.asks
        /\ coord'.reply = coord.reply /\ coord'.closing = closing
    BY <1>1, <2>1, <2>2 DEF CoordType
  <2>4. Good(coord', gone')
    BY <1>1, <2>3, GoodDepends
  <2>5. QueueInv(coord')
    BY <2>3 DEF QueueInv, FreeSessions, Core
  <2>6. RunInv'
    BY <1>1, <2>3 DEF RunInv, Core
  <2>7. \A c \in Closers : coord'.closing[c] = "ok" => coord'.mode = "closed"
    BY <1>2, <2>1, <2>3 DEF NativeInv, Core
  <2>8. NativeInv'
    BY <1>1, <1>2, <2>3, <2>7 DEF NativeInv, Core
  <2> QED
    BY <2>4, <2>5, <2>6, <2>8 DEF Core
<1>3. CASE coord.mode = "closed"
  BY <1>2, <1>3 DEF Close
<1>4. CASE coord.mode # "closed" /\ coord.closer # None
  BY <1>2, <1>4 DEF Close
<1>5. CASE coord.mode # "closed" /\ coord.closer = None
  <2> DEFINE r == Cancel(coord, coord.jobs, "end")
             w == [r EXCEPT !.mode = "closing", !.closer = x, !.closing[x] = "waiting"]
             closing == [r.closing EXCEPT ![x] = "waiting"]
  <2>1. coord' = Schedule(w) /\ native' = IF native = "ready" THEN "retiring" ELSE native
    BY <1>5 DEF Close
  <2>2. /\ Good(r, gone) /\ Same(r, coord) /\ Keeps(r, coord) /\ r.jobs \subseteq coord.jobs
        /\ r.free = coord.free /\ Len(r.queue) <= Len(coord.queue)
    BY <1>1, CancelKeeps
  <2> HIDE DEF r
  <2>3. r \in CoordType
    BY <2>2 DEF Good
  <2>4. /\ closing \in [Closers -> {"none", "waiting", "ok", "timeout", "busy"}]
        /\ closing[x] = "waiting" /\ \A y \in Closers \ {x} : closing[y] = r.closing[y]
    BY <2>3, CoordHasFields
  <2>5. w = [r EXCEPT !.mode = "closing", !.closer = x, !.closing = closing]
    BY <2>3 DEF CoordType
  <2> HIDE DEF closing, w
  <2>6. /\ w \in CoordType /\ w.jobs = r.jobs /\ w.job = r.job /\ w.queue = r.queue
        /\ w.free = r.free /\ w.mode = "closing" /\ w.streams = r.streams /\ w.asks = r.asks
        /\ w.reply = r.reply /\ w.closing = closing
    BY <2>3, <2>4, <2>5 DEF CoordType
  <2>7. Good(w, gone)
    BY <2>2, <2>6, GoodDepends
  <2>8. /\ Good(coord', gone) /\ Same(coord', w) /\ coord'.jobs = w.jobs /\ coord'.job = w.job
        /\ coord'.queue = w.queue /\ coord'.free = w.free
    BY <2>1, <2>7, ScheduleKeeps
  <2>9. coord' \in CoordType /\ coord'.mode = "closing" /\ coord'.closing = closing
    BY <2>6, <2>8 DEF Good, Same
  <2>10. QueueInv(coord')
    BY <1>1, <2>2, <2>6, <2>8, <2>9, QueueKept DEF Core
  <2>11. Keeps(coord', coord)
    BY <2>2, <2>6, <2>8 DEF Keeps
  <2>12. RunInv'
    BY <1>1, <2>11, RunsKept DEF Core
  <2>13. NativeInv'
    <3>1. \A c \in Closers : coord'.closing[c] # "ok"
      BY <1>5, <2>2, <2>4, <2>9 DEF NativeInv, Core, Same
    <3>2. native' = "closed" => native = "closed"
      BY <2>1
    <3> QED
      BY <1>1, <2>9, <3>1, <3>2 DEF NativeInv, Core
  <2>14. Good(coord', gone')
    BY <1>1, <2>8
  <2> QED
    BY <2>10, <2>12, <2>13, <2>14 DEF Core
<1> QED
  BY <1>3, <1>4, <1>5

-----------------------------------------------------------------------------
(***************************************************************************)
(* The handlers keep the invariant: messages.                              *)
(***************************************************************************)

\* answer/2.
LEMMA AnswerEffect ==
  ASSUME NEW c \in CoordType, NEW j \in Jobs
  PROVE  LET r == Answer(c, j, "end")
         IN  /\ r \in CoordType /\ Same(r, c) /\ r.jobs = c.jobs /\ r.queue = c.queue
             /\ r.free = c.free
             /\ \A i \in Jobs \ {j} : /\ r.job[i] = c.job[i]
                                      /\ r.asks[i] = c.asks[i] /\ r.reply[i] = c.reply[i]
             /\ r.job[j].session = c.job[j].session
             /\ (r.job[j].worker <=> c.job[j].worker)
             /\ (r.job[j].release <=> c.job[j].release)
             /\ IF c.job[j].from THEN r.asks[j] = "none" /\ r.reply[j] = "end"
                ELSE r.asks[j] = c.asks[j] /\ r.reply[j] = c.reply[j]
             /\ ~c.job[j].from => r = c
<1>1. CASE ~c.job[j].from
  <2>1. Answer(c, j, "end") = c
    BY <1>1 DEF Answer
  <2> QED
    BY <1>1, <2>1 DEF Same
<1>2. CASE c.job[j].from
  <2> DEFINE a   == ReplyTo(c, {j}, "end")
             job == [a.job[j] EXCEPT !.timer = FALSE]
             r   == [a EXCEPT !.job[j] = job]
  <2>1. Answer(c, j, "end") = r
    BY <1>2 DEF Answer
  <2>2. /\ a \in CoordType /\ Same(a, c) /\ a.jobs = c.jobs /\ a.job = c.job
        /\ a.queue = c.queue /\ a.free = c.free
        /\ a.asks[j] = "none" /\ a.reply[j] = "end"
        /\ \A i \in Jobs \ {j} : a.asks[i] = c.asks[i] /\ a.reply[i] = c.reply[i]
    BY ReplyToEffect DEF Replies
  <2> HIDE DEF a
  <2>3. /\ job \in JobType /\ job.session = c.job[j].session
        /\ (job.worker <=> c.job[j].worker) /\ (job.release <=> c.job[j].release)
    <3>1. a.job[j] \in JobType
      BY <2>2, CoordHasFields
    <3>2. /\ job \in JobType /\ job.session = a.job[j].session
          /\ (job.worker <=> a.job[j].worker) /\ (job.release <=> a.job[j].release)
      BY <3>1, JobUpdates
    <3> HIDE DEF job
    <3> QED
      BY <2>2, <3>2
  <2> HIDE DEF job
  <2>4. /\ r \in CoordType /\ Same(r, a) /\ r.jobs = a.jobs /\ r.queue = a.queue
        /\ r.free = a.free /\ r.asks = a.asks /\ r.reply = a.reply
        /\ r.job[j] = job /\ \A i \in Jobs \ {j} : r.job[i] = a.job[i]
    BY <2>2, <2>3, SetJob
  <2> HIDE DEF r
  <2> QED
    BY <1>2, <2>1, <2>2, <2>3, <2>4 DEF Same
<1> QED
  BY <1>1, <1>2

\* The server once the pending call of a job is answered and forgotten.
Forgotten(c, j) == [Answer(c, j, "end") EXCEPT !.job[j].from = FALSE]

\* What became of the runner is told once.
LEMMA ForgottenKeeps ==
  ASSUME NEW G, NEW c, Good(c, G), NEW j \in c.jobs
  PROVE  LET r == Forgotten(c, j)
         IN  /\ Good(r, G) /\ Same(r, c) /\ Keeps(r, c) /\ r.jobs = c.jobs /\ r.queue = c.queue
             /\ r.free = c.free
             /\ \A i \in Jobs \ {j} : r.job[i] = c.job[i]
             /\ r.job[j].session = c.job[j].session /\ ~r.job[j].from
             /\ (r.job[j].worker <=> c.job[j].worker)
<1> DEFINE a   == Answer(c, j, "end")
           job == [a.job[j] EXCEPT !.from = FALSE]
           r   == Forgotten(c, j)
<1>1. c \in CoordType /\ j \in Jobs
  BY CoordHasFields DEF Good
<1>2. /\ a \in CoordType /\ Same(a, c) /\ a.jobs = c.jobs /\ a.queue = c.queue
      /\ a.free = c.free
      /\ \A i \in Jobs \ {j} : /\ a.job[i] = c.job[i]
                               /\ a.asks[i] = c.asks[i] /\ a.reply[i] = c.reply[i]
      /\ a.job[j].session = c.job[j].session
      /\ (a.job[j].worker <=> c.job[j].worker)
      /\ (a.job[j].release <=> c.job[j].release)
      /\ IF c.job[j].from THEN a.asks[j] = "none" /\ a.reply[j] = "end"
         ELSE a.asks[j] = c.asks[j] /\ a.reply[j] = c.reply[j]
  BY <1>1, AnswerEffect
<1>3. r = [a EXCEPT !.job[j] = job]
  BY DEF Forgotten
<1> HIDE DEF a, r
<1>4. /\ job \in JobType /\ ~job.from /\ job.session = a.job[j].session
      /\ (job.worker <=> a.job[j].worker) /\ (job.release <=> a.job[j].release)
  <2>1. a.job[j] \in JobType
    BY <1>1, <1>2, CoordHasFields
  <2> QED
    BY <2>1, JobUpdates
<1> HIDE DEF job
<1>5. /\ r \in CoordType /\ Same(r, a) /\ r.jobs = a.jobs /\ r.queue = a.queue
      /\ r.free = a.free /\ r.asks = a.asks /\ r.reply = a.reply
      /\ r.job[j] = job /\ \A i \in Jobs \ {j} : r.job[i] = a.job[i]
  BY <1>1, <1>2, <1>3, <1>4, SetJob
<1>6. /\ \A i \in Jobs \ {j} : /\ r.job[i] = c.job[i]
                               /\ r.asks[i] = c.asks[i] /\ r.reply[i] = c.reply[i]
      /\ r.job[j].session = c.job[j].session /\ ~r.job[j].from
      /\ (r.job[j].worker <=> c.job[j].worker) /\ (r.job[j].release <=> c.job[j].release)
      /\ IF c.job[j].from THEN r.asks[j] = "none" /\ r.reply[j] = "end"
         ELSE r.asks[j] = c.asks[j] /\ r.reply[j] = c.reply[j]
      /\ r.streams = c.streams
  BY <1>2, <1>4, <1>5 DEF Same
<1>7. Good(r, G)
  <2>1. /\ c.asks[j] # "none" \/ c.reply[j] # "none"
        /\ c.job[j].session = None => ~c.job[j].worker
        /\ j \in G \/ /\ c.asks[j] \in {"open", "next"} <=> c.job[j].from
                      /\ c.asks[j] = "release" <=> c.job[j].release
    BY <1>1 DEF Good, JobsInv, RepliesInv
  <2>2. /\ r.asks[j] # "none" \/ r.reply[j] # "none"
        /\ c.job[j].session = None => ~r.job[j].worker
        /\ c.reply[j] # "none" => r.reply[j] # "none"
    BY <1>6, <2>1
  <2>3. j \in G \/ /\ r.asks[j] \in {"open", "next"} <=> r.job[j].from
                   /\ r.asks[j] = "release" <=> r.job[j].release
    BY <1>6, <2>1
  <2>4. r.jobs = c.jobs /\ r.queue = c.queue /\ r.free = c.free
    BY <1>2, <1>5
  <2>5. r.streams \subseteq c.streams
    BY <1>6
  <2> QED
    BY <1>1, <1>5, <1>6, <2>2, <2>3, <2>4, <2>5, JobChange
<1>8. Keeps(r, c)
  BY <1>1, <1>2, <1>5, <1>6, KeepsJob
<1> QED
  BY <1>2, <1>5, <1>6, <1>7, <1>8 DEF r, Same

\* {:finished, ...}.
LEMMA HandleFinishedStep ==
  ASSUME Core, NEW j \in Jobs, HandleFinished(j)
  PROVE  Core'
<1>1. /\ UNCHANGED <<gone, runner, slot, holder, native>>
      /\ Good(coord, gone) /\ coord \in CoordType
      /\ coord.queue \in Seq(Jobs) /\ Len(coord.queue) \in Nat
      /\ Len(coord.queue) <= Len(coord.queue)
  BY CoordHasFields, LenProperties DEF Core, Good, HandleFinished, nativeVars
<1>2. CASE j \in coord.jobs
  <2> DEFINE r == Forgotten(coord, j)
  <2>1. coord' = Schedule(r)
    BY <1>2 DEF HandleFinished, Forgotten
  <2>2. /\ Good(r, gone) /\ Same(r, coord) /\ Keeps(r, coord) /\ r.jobs = coord.jobs
        /\ r.queue = coord.queue /\ r.free = coord.free
    BY <1>1, <1>2, ForgottenKeeps
  <2> HIDE DEF r
  <2>3. /\ Good(coord', gone) /\ Same(coord', r) /\ coord'.jobs = r.jobs /\ coord'.job = r.job
        /\ coord'.queue = r.queue /\ coord'.free = r.free
    BY <2>1, <2>2, ScheduleKeeps
  <2>4. Keeps(coord', coord)
    BY <2>2, <2>3 DEF Keeps
  <2> QED
    BY <1>1, <2>2, <2>3, <2>4, HandlerStep DEF Same
<1>3. CASE j \notin coord.jobs
  <2>1. coord' = coord
    BY <1>3 DEF HandleFinished
  <2> QED
    BY <1>1, <2>1, HandlerStep DEF Keeps
<1> QED
  BY <1>2, <1>3

\* {:DOWN, worker}.
LEMMA HandleRunnerDownStep ==
  ASSUME Core, NEW j \in Jobs, HandleRunnerDown(j)
  PROVE  Core'
<1> DEFINE r   == Forgotten(coord, j)
           job == [r.job[j] EXCEPT !.worker = FALSE]
           w   == [r EXCEPT !.job[j] = job]
<1>1. /\ UNCHANGED <<gone, runner, slot, holder, native>>
      /\ Good(coord, gone) /\ coord \in CoordType
      /\ j \in coord.jobs /\ runner[j] = "dead" /\ coord.job[j].worker
  BY DEF Core, Good, HandleRunnerDown, Unchanged, procVars, nativeVars
<1>2. /\ Good(r, gone) /\ Same(r, coord) /\ r.jobs = coord.jobs
      /\ r.queue = coord.queue /\ r.free = coord.free
      /\ \A i \in Jobs \ {j} : r.job[i] = coord.job[i]
      /\ r.job[j].session = coord.job[j].session /\ ~r.job[j].from /\ r.job[j].worker
  BY <1>1, ForgottenKeeps
<1>3. coord' = Schedule(w)
  <2>1. coord' = Schedule([Answer(coord, j, "end") EXCEPT !.job[j].from = FALSE,
                                                          !.job[j].worker = FALSE])
    BY DEF HandleRunnerDown
  <2>2. [Answer(coord, j, "end") EXCEPT !.job[j].from = FALSE, !.job[j].worker = FALSE] = w
    BY DEF Forgotten
  <2> QED
    BY <2>1, <2>2, Zenon
<1> HIDE DEF r
<1>4. r \in CoordType /\ r.job[j] \in JobType
  BY <1>2, CoordHasFields DEF Good
<1>5. /\ job \in JobType /\ job.session = r.job[j].session /\ ~job.worker
      /\ (job.from <=> r.job[j].from) /\ (job.release <=> r.job[j].release)
  BY <1>4, JobUpdates
<1> HIDE DEF job
<1>6. /\ w \in CoordType /\ Same(w, r) /\ w.jobs = r.jobs /\ w.queue = r.queue
      /\ w.free = r.free /\ w.asks = r.asks /\ w.reply = r.reply
      /\ w.job[j] = job /\ \A i \in Jobs \ {j} : w.job[i] = r.job[i]
  BY <1>4, <1>5, SetJob
<1> HIDE DEF w
<1>7. Good(w, gone)
  <2>1. /\ r.asks[j] # "none" \/ r.reply[j] # "none"
        /\ j \in gone \/ /\ r.asks[j] \in {"open", "next"} <=> r.job[j].from
                         /\ r.asks[j] = "release" <=> r.job[j].release
    BY <1>1, <1>2 DEF Good, JobsInv, RepliesInv
  <2>2. /\ ~w.job[j].worker /\ ~w.job[j].from /\ (w.job[j].release <=> r.job[j].release)
        /\ w.job[j].session = r.job[j].session
    BY <1>2, <1>5, <1>6
  <2>3. /\ w.asks[j] # "none" \/ w.reply[j] # "none"
        /\ j \in gone \/ /\ w.asks[j] \in {"open", "next"} <=> w.job[j].from
                         /\ w.asks[j] = "release" <=> w.job[j].release
        /\ \A i \in Jobs \ {j} : /\ w.job[i] = r.job[i]
                                 /\ w.asks[i] = r.asks[i] /\ w.reply[i] = r.reply[i]
        /\ w.streams \subseteq r.streams
        /\ r.reply[j] # "none" => w.reply[j] # "none"
    BY <1>2, <1>6, <2>1, <2>2 DEF Same
  <2> QED
    BY <1>1, <1>2, <1>6, <2>2, <2>3, JobChange
<1>8. /\ Good(coord', gone) /\ Same(coord', w) /\ coord'.jobs = w.jobs /\ coord'.job = w.job
      /\ coord'.queue = w.queue /\ coord'.free = w.free
  BY <1>3, <1>7, ScheduleKeeps
<1>9. \A i \in coord.jobs : coord.job[i].worker /\ runner'[i] # "dead" =>
                              /\ i \in coord'.jobs /\ coord'.job[i].worker
                              /\ coord'.job[i].session = coord.job[i].session
  BY <1>1, <1>2, <1>6, <1>8, CoordHasFields
<1> QED
  BY <1>1, <1>2, <1>6, <1>8, <1>9, LiveStep DEF Same

\* {:expire, ...}.
LEMMA HandleExpireStep ==
  ASSUME Core, NEW j \in Jobs, HandleExpire(j)
  PROVE  Core'
<1>1. /\ UNCHANGED <<gone, runner, slot, holder, native>>
      /\ Good(coord, gone) /\ coord \in CoordType /\ Keeps(coord, coord)
      /\ coord.queue \in Seq(Jobs) /\ Len(coord.queue) \in Nat
      /\ Len(coord.queue) <= Len(coord.queue)
  BY CoordHasFields, LenProperties
  DEF Core, Good, HandleExpire, Unchanged, procVars, nativeVars, Keeps
<1>2. CASE j \in coord.jobs
  <2>1. coord' = Schedule(Cancel(coord, {j}, "end"))
    BY <1>2 DEF HandleExpire
  <2> QED
    BY <1>1, <2>1, CancelStep
<1>3. CASE j \notin coord.jobs
  <2>1. coord' = coord
    BY <1>3 DEF HandleExpire
  <2> QED
    BY <1>1, <2>1, HandlerStep
<1> QED
  BY <1>2, <1>3

\* A field of a job changes on which nothing depends.
LEMMA QuietChange ==
  ASSUME NEW G, NEW c, Good(c, G), NEW j \in Jobs, j \in c.jobs, NEW job \in JobType,
         job.session = c.job[j].session, job.worker <=> c.job[j].worker,
         job.from <=> c.job[j].from, job.release <=> c.job[j].release
  PROVE  LET r == [c EXCEPT !.job[j] = job]
         IN  /\ Good(r, G) /\ Keeps(r, c) /\ Same(r, c) /\ r.jobs = c.jobs /\ r.queue = c.queue
             /\ r.free = c.free
<1> DEFINE r == [c EXCEPT !.job[j] = job]
<1>1. c \in CoordType
  BY DEF Good
<1>2. /\ r \in CoordType /\ Same(r, c) /\ r.jobs = c.jobs /\ r.queue = c.queue
      /\ r.free = c.free /\ r.asks = c.asks /\ r.reply = c.reply
      /\ r.job[j] = job /\ \A i \in Jobs \ {j} : r.job[i] = c.job[i]
  BY <1>1, SetJob
<1> HIDE DEF r
<1>3. /\ c.asks[j] # "none" \/ c.reply[j] # "none"
      /\ c.job[j].session = None => ~c.job[j].worker
      /\ c.job[j].session # None /\ ~c.job[j].worker => ~c.job[j].from
      /\ j \in G \/ /\ c.asks[j] \in {"open", "next"} <=> c.job[j].from
                    /\ c.asks[j] = "release" <=> c.job[j].release
  BY DEF Good, JobsInv, RepliesInv
<1>4. /\ r.asks[j] # "none" \/ r.reply[j] # "none"
      /\ c.job[j].session = None => ~r.job[j].worker
      /\ c.job[j].session # None /\ ~r.job[j].worker => ~r.job[j].from
      /\ j \in G \/ /\ r.asks[j] \in {"open", "next"} <=> r.job[j].from
                    /\ r.asks[j] = "release" <=> r.job[j].release
      /\ r.job[j].session = c.job[j].session /\ (c.job[j].worker => r.job[j].worker)
      /\ r.streams \subseteq c.streams
      /\ \A i \in Jobs \ {j} : /\ r.job[i] = c.job[i]
                               /\ r.asks[i] = c.asks[i] /\ r.reply[i] = c.reply[i]
  BY <1>2, <1>3 DEF Same
<1>5. Good(r, G)
  BY <1>2, <1>4, JobChange
<1>6. Keeps(r, c)
  BY <1>1, <1>2, <1>4, KeepsJob
<1> QED
  BY <1>2, <1>5, <1>6 DEF r

\* {:DOWN, caller}.
LEMMA HandleCallerDownStep ==
  ASSUME Core, NEW j \in Jobs, HandleCallerDown(j)
  PROVE  Core'
<1> DEFINE job == [coord.job[j] EXCEPT !.watched = FALSE]
           c   == [coord EXCEPT !.job[j] = job]
<1>1. /\ UNCHANGED <<gone, runner, slot, holder, native>>
      /\ Good(coord, gone) /\ coord \in CoordType /\ j \in gone /\ j \in coord.jobs
      /\ coord' = Schedule(Cancel(c, {j}, "silent"))
  BY DEF Core, Good, HandleCallerDown, Unchanged, procVars, nativeVars
<1>2. /\ job \in JobType /\ job.session = coord.job[j].session
      /\ (job.worker <=> coord.job[j].worker) /\ (job.from <=> coord.job[j].from)
      /\ (job.release <=> coord.job[j].release)
  <2>1. coord.job[j] \in JobType
    BY <1>1, CoordHasFields
  <2> QED
    BY <2>1, JobUpdates
<1> HIDE DEF job
<1>3. /\ Good(c, gone) /\ Keeps(c, coord) /\ Same(c, coord) /\ c.jobs = coord.jobs
      /\ c.queue = coord.queue /\ c.free = coord.free
  BY <1>1, <1>2, QuietChange
<1> HIDE DEF c
<1> DEFINE S == {j}
           response == "silent"
<1>4. /\ response \in {"silent", "end"}
      /\ response = "silent" => \A i \in Cancelled(c, S) \ gone : ~c.job[i].from
      /\ coord' = Schedule(Cancel(c, S, response))
  BY <1>1 DEF Cancelled
<1> HIDE DEF S, response
<1> QED
  BY <1>1, <1>3, <1>4, CancelStep DEF Same

\* A timer fires.
LEMMA TimerFiresStep ==
  ASSUME Core, NEW j \in Jobs, TimerFires(j)
  PROVE  Core'
<1> DEFINE job == [coord.job[j] EXCEPT !.timer = FALSE]
<1>1. /\ UNCHANGED <<gone, runner, slot, holder, native>>
      /\ Good(coord, gone) /\ coord \in CoordType
      /\ coord.queue \in Seq(Jobs) /\ Len(coord.queue) \in Nat
      /\ Len(coord.queue) <= Len(coord.queue)
      /\ coord' = [coord EXCEPT !.job[j] = job]
  BY CoordHasFields, LenProperties DEF Core, Good, TimerFires, Unchanged, procVars, nativeVars
<1>2. j \in coord.jobs
  BY NoJobFields DEF TimerFires, Core, Good, JobsInv
<1>3. /\ job \in JobType /\ job.session = coord.job[j].session
      /\ (job.worker <=> coord.job[j].worker) /\ (job.from <=> coord.job[j].from)
      /\ (job.release <=> coord.job[j].release)
  <2>1. coord.job[j] \in JobType
    BY <1>1, CoordHasFields
  <2> QED
    BY <2>1, JobUpdates
<1> HIDE DEF job
<1>4. /\ Good(coord', gone) /\ Keeps(coord', coord) /\ Same(coord', coord)
      /\ coord'.jobs = coord.jobs /\ coord'.queue = coord.queue /\ coord'.free = coord.free
  BY <1>1, <1>2, <1>3, QuietChange
<1> QED
  BY <1>1, <1>4, HandlerStep DEF Same

\* :close_timeout.
LEMMA HandleCloseTimeoutStep ==
  ASSUME Core, HandleCloseTimeout
  PROVE  Core'
<1> DEFINE closing == [coord.closing EXCEPT ![coord.closer] = "timeout"]
<1>1. /\ UNCHANGED <<gone, runner, slot, holder, native>>
      /\ Good(coord, gone) /\ coord \in CoordType
      /\ coord' = [coord EXCEPT !.closing[coord.closer] = "timeout", !.closer = None]
  BY DEF Core, Good, HandleCloseTimeout, Unchanged, procVars, nativeVars
<1>2. coord' = [coord EXCEPT !.closing = closing, !.closer = None]
  BY <1>1
<1>3. /\ closing \in [Closers -> {"none", "waiting", "ok", "timeout", "busy"}]
      /\ \A x \in Closers : closing[x] = "ok" => coord.closing[x] = "ok"
  <2>1. coord.closing \in [Closers -> {"none", "waiting", "ok", "timeout", "busy"}]
    BY <1>1, CoordHasFields
  <2> QED
    BY <2>1
<1> HIDE DEF closing
<1>4. /\ coord' \in CoordType /\ coord'.jobs = coord.jobs /\ coord'.job = coord.job
      /\ coord'.queue = coord.queue /\ coord'.free = coord.free /\ coord'.mode = coord.mode
      /\ coord'.streams = coord.streams /\ coord'.asks = coord.asks
      /\ coord'.reply = coord.reply /\ coord'.closing = closing
  BY <1>1, <1>2, <1>3 DEF CoordType
<1>5. Good(coord', gone')
  BY <1>1, <1>4, GoodDepends
<1>6. QueueInv(coord')
  BY <1>4 DEF QueueInv, FreeSessions, Core
<1>7. RunInv'
  BY <1>1, <1>4 DEF RunInv, Core
<1>8. NativeInv'
  BY <1>1, <1>3, <1>4 DEF NativeInv, Core
<1> QED
  BY <1>5, <1>6, <1>7, <1>8 DEF Core

-----------------------------------------------------------------------------
(***************************************************************************)
(* The poll keeps the invariant.                                           *)
(***************************************************************************)

\* The server as a poll finds it.
Polled == [coord EXCEPT !.poll = FALSE]

\* A poll starts from the invariant, and takes sessions only from jobs without runners.
LEMMA PolledIsGood ==
  ASSUME Core
  PROVE  /\ Good(Polled, gone) /\ Polled \in CoordType /\ coord \in CoordType
         /\ Polled.jobs = coord.jobs /\ Polled.job = coord.job
         /\ Polled.queue = coord.queue /\ Polled.free = coord.free /\ Same(Polled, coord)
         /\ Reclaimable \in SUBSET Polled.jobs
         /\ \A j \in Reclaimable : Polled.job[j].session # None /\ ~Polled.job[j].worker
         /\ \A code : InState(code) \in SUBSET Reclaimable
<1>1. Good(coord, gone) /\ coord \in CoordType
  BY DEF Core, Good
<1>2. /\ Polled \in CoordType /\ Polled.jobs = coord.jobs /\ Polled.job = coord.job
      /\ Polled.queue = coord.queue /\ Polled.free = coord.free /\ Same(Polled, coord)
      /\ Polled.asks = coord.asks /\ Polled.reply = coord.reply
  BY <1>1 DEF Polled, CoordType, Same
<1>3. Good(Polled, gone)
  BY <1>1, <1>2, GoodDepends DEF Same
<1>4. /\ Reclaimable \in SUBSET coord.jobs
      /\ \A j \in Reclaimable : coord.job[j].session # None /\ ~coord.job[j].worker
      /\ \A code : InState(code) \in SUBSET Reclaimable
  BY DEF Reclaimable, InState
<1> QED
  BY <1>1, <1>2, <1>3, <1>4

\* The poll of a healthy database.
LEMMA PollOpenStep ==
  ASSUME Core, PollOpen(Polled), UNCHANGED <<gone, runner, slot, holder>>
  PROVE  Core'
<1> DEFINE S == InState("idle")
           r == Remove(Polled, S)
<1>1. coord.mode = "open" /\ native' = native
  BY DEF PollOpen
<1>2. PICK d \in Dispatched(r) : coord' = Schedule(d)
  BY DEF PollOpen
<1>3. /\ Good(Polled, gone) /\ S \in SUBSET Polled.jobs
      /\ \A j \in S : Polled.job[j].session # None /\ ~Polled.job[j].worker
      /\ Polled.job = coord.job /\ Polled.jobs = coord.jobs /\ Polled.queue = coord.queue
      /\ Same(Polled, coord) /\ coord \in CoordType
  BY PolledIsGood
<1> HIDE DEF S
<1>4. /\ Good(r, gone) /\ Same(r, Polled) /\ Keeps(r, Polled)
      /\ Len(r.queue) <= Len(Polled.queue)
  BY <1>3, RemoveKeeps
<1> HIDE DEF r
<1>5. /\ Good(d, gone) /\ Same(d, r) /\ Keeps(d, r)
      /\ FreeSessions(d) # {} => d.queue = <<>>
      /\ Len(d.queue) <= Len(r.queue)
  BY <1>2, <1>4, DispatchKeeps
<1>6. /\ Good(coord', gone) /\ Same(coord', d) /\ coord'.jobs = d.jobs /\ coord'.job = d.job
      /\ coord'.queue = d.queue /\ coord'.free = d.free
  BY <1>2, <1>5, ScheduleKeeps
<1>7. QueueInv(coord')
  <2>1. /\ coord.queue \in Seq(Jobs) /\ Len(coord.queue) \in Nat
        /\ r.queue \in Seq(Jobs) /\ Len(r.queue) \in Nat
        /\ d.queue \in Seq(Jobs) /\ Len(d.queue) \in Nat
    BY <1>3, <1>4, <1>5, CoordHasFields, LenProperties DEF Good
  <2>2. Len(coord.queue) <= Capacity
    BY DEF Core, QueueInv
  <2>3. Len(coord'.queue) <= Capacity
    BY <1>3, <1>4, <1>5, <1>6, <2>1, <2>2, CapacityAssumption
  <2>4. FreeSessions(coord') = FreeSessions(d)
    BY <1>6 DEF FreeSessions
  <2> QED
    BY <1>5, <1>6, <2>3, <2>4 DEF QueueInv
<1>8. Keeps(coord', coord)
  BY <1>3, <1>4, <1>5, <1>6 DEF Keeps
<1>9. RunInv'
  BY <1>8, RunsKept DEF Core
<1>10. NativeInv'
  BY <1>1, <1>3, <1>4, <1>5, <1>6, NativeKept DEF Core, Same
<1>11. Good(coord', gone')
  BY <1>6
<1> QED
  BY <1>7, <1>9, <1>10, <1>11 DEF Core

\* The poll that finds a session broken: the database begins to close.
LEMMA PollBrokenStep ==
  ASSUME Core, PollBroken(Polled), native' = "retiring", UNCHANGED <<gone, runner, slot, holder>>
  PROVE  Core'
<1>1. coord.mode = "open"
  BY DEF PollBroken
<1>2. PICK f \in InState("retired") :
        \E before \in SUBSET (Reclaimable \ InState("retired")) :
          LET kept      == Remove(Polled, before \cap InState("idle"))
              cancelled == [Cancel(kept, kept.jobs, "end") EXCEPT !.mode = "closing"]
          IN coord' = Schedule(Remove(cancelled, Reclaimable \ (before \cup {f})))
  BY DEF PollBroken
<1>3. PICK before \in SUBSET (Reclaimable \ InState("retired")) :
          LET kept      == Remove(Polled, before \cap InState("idle"))
              cancelled == [Cancel(kept, kept.jobs, "end") EXCEPT !.mode = "closing"]
          IN coord' = Schedule(Remove(cancelled, Reclaimable \ (before \cup {f})))
  BY <1>2
<1> DEFINE S    == before \cap InState("idle")
           kept == Remove(Polled, S)
           x    == Cancel(kept, kept.jobs, "end")
           y    == [x EXCEPT !.mode = "closing"]
           T    == Reclaimable \ (before \cup {f})
           z    == Remove(y, T)
<1>4. coord' = Schedule(z)
  BY <1>3
<1>5. /\ Good(Polled, gone) /\ S \in SUBSET Polled.jobs
      /\ \A j \in S : Polled.job[j].session # None /\ ~Polled.job[j].worker
      /\ Polled.job = coord.job /\ Polled.jobs = coord.jobs /\ Polled.queue = coord.queue
      /\ Same(Polled, coord) /\ coord \in CoordType
      /\ T \in SUBSET Polled.jobs /\ T \cap S = {}
      /\ \A j \in T : Polled.job[j].session # None /\ ~Polled.job[j].worker
  BY PolledIsGood
<1> HIDE DEF S, T
<1>6. /\ Good(kept, gone) /\ Same(kept, Polled) /\ Keeps(kept, Polled)
      /\ kept.jobs = Polled.jobs \ S /\ Len(kept.queue) <= Len(Polled.queue)
      /\ \A j \in Polled.jobs \ S : kept.job[j] = Polled.job[j]
  BY <1>5, RemoveKeeps
<1> HIDE DEF kept
<1>7. /\ Good(x, gone) /\ Same(x, kept) /\ Keeps(x, kept)
      /\ x.jobs = kept.jobs \ Leaving(kept, kept.jobs) /\ Len(x.queue) <= Len(kept.queue)
      /\ \A j \in x.jobs : /\ x.job[j].session = kept.job[j].session
                           /\ x.job[j].worker = kept.job[j].worker
  BY <1>6, CancelKeeps
<1> HIDE DEF x
<1>8. x \in CoordType
  BY <1>7 DEF Good
<1>9. /\ y \in CoordType /\ y.jobs = x.jobs /\ y.job = x.job /\ y.queue = x.queue
      /\ y.free = x.free /\ y.streams = x.streams /\ y.asks = x.asks /\ y.reply = x.reply
      /\ y.mode = "closing" /\ y.closing = x.closing
  BY <1>8 DEF CoordType
<1> HIDE DEF y
<1>10. Good(y, gone)
  BY <1>7, <1>9, GoodDepends
<1>11. T \in SUBSET y.jobs /\ \A j \in T : y.job[j].session # None /\ ~y.job[j].worker
  <2> SUFFICES ASSUME NEW j \in T
               PROVE  j \in y.jobs /\ y.job[j].session # None /\ ~y.job[j].worker
    OBVIOUS
  <2>1. j \in kept.jobs /\ kept.job[j] = Polled.job[j]
    BY <1>5, <1>6
  <2>2. kept.job[j].session # None /\ ~kept.job[j].worker
    BY <1>5, <2>1
  <2>3. j \in x.jobs
    BY <1>7, <2>1, <2>2 DEF Leaving
  <2> QED
    BY <1>7, <1>9, <2>2, <2>3
<1>12. /\ Good(z, gone) /\ Same(z, y) /\ Keeps(z, y) /\ Len(z.queue) <= Len(y.queue)
  BY <1>10, <1>11, RemoveKeeps
<1> HIDE DEF z
<1>13. /\ Good(coord', gone) /\ Same(coord', z) /\ coord'.jobs = z.jobs /\ coord'.job = z.job
       /\ coord'.queue = z.queue /\ coord'.free = z.free
  BY <1>4, <1>12, ScheduleKeeps
<1>14. coord'.mode = "closing" /\ coord'.closing = coord.closing
  BY <1>5, <1>6, <1>7, <1>9, <1>12, <1>13 DEF Same
<1>15. QueueInv(coord')
  <2>1. /\ coord.queue \in Seq(Jobs) /\ Len(coord.queue) \in Nat
        /\ kept.queue \in Seq(Jobs) /\ Len(kept.queue) \in Nat
        /\ x.queue \in Seq(Jobs) /\ Len(x.queue) \in Nat
        /\ z.queue \in Seq(Jobs) /\ Len(z.queue) \in Nat /\ coord' \in CoordType
    BY <1>5, <1>6, <1>8, <1>12, <1>13, CoordHasFields, LenProperties DEF Good
  <2>2. Len(coord'.queue) <= Len(coord.queue)
    BY <1>5, <1>6, <1>7, <1>9, <1>12, <1>13, <2>1
  <2> QED
    BY <1>5, <1>14, <2>1, <2>2, QueueKept DEF Core
<1>16. Keeps(y, x)
  BY <1>9 DEF Keeps
<1>17. Keeps(kept, coord)
  BY <1>5, <1>6 DEF Keeps
<1>18. Keeps(y, coord)
  BY <1>7, <1>16, <1>17 DEF Keeps
<1>19. Keeps(coord', coord)
  BY <1>12, <1>13, <1>18 DEF Keeps
<1>20. RunInv'
  BY <1>19, RunsKept DEF Core
<1>21. NativeInv'
  BY <1>1, <1>14 DEF NativeInv, Core
<1>22. Good(coord', gone')
  BY <1>13
<1> QED
  BY <1>15, <1>20, <1>21, <1>22 DEF Core

\* The poll of a database that is closing: it may have closed.
LEMMA PollClosingStep ==
  ASSUME Core, PollClosing(Polled), UNCHANGED <<gone, runner, slot, holder>>
  PROVE  Core'
<1> DEFINE S    == InState("idle") \cup InState("retired")
           kept == Remove(Polled, S)
           closing == [x \in Closers |-> IF x = kept.closer THEN "ok" ELSE kept.closing[x]]
           w    == [kept EXCEPT !.mode = "closed", !.closer = None, !.closing = closing]
           done == kept.mode = "closing" /\ native = "closed" /\ kept.jobs = {}
<1>1. coord.mode # "open" /\ native' = native /\ coord' = IF done THEN w ELSE Schedule(kept)
  BY DEF PollClosing
<1>2. /\ Good(Polled, gone) /\ S \in SUBSET Polled.jobs
      /\ \A j \in S : Polled.job[j].session # None /\ ~Polled.job[j].worker
      /\ Polled.job = coord.job /\ Polled.jobs = coord.jobs /\ Polled.queue = coord.queue
      /\ Same(Polled, coord) /\ coord \in CoordType
  BY PolledIsGood
<1> HIDE DEF S
<1>3. /\ Good(kept, gone) /\ Same(kept, Polled) /\ Keeps(kept, Polled)
      /\ kept.jobs = Polled.jobs \ S /\ Len(kept.queue) <= Len(Polled.queue)
  BY <1>2, RemoveKeeps
<1> HIDE DEF kept
<1>4. kept \in CoordType
  BY <1>3 DEF Good
<1>5. ASSUME NEW r, Good(r, gone), coord' = r, r.queue = kept.queue, r.job = kept.job,
             r.jobs = kept.jobs, r.mode # "open"
      PROVE  QueueInv(coord') /\ RunInv' /\ Good(coord', gone')
  <2>1. /\ coord.queue \in Seq(Jobs) /\ Len(coord.queue) \in Nat /\ r \in CoordType
    BY <1>2, <1>5, CoordHasFields, LenProperties DEF Good
  <2>2. QueueInv(r)
    BY <1>2, <1>3, <1>5, <2>1, QueueKept DEF Core
  <2>3. Keeps(coord', coord)
    BY <1>2, <1>3, <1>5 DEF Keeps
  <2>4. RunInv'
    BY <2>3, RunsKept DEF Core
  <2> QED
    BY <1>5, <2>2, <2>4
<1>6. CASE ~done
  <2>1. /\ Good(coord', gone) /\ Same(coord', kept) /\ coord'.jobs = kept.jobs
        /\ coord'.job = kept.job /\ coord'.queue = kept.queue
    BY <1>1, <1>3, <1>6, ScheduleKeeps
  <2>2. coord'.mode = coord.mode /\ coord'.closing = coord.closing
    BY <1>2, <1>3, <2>1 DEF Same
  <2>3. QueueInv(coord') /\ RunInv' /\ Good(coord', gone')
    BY <1>1, <1>5, <2>1, <2>2
  <2>4. coord'.jobs \subseteq coord.jobs
    BY <1>2, <1>3, <2>1
  <2>5. NativeInv'
    BY <1>1, <2>2, <2>4, NativeKept DEF Core
  <2> QED
    BY <2>3, <2>5 DEF Core
<1>7. CASE done
  <2>1. /\ closing \in [Closers -> {"none", "waiting", "ok", "timeout", "busy"}]
    BY <1>4, CoordHasFields
  <2> HIDE DEF closing
  <2>2. /\ w \in CoordType /\ w.jobs = kept.jobs /\ w.job = kept.job /\ w.queue = kept.queue
        /\ w.free = kept.free /\ w.streams = kept.streams /\ w.asks = kept.asks
        /\ w.reply = kept.reply /\ w.mode = "closed"
    BY <1>4, <2>1 DEF CoordType
  <2>3. coord' = w
    BY <1>1, <1>7
  <2> HIDE DEF w
  <2>4. Good(w, gone)
    BY <1>3, <2>2, GoodDepends
  <2>5. QueueInv(coord') /\ RunInv' /\ Good(coord', gone')
    BY <1>5, <2>2, <2>3, <2>4
  <2>6. NativeInv'
    BY <1>1, <1>7, <2>2, <2>3 DEF NativeInv, Core
  <2> QED
    BY <2>5, <2>6 DEF Core
<1> QED
  BY <1>6, <1>7

-----------------------------------------------------------------------------
(***************************************************************************)
(* The clock, the callers, the runners and the native sessions.            *)
(***************************************************************************)

\* The clock and the death of a caller.
LEMMA ClockStep ==
  ASSUME Core, NEW j \in Jobs, Deadline(j) \/ CallerDies(j)
  PROVE  Core'
<1>1. /\ coord' = coord /\ gone \subseteq gone'
      /\ UNCHANGED <<runner, slot, holder, native>>
  BY DEF Deadline, CallerDies, procVars, nativeVars
<1>2. Good(coord', gone')
  BY <1>1 DEF Core, Good, RepliesInv
<1>3. QueueInv(coord') /\ RunInv' /\ NativeInv'
  BY <1>1 DEF Core, RunInv, NativeInv
<1> QED
  BY <1>2, <1>3 DEF Core

\* A runner works, from its start to its end.
LEMMA RunnerStepKeeps ==
  ASSUME OthersTypeOK, Core, NEW j \in Jobs,
         RunnerStarts(j) \/ RunnerReserves(j) \/ RunnerRefused(j) \/ RunnerReturns(j)
  PROVE  Core'
<1>1. coord' = coord /\ gone' = gone /\ native' = native
  BY DEF RunnerStarts, RunnerReserves, RunnerRefused, RunnerReturns, nativeVars
<1>2. Good(coord', gone') /\ QueueInv(coord')
  BY <1>1 DEF Core
<1>3. RunInv'
  <2>1. CASE RunnerStarts(j)
    BY <1>1, <2>1 DEF RunnerStarts, RunnerStep, RunInv, Core, OthersTypeOK
  <2>2. CASE RunnerReserves(j)
    BY <1>1, <2>2 DEF RunnerReserves, RunnerStep, RunInv, Core, OthersTypeOK
  <2>3. CASE RunnerRefused(j)
    BY <1>1, <2>3 DEF RunnerRefused, RunnerStep, RunInv, Core, OthersTypeOK
  <2>4. CASE RunnerReturns(j)
    BY <1>1, <2>4 DEF RunnerReturns, RunnerStep, RunInv, Core, OthersTypeOK
  <2> QED
    BY <2>1, <2>2, <2>3, <2>4
<1>4. NativeInv'
  <2>1. CASE RunnerReserves(j)
    <3>1. native = "ready"
      BY <2>1 DEF RunnerReserves, NativeState
    <3> QED
      BY <1>1, <3>1 DEF NativeInv, Core
  <2>2. CASE holder' = holder
    BY <1>1, <2>2, NativeKept DEF Core
  <2> QED
    BY <2>1, <2>2 DEF RunnerStarts, RunnerRefused, RunnerReturns, nativeVars
<1> QED
  BY <1>2, <1>3, <1>4 DEF Core

\* A runner exits or is killed.
LEMMA RunnerEnds ==
  ASSUME OthersTypeOK, Core, NEW j \in Jobs, RunnerExits(j) \/ RunnerDies(j)
  PROVE  Core'
<1>1. /\ coord' = [coord EXCEPT !.kills = @ \ {j}] /\ runner' = [runner EXCEPT ![j] = "dead"]
      /\ UNCHANGED <<gone, slot, holder, native>>
  BY DEF RunnerExits, RunnerDies, RunnerStep, nativeVars
<1>2. Good(coord, gone) /\ coord \in CoordType
  BY DEF Core, Good
<1>3. /\ coord' \in CoordType /\ coord'.jobs = coord.jobs /\ coord'.job = coord.job
      /\ coord'.queue = coord.queue /\ coord'.free = coord.free /\ coord'.mode = coord.mode
      /\ coord'.streams = coord.streams /\ coord'.asks = coord.asks
      /\ coord'.reply = coord.reply /\ coord'.closing = coord.closing
  BY <1>1, <1>2 DEF CoordType
<1>4. Good(coord', gone')
  BY <1>1, <1>2, <1>3, GoodDepends
<1>5. QueueInv(coord')
  BY <1>3 DEF QueueInv, FreeSessions, Core
<1>6. RunInv'
  BY <1>1, <1>3 DEF RunInv, Core, OthersTypeOK
<1>7. NativeInv'
  BY <1>1, <1>3, NativeKept DEF Core
<1> QED
  BY <1>4, <1>5, <1>6, <1>7 DEF Core

\* The native sessions.
LEMMA NativeStep ==
  ASSUME OthersTypeOK, Core,
         \/ \E j \in Jobs : ZombieReserves(j)
         \/ \E s \in Sessions : NativeReleases(s) \/ NativeBreaks(s)
         \/ NativeCloses
  PROVE  Core'
<1>1. coord' = coord /\ gone' = gone /\ runner' = runner /\ slot' = slot
  BY DEF ZombieReserves, NativeReleases, NativeBreaks, NativeCloses, procVars
<1>2. Good(coord', gone') /\ QueueInv(coord') /\ RunInv'
  BY <1>1 DEF Core, RunInv
<1>3. NativeInv'
  <2>1. CASE \E j \in Jobs : ZombieReserves(j)
    <3>1. PICK j \in Jobs : ZombieReserves(j)
      BY <2>1
    <3>2. native' = native /\ (native = "ready" \/ holder' = holder)
      BY <3>1 DEF ZombieReserves, NativeState
    <3> QED
      BY <1>1, <3>2 DEF NativeInv, Core
  <2>2. CASE \E s \in Sessions : NativeReleases(s) \/ NativeBreaks(s)
    <3>1. native' = native /\ \A s \in Sessions : holder'[s] = holder[s] \/ holder'[s] = None
      BY <2>2 DEF NativeReleases, NativeBreaks, OthersTypeOK
    <3> QED
      BY <1>1, <3>1 DEF NativeInv, Core
  <2>3. CASE NativeCloses
    BY <1>1, <2>3 DEF NativeCloses, NativeInv, Core
  <2> QED
    BY <2>1, <2>2, <2>3
<1> QED
  BY <1>2, <1>3 DEF Core

-----------------------------------------------------------------------------
(***************************************************************************)
(* The theorems.                                                           *)
(***************************************************************************)

\* The invariant holds at the start: no call, and every session is free.
LEMMA InitInvariant == Init => Invariant
<1> SUFFICES ASSUME Init PROVE Invariant
  OBVIOUS
<1>1. OthersTypeOK
  BY DEF Init, OthersTypeOK, Runners
<1>2. /\ coord.jobs = {} /\ coord.job = [j \in Jobs |-> NoJob] /\ coord.queue = <<>>
      /\ coord.free = [s \in Sessions |-> 1] /\ coord.mode = "open" /\ coord.streams = {}
      /\ coord.asks = [j \in Jobs |-> "none"] /\ coord.closing = [c \in Closers |-> "none"]
  BY DEF Init
<1>3. coord \in CoordType
  <2>1. [j \in Jobs |-> NoJob] \in [Jobs -> JobType]
    BY NoJobFields
  <2>2. <<>> \in Seq(Jobs)
    OBVIOUS
  <2> QED
    BY <2>1, <2>2 DEF Init, CoordType, Asks, Replies
<1>4. JobsInv(coord)
  BY <1>2, FS_EmptySet DEF JobsInv
<1>5. PlacesInv(coord)
  <2>1. \A s \in Sessions : Giving(coord, coord.jobs, s) = {}
    BY <1>2 DEF Giving
  <2>2. \A s \in Sessions : coord.free[s] = 1
    BY <1>2
  <2>3. \A s \in Sessions : coord.free[s] + Cardinality(Giving(coord, coord.jobs, s)) = 1
    BY <2>1, <2>2, FS_EmptySet
  <2>4. DOMAIN coord.queue = {}
    BY <1>2
  <2>5. Distinct(coord.queue) /\ InQueue(coord.queue) = {} /\ Waiting(coord) = {}
    BY <1>2, <2>4 DEF Distinct, InQueue, Waiting
  <2> QED
    BY <2>3, <2>5 DEF PlacesInv
<1>6. RepliesInv(coord, gone)
  BY <1>2, NoJobFields DEF RepliesInv
<1>7. QueueInv(coord)
  <2>1. Len(coord.queue) = 0
    BY <1>2, EmptySeq
  <2> QED
    BY <1>2, <2>1, CapacityAssumption DEF QueueInv
<1>8. RunInv
  BY DEF Init, RunInv
<1>9. NativeInv
  BY DEF Init, NativeInv
<1> QED
  BY <1>1, <1>3, <1>4, <1>5, <1>6, <1>7, <1>8, <1>9 DEF Invariant, Core, Good

\* Every step keeps the types of everything but the server state, which Good keeps.
LEMMA OthersTyped ==
  ASSUME Invariant, [Next]_vars
  PROVE  OthersTypeOK'
<1> USE DEF OthersTypeOK, procVars, nativeVars, Unchanged
<1>1. OthersTypeOK /\ coord.job \in [Jobs -> JobType]
  BY CoordHasFields DEF Invariant, Core, Good
<1>2. ASSUME NEW j \in Jobs, NEW kind \in Kinds, Admit(j, kind) PROVE OthersTypeOK'
  BY <1>1, <1>2 DEF Admit
<1>3. ASSUME NEW j \in Jobs,
             \/ StreamNext(j) \/ StreamRelease(j) \/ HandleFinished(j) \/ HandleExpire(j)
             \/ HandleCallerDown(j) \/ HandleRunnerDown(j) \/ Deadline(j) \/ TimerFires(j)
             \/ CallerDies(j)
      PROVE  OthersTypeOK'
  BY <1>1, <1>3 DEF StreamNext, StreamRelease, HandleFinished, HandleExpire, HandleCallerDown,
                    HandleRunnerDown, Deadline, TimerFires, CallerDies
<1>4. ASSUME NEW j \in Jobs, StreamReady(j) \/ StreamBatch(j) PROVE OthersTypeOK'
  BY <1>1, <1>4 DEF StreamReady, StreamBatch, Runners
<1>5. ASSUME NEW j \in Jobs, RunnerStarts(j) PROVE OthersTypeOK'
  <2>1. coord.job[j].session \in Sessions \cup {None}
    BY <1>1, JobFields
  <2> QED
    BY <1>1, <1>5, <2>1 DEF RunnerStarts, RunnerStep, Runners
<1>6. ASSUME NEW j \in Jobs,
             \/ RunnerReserves(j) \/ RunnerRefused(j) \/ RunnerReturns(j) \/ RunnerExits(j)
             \/ RunnerDies(j) \/ ZombieReserves(j)
      PROVE  OthersTypeOK'
  BY <1>1, <1>6 DEF RunnerReserves, RunnerRefused, RunnerReturns, RunnerExits, RunnerDies,
                    ZombieReserves, RunnerStep, Runners
<1>7. ASSUME NEW c \in Closers, Close(c) PROVE OthersTypeOK'
  BY <1>1, <1>7 DEF Close
<1>8. ASSUME Poll PROVE OthersTypeOK'
  BY <1>1, <1>8 DEF Poll, PollOpen, PollBroken, PollClosing
<1>9. ASSUME HandleCloseTimeout PROVE OthersTypeOK'
  BY <1>1, <1>9 DEF HandleCloseTimeout
<1>10. ASSUME NEW s \in Sessions, NativeReleases(s) \/ NativeBreaks(s) PROVE OthersTypeOK'
  BY <1>1, <1>10 DEF NativeReleases, NativeBreaks
<1>11. ASSUME NativeCloses PROVE OthersTypeOK'
  BY <1>1, <1>11 DEF NativeCloses
<1>12. ASSUME UNCHANGED vars PROVE OthersTypeOK'
  BY <1>1, <1>12 DEF vars
<1> QED
  BY <1>2, <1>3, <1>4, <1>5, <1>6, <1>7, <1>8, <1>9, <1>10, <1>11, <1>12 DEF Next

\* Every step keeps the invariant.
LEMMA NextInvariant == Invariant /\ [Next]_vars => Invariant'
<1> SUFFICES ASSUME Invariant, [Next]_vars PROVE Core'
  BY OthersTyped DEF Invariant
<1>1. OthersTypeOK /\ Core
  BY DEF Invariant
<1>2. ASSUME NEW j \in Jobs, NEW kind \in Kinds, Admit(j, kind) PROVE Core'
  BY <1>1, <1>2, AdmitStep
<1>3. ASSUME NEW j \in Jobs, StreamNext(j) PROVE Core'
  BY <1>1, <1>3, StreamNextStep
<1>4. ASSUME NEW j \in Jobs, StreamRelease(j) PROVE Core'
  BY <1>1, <1>4, StreamReleaseStep
<1>5. ASSUME NEW j \in Jobs, StreamReady(j) PROVE Core'
  BY <1>1, <1>5, StreamReadyStep
<1>6. ASSUME NEW j \in Jobs, StreamBatch(j) PROVE Core'
  BY <1>1, <1>6, StreamBatchStep
<1>7. ASSUME NEW j \in Jobs, HandleFinished(j) PROVE Core'
  BY <1>1, <1>7, HandleFinishedStep
<1>8. ASSUME NEW j \in Jobs, HandleExpire(j) PROVE Core'
  BY <1>1, <1>8, HandleExpireStep
<1>9. ASSUME NEW j \in Jobs, HandleCallerDown(j) PROVE Core'
  BY <1>1, <1>9, HandleCallerDownStep
<1>10. ASSUME NEW j \in Jobs, HandleRunnerDown(j) PROVE Core'
  BY <1>1, <1>10, HandleRunnerDownStep
<1>11. ASSUME NEW j \in Jobs, TimerFires(j) PROVE Core'
  BY <1>1, <1>11, TimerFiresStep
<1>12. ASSUME NEW j \in Jobs, Deadline(j) \/ CallerDies(j) PROVE Core'
  BY <1>1, <1>12, ClockStep
<1>13. ASSUME NEW j \in Jobs,
              RunnerStarts(j) \/ RunnerReserves(j) \/ RunnerRefused(j) \/ RunnerReturns(j)
       PROVE  Core'
  BY <1>1, <1>13, RunnerStepKeeps
<1>14. ASSUME NEW j \in Jobs, RunnerExits(j) \/ RunnerDies(j) PROVE Core'
  BY <1>1, <1>14, RunnerEnds
<1>15. ASSUME NEW c \in Closers, Close(c) PROVE Core'
  BY <1>1, <1>15, CloseStep
<1>16. ASSUME Poll PROVE Core'
  <2>1. UNCHANGED <<gone, runner, slot, holder>>
    BY <1>16 DEF Poll, procVars
  <2>2. PollOpen(Polled) \/ (PollBroken(Polled) /\ native' = "retiring") \/ PollClosing(Polled)
    BY <1>16 DEF Poll, Polled, PollBroken
  <2> QED
    BY <1>1, <2>1, <2>2, PollOpenStep, PollBrokenStep, PollClosingStep
<1>17. ASSUME HandleCloseTimeout PROVE Core'
  BY <1>1, <1>17, HandleCloseTimeoutStep
<1>18. ASSUME \/ \E j \in Jobs : ZombieReserves(j)
              \/ \E s \in Sessions : NativeReleases(s) \/ NativeBreaks(s)
              \/ NativeCloses
       PROVE  Core'
  BY <1>1, <1>18, NativeStep
<1>19. ASSUME UNCHANGED vars PROVE Core'
  BY <1>1, <1>19 DEF vars, procVars, nativeVars, Core, RunInv, NativeInv
<1> QED
  BY <1>2, <1>3, <1>4, <1>5, <1>6, <1>7, <1>8, <1>9, <1>10, <1>11, <1>12, <1>13, <1>14, <1>15,
     <1>16, <1>17, <1>18, <1>19 DEF Next

\* The invariant of the coordinator and its runners holds in every reachable state.
THEOREM InvariantHolds == Spec => []Invariant
<1>1. Init => Invariant
  BY InitInvariant
<1>2. Invariant /\ [Next]_vars => Invariant'
  BY NextInvariant
<1> QED
  BY <1>1, <1>2, PTL DEF Spec

\* Every variable keeps its type, the server state and what was sent included.
THEOREM TypesHold == Spec => []TypeOK
<1>1. Invariant => TypeOK
  BY DEF Invariant, Core, Good, OthersTypeOK, TypeOK
<1> QED
  BY <1>1, InvariantHolds, PTL

\* Two runners that can still act never share a session: both would have it from their jobs,
\* and a session is held by one job.
THEOREM OneRunnerHolds == Spec => []OneRunnerPerSession
<1>1. Invariant => OneRunnerPerSession
  <2> SUFFICES ASSUME Invariant, NEW i \in Jobs, NEW j \in Jobs, i # j, slot[i] # None,
                      slot[i] = slot[j], runner[i] # "dead", runner[j] # "dead"
               PROVE  FALSE
    BY DEF OneRunnerPerSession
  <2>1. /\ i \in coord.jobs /\ slot[i] = coord.job[i].session
        /\ j \in coord.jobs /\ slot[j] = coord.job[j].session
    BY DEF Invariant, Core, RunInv
  <2> DEFINE s == slot[i]
             A == Giving(coord, coord.jobs, s)
  <2>2. s \in Sessions /\ i \in A /\ j \in A
    BY <2>1 DEF Invariant, OthersTypeOK, Giving
  <2>3. IsFiniteSet(A) /\ Cardinality(A) \in Nat
    <3>1. A \in SUBSET coord.jobs
      BY DEF Giving
    <3> QED
      BY <3>1, FS_Subset, FS_CardinalityType DEF Invariant, Core, Good, JobsInv
  <2>4. coord.free[s] \in Nat /\ coord.free[s] + Cardinality(A) = 1
    BY <2>2, CoordHasFields DEF Invariant, Core, Good, PlacesInv
  <2> HIDE DEF A
  <2>5. {i, j} \in SUBSET A
    BY <2>2
  <2>6. Cardinality({i, j}) = 2
    <3>1. IsFiniteSet({i}) /\ Cardinality({i}) = 1
      BY FS_Singleton
    <3>2. {i, j} = {i} \cup {j} /\ j \notin {i}
      OBVIOUS
    <3>3. Cardinality({i} \cup {j}) =
            IF j \in {i} THEN Cardinality({i}) ELSE Cardinality({i}) + 1
      BY <3>1, FS_AddElement
    <3>4. Cardinality({i} \cup {j}) = 1 + 1
      BY <3>1, <3>2, <3>3
    <3> QED
      BY <3>2, <3>4
  <2>7. Cardinality({i, j}) <= Cardinality(A)
    BY <2>3, <2>5, FS_Subset
  <2> QED
    BY <2>3, <2>4, <2>6, <2>7
<1> QED
  BY <1>1, InvariantHolds, PTL

\* Every job has its place: on a session that only it holds, or once in the queue, which never
\* exceeds its capacity and is empty while a session is free and the database is open.
THEOREM PlacesHold == Spec => []JobsArePlaced
<1>1. Invariant => JobsArePlaced
  <2> SUFFICES ASSUME Invariant PROVE JobsArePlaced
    OBVIOUS
  <2>1. /\ coord \in CoordType /\ PlacesInv(coord) /\ QueueInv(coord)
        /\ coord.queue \in Seq(Jobs)
    BY CoordHasFields DEF Invariant, Core, Good
  <2>2. SlotsAccounted
    BY <2>1 DEF SlotsAccounted, PlacesInv, Giving, AssignedTo
  <2>3. Cardinality(InQueue(coord.queue)) = Len(coord.queue)
    BY <2>1, DistinctLength DEF PlacesInv
  <2>4. InQueue(coord.queue) = Waiting(coord)
    BY <2>1 DEF PlacesInv
  <2>5. QueueAccounted
    BY <2>1, <2>3, <2>4 DEF QueueAccounted, QueueInv, InQueue, Waiting
  <2> QED
    BY <2>2, <2>5 DEF JobsArePlaced
<1> QED
  BY <1>1, InvariantHolds, PTL

\* A live caller waits if and only if the server still owes it a reply.
THEOREM RepliesHold == Spec => []ReplyOwed
<1>1. Invariant => ReplyOwed
  BY DEF Invariant, Core, Good, RepliesInv, ReplyOwed
<1> QED
  BY <1>1, InvariantHolds, PTL

\* close answers :ok only when no job is left and the native database has closed.
THEOREM ClosedHolds == Spec => []ClosedIsDrained
<1>1. Invariant => ClosedIsDrained
  BY DEF Invariant, Core, NativeInv, ClosedIsDrained
<1> QED
  BY <1>1, InvariantHolds, PTL

-----------------------------------------------------------------------------
(***************************************************************************)
(* First come, first served.  All handlers but two are calm: nobody enters *)
(* the queue or gets a session, and who stays in the queue keeps his place *)
(* in the order.  An admission and the poll of a healthy database end in   *)
(* dispatch/1, which serves the front of the queue.                        *)
(***************************************************************************)
Calm(r, c) ==
  /\ \A a, b : Ahead(r.queue, a, b) => Ahead(c.queue, a, b)
  /\ \A a, b \in InQueue(r.queue) : Ahead(c.queue, a, b) => Ahead(r.queue, a, b)
  /\ InQueue(r.queue) \subseteq InQueue(c.queue)
  /\ \A j \in Jobs : r.job[j].session # None => c.job[j].session # None

\* What StartInOrder says of a server state c and the next one.
InOrder(r, c) ==
  \A a \in InQueue(r.queue), b \in Jobs :
    /\ Ahead(r.queue, b, a) /\ a \in InQueue(c.queue) => Ahead(c.queue, b, a)
    /\ r.job[b].session # None => ~Ahead(c.queue, a, b)

\* Who is ahead of somebody is in the queue, and so is the other.
LEMMA AheadIsQueued ==
  ASSUME NEW q, NEW a, NEW b, Ahead(q, a, b)
  PROVE  a \in InQueue(q) /\ b \in InQueue(q)
BY DEF Ahead, InQueue

LEMMA CalmTransitive ==
  ASSUME NEW r, NEW c, NEW d, Calm(r, c), Calm(c, d)
  PROVE  Calm(r, d)
BY DEF Calm

\* The queue and the sessions are as before.
LEMMA CalmIfSame ==
  ASSUME NEW r, NEW c, r.queue = c.queue,
         \A j \in Jobs : r.job[j].session = c.job[j].session
  PROVE  Calm(r, c)
BY DEF Calm

\* A job with a session is not in the queue, so nobody is ahead of it.
LEMMA CalmInOrder ==
  ASSUME NEW G, NEW c, Good(c, G), NEW r, Calm(r, c)
  PROVE  InOrder(r, c)
<1> SUFFICES ASSUME NEW a \in InQueue(r.queue), NEW b \in Jobs,
                    r.job[b].session # None, Ahead(c.queue, a, b)
             PROVE  FALSE
  BY DEF InOrder, Calm
<1>1. b \in Waiting(c)
  BY AheadIsQueued DEF Good, PlacesInv
<1> QED
  BY <1>1 DEF Calm, Waiting

\* remove/3 is calm.
LEMMA RemoveIsCalm ==
  ASSUME NEW c \in CoordType, NEW S \in SUBSET Jobs, IsFiniteSet(S)
  PROVE  Calm(Remove(c, S), c)
<1> DEFINE r == Remove(c, S)
<1>1. /\ r.queue = Without(c.queue, S) /\ c.queue \in Seq(Jobs)
      /\ \A j \in Jobs : r.job[j] = IF j \in S THEN NoJob ELSE c.job[j]
  BY RemoveEffect, CoordHasFields
<1> HIDE DEF r
<1>2. /\ InQueue(r.queue) = InQueue(c.queue) \ S
      /\ \A a, b : Ahead(r.queue, a, b) <=> a \notin S /\ b \notin S /\ Ahead(c.queue, a, b)
  BY <1>1, WithoutProperties
<1>3. \A j \in Jobs : r.job[j].session # None => c.job[j].session # None
  BY <1>1, NoJobFields
<1> QED
  BY <1>2, <1>3 DEF Calm, r

\* cancel/3 is calm.
LEMMA CancelIsCalm ==
  ASSUME NEW c \in CoordType, IsFiniteSet(c.jobs), NEW S, NEW response \in {"silent", "end"}
  PROVE  Calm(Cancel(c, S, response), c)
<1> DEFINE r   == Cancel(c, S, response)
           out == Leaving(c, S)
<1>1. /\ r.queue = Without(c.queue, out) /\ c.queue \in Seq(Jobs)
      /\ \A j \in out : r.job[j] = NoJob
      /\ \A j \in Cancelled(c, S) \ out : r.job[j].session = c.job[j].session
      /\ \A j \in Jobs \ Cancelled(c, S) : r.job[j] = c.job[j]
  BY CancelEffect, CoordHasFields
<1> HIDE DEF r, out
<1>2. /\ InQueue(r.queue) = InQueue(c.queue) \ out
      /\ \A a, b : Ahead(r.queue, a, b) <=> a \notin out /\ b \notin out /\ Ahead(c.queue, a, b)
  BY <1>1, WithoutProperties
<1>3. \A j \in Jobs : r.job[j].session # None => c.job[j].session # None
  BY <1>1, NoJobFields
<1> QED
  BY <1>2, <1>3 DEF Calm, r

\* schedule/1 is calm.
LEMMA ScheduleIsCalm ==
  ASSUME NEW c \in CoordType
  PROVE  Calm(Schedule(c), c)
BY ScheduleEffect, CalmIfSame

\* A job is cancelled and the poll is scheduled.
LEMMA CancelStepIsCalm ==
  ASSUME NEW c \in CoordType, IsFiniteSet(c.jobs), NEW S, NEW response \in {"silent", "end"}
  PROVE  Calm(Schedule(Cancel(c, S, response)), c)
<1> DEFINE r == Cancel(c, S, response)
<1>1. r \in CoordType
  BY CancelEffect
<1>2. Calm(r, c)
  BY CancelIsCalm
<1> HIDE DEF r
<1>3. Calm(Schedule(r), r)
  BY <1>1, ScheduleIsCalm
<1>4. Calm(Schedule(r), c)
  BY <1>2, <1>3, CalmTransitive
<1> QED
  BY <1>4 DEF r

\* dispatch/1 serves the front of the queue and leaves the rest of it in its order.
LEMMA DispatchInOrder ==
  ASSUME NEW G, NEW c, Good(c, G), NEW r \in Dispatched(c)
  PROVE  InOrder(r, c) /\ InQueue(r.queue) \subseteq InQueue(c.queue)
<1> DEFINE k    == CHOOSE n \in 0..Len(c.queue) : DispatchEnd(c, n)
           S    == Starting(c, k)
           p    == Popped(c, k)
           rest == Rest(c, k)
           Ats  == {f \in [S -> FreeSessions(c)] : \A i, j \in S : f[i] = f[j] => i = j}
<1>1. /\ c \in CoordType /\ Distinct(c.queue) /\ IsFiniteSet(c.jobs)
      /\ InQueue(c.queue) = Waiting(c) /\ c.queue \in Seq(Jobs)
      /\ DOMAIN c.queue = 1..Len(c.queue) /\ Len(c.queue) \in Nat
  BY CoordHasFields, LenProperties DEF Good, PlacesInv, JobsInv
<1>2. k \in 0..Len(c.queue) /\ k \in Nat
  BY <1>1, DispatchEnds
<1>3. r \in IF S = {} THEN {rest} ELSE {Schedule(Started(rest, S, at)) : at \in Ats}
  BY DEF Dispatched, Starting, Front, Popped, Rest, Started
<1> HIDE DEF k
<1>4. /\ p \in CoordType /\ p.jobs = c.jobs /\ p.job = c.job
      /\ InQueue(p.queue) = InQueue(c.queue) \ Front(c, k)
      /\ \A a, b : Ahead(p.queue, a, b) => Ahead(c.queue, a, b)
  BY <1>1, <1>2, PoppedQueue
<1>5. rest = Cancel(p, Front(c, k) \ S, "end")
  BY DEF Rest
<1> HIDE DEF p
<1>6. Calm(rest, p) /\ rest \in CoordType
  <2> DEFINE D == Front(c, k) \ S
  <2> HIDE DEF D
  <2>1. IsFiniteSet(p.jobs) /\ rest = Cancel(p, D, "end")
    BY <1>1, <1>4, <1>5 DEF D
  <2> HIDE DEF rest
  <2> QED
    BY <1>4, <2>1, CancelEffect, CancelIsCalm
<1>7. S \subseteq Front(c, k) /\ S \subseteq Jobs
  <2>1. S \subseteq Front(c, k)
    BY DEF Starting, Front, InTime
  <2>2. \A i \in 1..k : c.queue[i] \in Jobs
    BY <1>1, <1>2, ElementOfSeq
  <2> QED
    BY <2>1, <2>2 DEF Front
<1> HIDE DEF rest, S
<1>8. /\ r.queue = rest.queue
      /\ \A j \in Jobs \ S : r.job[j].session = rest.job[j].session
  <2>1. CASE S = {}
    BY <1>3, <2>1
  <2>2. CASE S # {}
    <3>1. PICK at \in Ats : r = Schedule(Started(rest, S, at))
      BY <1>3, <2>2
    <3> DEFINE b == Started(rest, S, at)
    <3>2. b.queue = rest.queue /\ \A j \in Jobs \ S : b.job[j] = rest.job[j]
      BY <1>6 DEF Started, CoordType
    <3>3. Schedule(b).queue = b.queue /\ Schedule(b).job = b.job
      BY <1>6 DEF Schedule, Started, CoordType
    <3> HIDE DEF b
    <3> QED
      BY <3>1, <3>2, <3>3 DEF b
  <2> QED
    BY <2>1, <2>2
<1>9. InQueue(r.queue) \subseteq InQueue(c.queue) \ Front(c, k)
  BY <1>4, <1>6, <1>8 DEF Calm
<1>10. ASSUME NEW a \in InQueue(r.queue), NEW b \in Jobs, r.job[b].session # None,
              Ahead(c.queue, a, b)
       PROVE  FALSE
  <2>1. b \in Waiting(c)
    BY <1>1, <1>10, AheadIsQueued
  <2>2. b \in S
    BY <1>4, <1>6, <1>8, <1>10, <2>1 DEF Calm, Waiting
  <2>3. PICK i \in DOMAIN c.queue, l \in DOMAIN c.queue :
          i < l /\ c.queue[i] = a /\ c.queue[l] = b
    BY <1>10 DEF Ahead
  <2>4. PICK m \in 1..k : c.queue[m] = b
    BY <1>7, <2>2 DEF Front
  <2>5. m = l
    BY <1>1, <1>2, <2>3, <2>4 DEF Distinct
  <2>6. i \in 1..k
    BY <1>1, <1>2, <2>3, <2>4, <2>5
  <2>7. a \in Front(c, k)
    BY <2>3, <2>6 DEF Front
  <2> QED
    BY <1>9, <2>7
<1>11. \A a, b : Ahead(r.queue, b, a) => Ahead(c.queue, b, a)
  BY <1>4, <1>6, <1>8 DEF Calm
<1> QED
  BY <1>9, <1>10, <1>11 DEF InOrder

\* dispatch/1 from a state c whose queue agrees with that of an earlier state d.
LEMMA DispatchLater ==
  ASSUME NEW G, NEW c, Good(c, G), NEW r \in Dispatched(c), NEW d,
         \A a, b : Ahead(c.queue, b, a) /\ a \in InQueue(d.queue) => Ahead(d.queue, b, a),
         \A a, b : Ahead(d.queue, a, b) /\ a \in InQueue(c.queue) => Ahead(c.queue, a, b)
  PROVE  InOrder(r, d)
<1>1. InOrder(r, c) /\ InQueue(r.queue) \subseteq InQueue(c.queue)
  BY DispatchInOrder
<1>2. \A a \in InQueue(r.queue) : a \in InQueue(c.queue)
  BY <1>1
<1>3. ASSUME NEW a \in InQueue(r.queue), NEW b \in Jobs
      PROVE  /\ Ahead(r.queue, b, a) /\ a \in InQueue(d.queue) => Ahead(d.queue, b, a)
             /\ r.job[b].session # None => ~Ahead(d.queue, a, b)
  BY <1>1, <1>2 DEF InOrder
<1> QED
  BY <1>3 DEF InOrder

\* A job is replaced by one with the same session.
LEMMA SetJobIsCalm ==
  ASSUME NEW c \in CoordType, NEW j \in Jobs, NEW job, job.session = c.job[j].session,
         NEW r, r.queue = c.queue, r.job = [c.job EXCEPT ![j] = job]
  PROVE  Calm(r, c)
<1>1. c.job \in [Jobs -> JobType]
  BY CoordHasFields
<1>2. \A i \in Jobs : r.job[i].session = c.job[i].session
  BY <1>1
<1> QED
  BY <1>2, CalmIfSame

\* The handlers of calls but for those of queries, transactions and new streams.
LEMMA CallsInOrder ==
  ASSUME Core, NEW j \in Jobs,
         StreamNext(j) \/ StreamRelease(j) \/ StreamReady(j) \/ StreamBatch(j)
  PROVE  Calm(coord', coord)
<1>1. /\ coord \in CoordType /\ IsFiniteSet(coord.jobs)
      /\ coord.job \in [Jobs -> JobType] /\ coord.job[j] \in JobType
  BY CoordHasFields DEF Core, Good, JobsInv
<1>2. ASSUME coord' = Schedule(Cancel(coord, {j}, "end")) PROVE Calm(coord', coord)
  BY <1>1, <1>2, CancelStepIsCalm
<1>3. ASSUME NEW c, coord' = [c EXCEPT !.reply[j] = "end"], c \in CoordType, Calm(c, coord)
      PROVE  Calm(coord', coord)
  <2>1. coord'.queue = c.queue /\ coord'.job = c.job
    BY <1>3 DEF CoordType
  <2>2. Calm(coord', c)
    BY <2>1, CalmIfSame
  <2> QED
    BY <1>3, <2>2, CalmTransitive
<1>4. Calm(coord, coord)
  BY CalmIfSame
<1>5. ASSUME StreamNext(j) PROVE Calm(coord', coord)
  <2> DEFINE asked == [coord EXCEPT !.asks[j] = "next", !.job[j].from = TRUE]
             job   == [coord.job[j] EXCEPT !.from = TRUE]
             asks  == [coord.asks EXCEPT ![j] = "next"]
             jobs  == [coord.job EXCEPT ![j] = job]
  <2>1. job \in JobType /\ job.session = coord.job[j].session
    BY <1>1, JobUpdates
  <2>2. asks \in [Jobs -> Asks]
    BY <1>1, CoordHasFields DEF Asks
  <2>3. asked = [coord EXCEPT !.asks = asks, !.job = jobs]
    BY <1>1 DEF CoordType
  <2> HIDE DEF job
  <2>4. jobs \in [Jobs -> JobType]
    BY <1>1, <2>1
  <2> HIDE DEF asked, asks
  <2>5. /\ asked \in CoordType /\ asked.queue = coord.queue /\ asked.jobs = coord.jobs
        /\ asked.job = jobs
    <3> HIDE DEF jobs
    <3> QED
      BY <1>1, <2>2, <2>3, <2>4 DEF CoordType
  <2>6. Calm(asked, coord)
    BY <1>1, <2>1, <2>5, SetJobIsCalm
  <2>7. \/ coord' = Schedule(Cancel(asked, {j}, "end")) \/ coord' = asked
        \/ coord' = [coord EXCEPT !.reply[j] = "end"]
    BY <1>5 DEF StreamNext, asked
  <2>8. CASE coord' = Schedule(Cancel(asked, {j}, "end"))
    <3>1. Calm(coord', asked)
      BY <1>1, <2>5, <2>8, CancelStepIsCalm
    <3> QED
      BY <2>6, <3>1, CalmTransitive
  <2> QED
    BY <1>1, <1>3, <1>4, <2>6, <2>7, <2>8
<1>6. ASSUME StreamRelease(j) PROVE Calm(coord', coord)
  <2> DEFINE left == [coord EXCEPT !.streams = @ \ {j}]
             r    == Cancel(left, {j}, "silent")
             w    == [r EXCEPT !.asks[j] = "release", !.job[j].release = TRUE,
                               !.job[j].timer = TRUE]
  <2>1. coord' = Schedule(w) \/ coord' = [left EXCEPT !.reply[j] = "end"]
    BY <1>6 DEF StreamRelease
  <2>2. left \in CoordType /\ left.jobs = coord.jobs /\ left.job = coord.job
        /\ left.queue = coord.queue
    BY <1>1 DEF CoordType
  <2> HIDE DEF left
  <2>3. Calm(left, coord)
    BY <2>2, CalmIfSame
  <2>4. r \in CoordType /\ Calm(r, left)
    <3> DEFINE S == {j}
               response == "silent"
    <3>1. response \in {"silent", "end"} /\ r = Cancel(left, S, response)
      OBVIOUS
    <3> HIDE DEF r, S, response
    <3> QED
      BY <1>1, <2>2, <3>1, CancelEffect, CancelIsCalm
  <2> HIDE DEF r
  <2> DEFINE b1   == [r.job[j] EXCEPT !.release = TRUE]
             b2   == [b1 EXCEPT !.timer = TRUE]
             asks == [r.asks EXCEPT ![j] = "release"]
             jobs == [r.job EXCEPT ![j] = b2]
  <2>5. w = [r EXCEPT !.asks = asks, !.job = jobs] /\ r.job[j] \in JobType
    <3>1. w = [r EXCEPT !.asks = asks, !.job = jobs]
      BY <2>4 DEF CoordType
    <3> QED
      BY <2>4, <3>1, CoordHasFields
  <2>6. b1 \in JobType /\ b1.session = r.job[j].session
    BY <2>5, JobUpdates
  <2> HIDE DEF b1
  <2>7. b2 \in JobType /\ b2.session = r.job[j].session
    BY <2>6, JobUpdates
  <2> HIDE DEF b2
  <2>8. asks \in [Jobs -> Asks] /\ jobs \in [Jobs -> JobType]
    BY <2>4, <2>7, CoordHasFields DEF Asks
  <2> HIDE DEF w, asks
  <2>9. w \in CoordType /\ w.queue = r.queue /\ w.job = jobs
    <3> HIDE DEF jobs
    <3> QED
      BY <2>4, <2>5, <2>8 DEF CoordType
  <2>10. Calm(w, r)
    BY <2>4, <2>7, <2>9, SetJobIsCalm
  <2>11. CASE coord' = Schedule(w)
    <3>1. Calm(coord', w)
      BY <2>9, <2>11, ScheduleIsCalm
    <3>2. Calm(coord', r)
      BY <2>10, <3>1, CalmTransitive
    <3>3. Calm(coord', left)
      BY <2>4, <3>2, CalmTransitive
    <3> QED
      BY <2>3, <3>3, CalmTransitive
  <2> QED
    BY <1>3, <2>1, <2>2, <2>3, <2>11
<1>7. ASSUME NEW code \in {"ok", "end"}, NEW streams,
             coord' = Reported(coord, j, code, streams)
      PROVE  Calm(coord', coord)
  <2> DEFINE a   == ReplyTo(coord, {j}, code)
             job == [coord.job[j] EXCEPT !.from = FALSE]
  <2>1. a \in CoordType /\ a.job = coord.job /\ a.queue = coord.queue
    BY <1>1, ReplyToEffect DEF Replies
  <2>2. job.session = coord.job[j].session
    BY <1>1, JobUpdates
  <2>3. coord' = [a EXCEPT !.job[j].from = FALSE, !.streams = streams]
    BY <1>7 DEF Reported
  <2> HIDE DEF a
  <2>4. coord'.queue = a.queue /\ coord'.job = [coord.job EXCEPT ![j] = job]
    BY <2>1, <2>3 DEF CoordType
  <2> HIDE DEF job
  <2> QED
    BY <1>1, <2>1, <2>2, <2>4, SetJobIsCalm
<1>8. ASSUME StreamReady(j) PROVE Calm(coord', coord)
  <2> DEFINE a == ReplyTo(coord, {j}, "ok")
  <2>1. \/ coord' = Schedule(Cancel(coord, {j}, "end"))
        \/ coord' = [a EXCEPT !.job[j].from = FALSE, !.streams = @ \cup {j}]
    BY <1>8 DEF StreamReady
  <2>2. CASE coord' = [a EXCEPT !.job[j].from = FALSE, !.streams = @ \cup {j}]
    <3>1. a \in CoordType
      BY <1>1, ReplyToEffect DEF Replies
    <3> HIDE DEF a
    <3>2. coord' = [a EXCEPT !.job[j].from = FALSE, !.streams = a.streams \cup {j}]
      BY <2>2, <3>1 DEF CoordType
    <3> QED
      BY <1>7, <3>2 DEF Reported, a
  <2> QED
    BY <1>2, <2>1, <2>2
<1>9. ASSUME StreamBatch(j) PROVE Calm(coord', coord)
  <2>1. \/ coord' = Schedule(Cancel(coord, {j}, "end"))
        \/ \E code \in {"ok", "end"} :
             coord' = [ReplyTo(coord, {j}, code) EXCEPT !.job[j].from = FALSE]
    BY <1>9 DEF StreamBatch
  <2>2. ASSUME NEW code \in {"ok", "end"},
               coord' = [ReplyTo(coord, {j}, code) EXCEPT !.job[j].from = FALSE]
        PROVE  Calm(coord', coord)
    <3> DEFINE a == ReplyTo(coord, {j}, code)
    <3>1. a \in CoordType
      BY <1>1, ReplyToEffect DEF Replies
    <3> HIDE DEF a
    <3>2. coord' = [a EXCEPT !.job[j].from = FALSE]
      BY <2>2 DEF a
    <3>3. coord' = [a EXCEPT !.job[j].from = FALSE, !.streams = a.streams]
      BY <3>1, <3>2 DEF CoordType
    <3> QED
      BY <1>7, <3>3 DEF Reported, a
  <2> QED
    BY <1>2, <2>1, <2>2
<1> QED
  BY <1>5, <1>6, <1>8, <1>9

\* The handlers of messages but for the poll, and the timers.
LEMMA MessagesInOrder ==
  ASSUME Core, NEW j \in Jobs,
         \/ HandleFinished(j) \/ HandleExpire(j) \/ HandleCallerDown(j) \/ HandleRunnerDown(j)
         \/ TimerFires(j) \/ RunnerExits(j) \/ RunnerDies(j)
  PROVE  Calm(coord', coord)
<1>1. /\ coord \in CoordType /\ IsFiniteSet(coord.jobs) /\ Good(coord, gone)
      /\ coord.job \in [Jobs -> JobType] /\ coord.job[j] \in JobType
  BY CoordHasFields DEF Core, Good, JobsInv
<1>2. Calm(coord, coord)
  BY CalmIfSame
<1> DEFINE f == Forgotten(coord, j)
<1>3. ASSUME j \in coord.jobs
      PROVE  f \in CoordType /\ Calm(f, coord)
  <2>1. /\ f \in CoordType /\ f.queue = coord.queue
        /\ \A i \in Jobs \ {j} : f.job[i] = coord.job[i]
        /\ f.job[j].session = coord.job[j].session
    BY <1>1, <1>3, ForgottenKeeps DEF Good
  <2> HIDE DEF f
  <2>2. \A i \in Jobs : f.job[i].session = coord.job[i].session
    BY <2>1
  <2> QED
    BY <2>1, <2>2, CalmIfSame
<1>4. ASSUME HandleFinished(j) PROVE Calm(coord', coord)
  <2>1. \/ coord' = coord
        \/ j \in coord.jobs /\ coord' = Schedule(f)
    BY <1>4 DEF HandleFinished, Forgotten
  <2> HIDE DEF f
  <2>2. CASE j \in coord.jobs /\ coord' = Schedule(f)
    <3>1. Calm(coord', f)
      BY <1>3, <2>2, ScheduleIsCalm
    <3> QED
      BY <1>3, <2>2, <3>1, CalmTransitive
  <2> QED
    BY <1>2, <2>1, <2>2
<1>5. ASSUME HandleExpire(j) PROVE Calm(coord', coord)
  <2>1. coord' = coord \/ coord' = Schedule(Cancel(coord, {j}, "end"))
    BY <1>5 DEF HandleExpire
  <2> QED
    BY <1>1, <1>2, <2>1, CancelStepIsCalm
<1>6. ASSUME HandleCallerDown(j) PROVE Calm(coord', coord)
  <2> DEFINE job == [coord.job[j] EXCEPT !.watched = FALSE]
             c   == [coord EXCEPT !.job[j] = job]
             S   == {j}
             response == "silent"
  <2>1. coord' = Schedule(Cancel(c, S, response)) /\ response \in {"silent", "end"}
    BY <1>6 DEF HandleCallerDown
  <2>2. job \in JobType /\ job.session = coord.job[j].session
    BY <1>1, JobUpdates
  <2> HIDE DEF job, S, response
  <2>3. /\ c \in CoordType /\ c.jobs = coord.jobs /\ c.queue = coord.queue
        /\ c.job[j] = job /\ \A i \in Jobs \ {j} : c.job[i] = coord.job[i]
    BY <1>1, <2>2, SetJob
  <2> HIDE DEF c
  <2>4. \A i \in Jobs : c.job[i].session = coord.job[i].session
    BY <2>2, <2>3
  <2>5. Calm(c, coord)
    BY <2>3, <2>4, CalmIfSame
  <2>6. Calm(coord', c)
    BY <1>1, <2>1, <2>3, CancelStepIsCalm
  <2> QED
    BY <2>5, <2>6, CalmTransitive
<1>7. ASSUME HandleRunnerDown(j) PROVE Calm(coord', coord)
  <2> DEFINE job == [f.job[j] EXCEPT !.worker = FALSE]
             w   == [f EXCEPT !.job[j] = job]
  <2>1. j \in coord.jobs /\ coord' = Schedule(w)
    <3>1. /\ j \in coord.jobs
          /\ coord' = Schedule([Answer(coord, j, "end") EXCEPT !.job[j].from = FALSE,
                                                               !.job[j].worker = FALSE])
      BY <1>7 DEF HandleRunnerDown
    <3>2. [Answer(coord, j, "end") EXCEPT !.job[j].from = FALSE, !.job[j].worker = FALSE] = w
      BY DEF Forgotten
    <3> QED
      BY <3>1, <3>2, Zenon
  <2> HIDE DEF f
  <2>2. f \in CoordType /\ f.job[j] \in JobType
    BY <1>3, <2>1, CoordHasFields
  <2>3. job \in JobType /\ job.session = f.job[j].session
    BY <2>2, JobUpdates
  <2> HIDE DEF job
  <2>4. /\ w \in CoordType /\ w.queue = f.queue
        /\ w.job[j] = job /\ \A i \in Jobs \ {j} : w.job[i] = f.job[i]
    BY <2>2, <2>3, SetJob
  <2> HIDE DEF w
  <2>5. \A i \in Jobs : w.job[i].session = f.job[i].session
    BY <2>3, <2>4
  <2>6. Calm(w, f) /\ Calm(coord', w)
    BY <2>1, <2>4, <2>5, CalmIfSame, ScheduleIsCalm
  <2>7. Calm(w, coord)
    BY <1>3, <2>1, <2>6, CalmTransitive
  <2> QED
    BY <2>6, <2>7, CalmTransitive
<1>8. ASSUME TimerFires(j) PROVE Calm(coord', coord)
  <2> DEFINE job == [coord.job[j] EXCEPT !.timer = FALSE]
  <2>1. coord' = [coord EXCEPT !.job[j] = job]
    BY <1>8 DEF TimerFires
  <2>2. job.session = coord.job[j].session
    BY <1>1, JobUpdates
  <2> HIDE DEF job
  <2>3. coord'.queue = coord.queue /\ coord'.job = [coord.job EXCEPT ![j] = job]
    BY <1>1, <2>1 DEF CoordType
  <2> QED
    BY <1>1, <2>2, <2>3, SetJobIsCalm
<1>9. ASSUME RunnerExits(j) \/ RunnerDies(j) PROVE Calm(coord', coord)
  <2>1. coord' = [coord EXCEPT !.kills = @ \ {j}]
    BY <1>9 DEF RunnerExits, RunnerDies
  <2>2. coord'.queue = coord.queue /\ coord'.job = coord.job
    BY <1>1, <2>1 DEF CoordType
  <2> QED
    BY <2>2, CalmIfSame
<1> QED
  BY <1>4, <1>5, <1>6, <1>7, <1>8, <1>9

\* close, its timeout, and the poll of a database that is closing or has to.
LEMMA ClosingInOrder ==
  ASSUME Core,
         \/ \E x \in Closers : Close(x)
         \/ HandleCloseTimeout \/ PollBroken(Polled) \/ PollClosing(Polled)
  PROVE  Calm(coord', coord)
<1>1. /\ coord \in CoordType /\ IsFiniteSet(coord.jobs)
      /\ Polled \in CoordType /\ IsFiniteSet(Polled.jobs) /\ Calm(Polled, coord)
      /\ Reclaimable \in SUBSET Jobs /\ IsFiniteSet(Reclaimable)
  <2>1. coord \in CoordType /\ IsFiniteSet(coord.jobs) /\ coord.jobs \in SUBSET Jobs
    BY CoordHasFields DEF Core, Good, JobsInv
  <2>2. /\ Polled \in CoordType /\ Polled.jobs = coord.jobs /\ Polled.queue = coord.queue
        /\ Polled.job = coord.job /\ Reclaimable \in SUBSET coord.jobs
    BY PolledIsGood
  <2> QED
    BY <2>1, <2>2, CalmIfSame, FS_Subset
<1>2. \A code : InState(code) \in SUBSET Reclaimable
  BY DEF InState
<1>3. ASSUME NEW c \in CoordType, NEW S \in SUBSET Reclaimable
      PROVE  Remove(c, S) \in CoordType /\ Calm(Remove(c, S), c)
  <2>1. S \in SUBSET Jobs /\ IsFiniteSet(S)
    BY <1>1, FS_Subset
  <2> QED
    BY <2>1, RemoveEffect, RemoveIsCalm
<1>4. ASSUME NEW x \in Closers, Close(x) PROVE Calm(coord', coord)
  <2> DEFINE r == Cancel(coord, coord.jobs, "end")
             w == [r EXCEPT !.mode = "closing", !.closer = x, !.closing[x] = "waiting"]
  <2>1. \/ \E code : coord' = [coord EXCEPT !.closing[x] = code]
        \/ coord' = Schedule(w)
    BY <1>4 DEF Close
  <2>2. CASE \E code : coord' = [coord EXCEPT !.closing[x] = code]
    <3>1. coord'.queue = coord.queue /\ coord'.job = coord.job
      BY <1>1, <2>2 DEF CoordType
    <3> QED
      BY <3>1, CalmIfSame
  <2>3. CASE coord' = Schedule(w)
    <3>1. r \in CoordType /\ Calm(r, coord)
      BY <1>1, CancelEffect, CancelIsCalm
    <3> HIDE DEF r
    <3>2. w \in CoordType /\ w.queue = r.queue /\ w.job = r.job
      <4> DEFINE closing == [r.closing EXCEPT ![x] = "waiting"]
      <4>1. closing \in [Closers -> {"none", "waiting", "ok", "timeout", "busy"}]
        BY <3>1, CoordHasFields
      <4>2. w = [r EXCEPT !.mode = "closing", !.closer = x, !.closing = closing]
        BY <3>1 DEF CoordType
      <4> HIDE DEF closing, w
      <4> QED
        BY <3>1, <4>1, <4>2 DEF CoordType
    <3> HIDE DEF w
    <3>3. Calm(w, r) /\ Calm(coord', w)
      BY <2>3, <3>2, CalmIfSame, ScheduleIsCalm
    <3>4. Calm(w, coord)
      BY <3>1, <3>3, CalmTransitive
    <3> QED
      BY <3>3, <3>4, CalmTransitive
  <2> QED
    BY <2>1, <2>2, <2>3
<1>5. ASSUME HandleCloseTimeout PROVE Calm(coord', coord)
  <2>1. coord'.queue = coord.queue /\ coord'.job = coord.job
    BY <1>1, <1>5 DEF HandleCloseTimeout, CoordType
  <2> QED
    BY <2>1, CalmIfSame
<1>6. ASSUME PollBroken(Polled) PROVE Calm(coord', coord)
  <2>1. PICK f \in InState("retired") :
          \E before \in SUBSET (Reclaimable \ InState("retired")) :
            LET kept      == Remove(Polled, before \cap InState("idle"))
                cancelled == [Cancel(kept, kept.jobs, "end") EXCEPT !.mode = "closing"]
            IN coord' = Schedule(Remove(cancelled, Reclaimable \ (before \cup {f})))
    BY <1>6 DEF PollBroken
  <2>2. PICK before \in SUBSET (Reclaimable \ InState("retired")) :
            LET kept      == Remove(Polled, before \cap InState("idle"))
                cancelled == [Cancel(kept, kept.jobs, "end") EXCEPT !.mode = "closing"]
            IN coord' = Schedule(Remove(cancelled, Reclaimable \ (before \cup {f})))
    BY <2>1
  <2> DEFINE S    == before \cap InState("idle")
             kept == Remove(Polled, S)
             x    == Cancel(kept, kept.jobs, "end")
             y    == [x EXCEPT !.mode = "closing"]
             T    == Reclaimable \ (before \cup {f})
             z    == Remove(y, T)
  <2>3. coord' = Schedule(z)
    BY <2>2
  <2>4. S \in SUBSET Reclaimable /\ T \in SUBSET Reclaimable /\ IsFiniteSet(S)
    BY <1>1, <1>2, FS_Subset
  <2> HIDE DEF S, T
  <2>5. /\ kept \in CoordType /\ Calm(kept, Polled) /\ IsFiniteSet(kept.jobs)
    <3>1. kept \in CoordType /\ Calm(kept, Polled)
      BY <1>1, <1>3, <2>4
    <3>2. kept.jobs = Polled.jobs \ S
      BY <1>1, <2>4, RemoveEffect
    <3>3. kept.jobs \in SUBSET Polled.jobs
      BY <3>2
    <3> QED
      BY <1>1, <3>1, <3>3, FS_Subset
  <2> HIDE DEF kept
  <2>6. x \in CoordType /\ Calm(x, kept)
    BY <2>5, CancelEffect, CancelIsCalm
  <2> HIDE DEF x
  <2>7. y \in CoordType /\ y.queue = x.queue /\ y.job = x.job
    BY <2>6 DEF CoordType
  <2> HIDE DEF y
  <2>8. Calm(y, x)
    BY <2>7, CalmIfSame
  <2>9. z \in CoordType /\ Calm(z, y)
    BY <1>3, <2>4, <2>7
  <2> HIDE DEF z
  <2>10. Calm(coord', z)
    BY <2>3, <2>9, ScheduleIsCalm
  <2>11. Calm(kept, coord)
    BY <1>1, <2>5, CalmTransitive
  <2>12. Calm(x, coord)
    BY <2>6, <2>11, CalmTransitive
  <2>13. Calm(y, coord)
    BY <2>8, <2>12, CalmTransitive
  <2>14. Calm(z, coord)
    BY <2>9, <2>13, CalmTransitive
  <2> QED
    BY <2>10, <2>14, CalmTransitive
<1>7. ASSUME PollClosing(Polled) PROVE Calm(coord', coord)
  <2> DEFINE S    == InState("idle") \cup InState("retired")
             kept == Remove(Polled, S)
             closing == [x \in Closers |-> IF x = kept.closer THEN "ok" ELSE kept.closing[x]]
             w    == [kept EXCEPT !.mode = "closed", !.closer = None, !.closing = closing]
  <2>1. coord' = w \/ coord' = Schedule(kept)
    BY <1>7 DEF PollClosing
  <2>2. S \in SUBSET Reclaimable
    BY <1>2
  <2> HIDE DEF S
  <2>3. kept \in CoordType /\ Calm(kept, Polled)
    BY <1>1, <1>3, <2>2
  <2> HIDE DEF kept, closing
  <2>4. Calm(kept, coord)
    BY <1>1, <2>3, CalmTransitive
  <2>5. w.queue = kept.queue /\ w.job = kept.job
    BY <2>3 DEF CoordType
  <2> HIDE DEF w
  <2>6. Calm(w, kept) /\ Calm(Schedule(kept), kept)
    BY <2>3, <2>5, CalmIfSame, ScheduleIsCalm
  <2>7. Calm(coord', kept)
    BY <2>1, <2>6
  <2> QED
    BY <2>4, <2>7, CalmTransitive
<1> QED
  BY <1>4, <1>5, <1>6, <1>7

\* A new call joins the queue behind everybody.
LEMMA AdmitInOrder ==
  ASSUME Core, NEW j \in Jobs, NEW kind \in Kinds, Admit(j, kind)
  PROVE  InOrder(coord', coord)
<1> DEFINE queued == WithCall(coord, j, kind)
<1>1. /\ coord.asks[j] = "none" /\ coord.reply[j] = "none" /\ Good(coord, gone)
      /\ coord \in CoordType /\ coord.queue \in Seq(Jobs)
      /\ \/ coord' = [coord EXCEPT !.reply[j] = "end"]
         \/ coord' \in Dispatched(queued)
  BY CoordHasFields DEF Admit, WithCall, Core, Good
<1>2. CASE coord' = [coord EXCEPT !.reply[j] = "end"]
  <2>1. coord'.queue = coord.queue /\ coord'.job = coord.job
    BY <1>1, <1>2 DEF CoordType
  <2>2. Calm(coord', coord)
    BY <2>1, CalmIfSame
  <2> QED
    BY <1>1, <2>2, CalmInOrder
<1>3. CASE coord' \in Dispatched(queued)
  <2>1. kind \in {"query", "stream"}
    BY KindsAssumption
  <2>2. Good(queued, gone) /\ queued.queue = Append(coord.queue, j)
    BY <1>1, <2>1, QueuedIsGood
  <2> HIDE DEF queued
  <2> DEFINE q == coord.queue
             n == Len(q)
  <2>3. /\ n \in Nat /\ DOMAIN q = 1..n /\ DOMAIN queued.queue = 1..(n + 1)
        /\ \A i \in 1..n : queued.queue[i] = q[i]
        /\ queued.queue[n + 1] = j
    BY <1>1, <2>2, LenProperties, AppendProperties
  <2>4. j \notin InQueue(q)
    <3>1. InQueue(q) \subseteq coord.jobs
      BY <1>1 DEF Good, PlacesInv, Waiting
    <3> QED
      BY <1>1, <3>1 DEF Good, JobsInv
  <2>5. ASSUME NEW a, NEW b, Ahead(queued.queue, b, a), a \in InQueue(q) PROVE Ahead(q, b, a)
    <3>1. PICK i \in 1..(n + 1), k \in 1..(n + 1) :
            i < k /\ queued.queue[i] = b /\ queued.queue[k] = a
      BY <2>3, <2>5 DEF Ahead
    <3>2. k # n + 1
      BY <2>3, <2>4, <2>5, <3>1
    <3>3. i \in 1..n /\ k \in 1..n
      BY <2>3, <3>1, <3>2
    <3> QED
      BY <2>3, <3>1, <3>3 DEF Ahead
  <2>6. ASSUME NEW a, NEW b, Ahead(q, a, b) PROVE Ahead(queued.queue, a, b)
    <3>1. PICK i \in 1..n, k \in 1..n : i < k /\ q[i] = a /\ q[k] = b
      BY <2>3, <2>6 DEF Ahead
    <3>2. i \in 1..(n + 1) /\ k \in 1..(n + 1)
      BY <2>3
    <3> QED
      BY <2>3, <3>1, <3>2 DEF Ahead
  <2> QED
    BY <1>3, <2>2, <2>5, <2>6, DispatchLater
<1> QED
  BY <1>1, <1>2, <1>3

\* The poll of a healthy database: the sessions it takes back go to the front of the queue.
LEMMA PollOpenInOrder ==
  ASSUME Core, PollOpen(Polled)
  PROVE  InOrder(coord', coord)
<1> DEFINE S == InState("idle")
           r == Remove(Polled, S)
<1>1. PICK d \in Dispatched(r) : coord' = Schedule(d)
  BY DEF PollOpen
<1>2. /\ Good(Polled, gone) /\ S \in SUBSET Polled.jobs
      /\ \A j \in S : Polled.job[j].session # None /\ ~Polled.job[j].worker
      /\ Polled.job = coord.job /\ Polled.jobs = coord.jobs /\ Polled.queue = coord.queue
      /\ Polled \in CoordType
  BY PolledIsGood
<1>3. /\ S \in SUBSET Jobs /\ IsFiniteSet(S) /\ Good(coord, gone) /\ coord.queue \in Seq(Jobs)
  BY <1>2, CoordHasFields, FS_Subset DEF Core, Good, JobsInv
<1> HIDE DEF S
<1>4. Good(r, gone) /\ r.queue = Without(coord.queue, S)
  <2>1. Good(r, gone)
    BY <1>2, RemoveKeeps
  <2>2. r.queue = Without(Polled.queue, S)
    BY <1>2, <1>3, RemoveEffect
  <2> QED
    BY <1>2, <2>1, <2>2
<1> HIDE DEF r
<1>5. \A a, b : Ahead(r.queue, a, b) <=> a \notin S /\ b \notin S /\ Ahead(coord.queue, a, b)
  BY <1>3, <1>4, WithoutProperties
<1>6. \A a \in InQueue(coord.queue) : a \notin S
  BY <1>2, <1>3 DEF Good, PlacesInv, Waiting
<1>7. \A a, b : Ahead(coord.queue, a, b) => Ahead(r.queue, a, b)
  BY <1>5, <1>6, AheadIsQueued
<1>8. InOrder(d, coord)
  BY <1>1, <1>4, <1>5, <1>7, DispatchLater
<1>9. d \in CoordType
  BY <1>1, <1>4, DispatchKeeps DEF Good
<1>10. coord'.queue = d.queue /\ coord'.job = d.job
  BY <1>1, <1>9, ScheduleEffect
<1> QED
  BY <1>8, <1>10 DEF InOrder

\* First come, first served: every step of the coordinator keeps the order of the queue, and
\* nobody gets a session while somebody who stays in the queue is ahead of it.
THEOREM ServedInOrder == Spec => StartInOrder
<1>1. ASSUME Invariant, [Next]_vars PROVE InOrder(coord', coord)
  <2>1. Core /\ Good(coord, gone)
    BY <1>1 DEF Invariant, Core
  <2>2. ASSUME Calm(coord', coord) PROVE InOrder(coord', coord)
    BY <2>1, <2>2, CalmInOrder
  <2>3. ASSUME coord' = coord PROVE Calm(coord', coord)
    BY <2>3, CalmIfSame
  <2>4. ASSUME NEW j \in Jobs, NEW kind \in Kinds, Admit(j, kind) PROVE InOrder(coord', coord)
    BY <2>1, <2>4, AdmitInOrder
  <2>5. ASSUME NEW j \in Jobs,
               StreamNext(j) \/ StreamRelease(j) \/ StreamReady(j) \/ StreamBatch(j)
        PROVE  InOrder(coord', coord)
    BY <2>1, <2>2, <2>5, CallsInOrder
  <2>6. ASSUME NEW j \in Jobs,
               \/ HandleFinished(j) \/ HandleExpire(j) \/ HandleCallerDown(j)
               \/ HandleRunnerDown(j) \/ TimerFires(j) \/ RunnerExits(j) \/ RunnerDies(j)
        PROVE  InOrder(coord', coord)
    BY <2>1, <2>2, <2>6, MessagesInOrder
  <2>7. ASSUME (\E x \in Closers : Close(x)) \/ HandleCloseTimeout PROVE InOrder(coord', coord)
    BY <2>1, <2>2, <2>7, ClosingInOrder
  <2>8. ASSUME Poll PROVE InOrder(coord', coord)
    <3>1. PollOpen(Polled) \/ PollBroken(Polled) \/ PollClosing(Polled)
      BY <2>8 DEF Poll, Polled
    <3> QED
      BY <2>1, <2>2, <3>1, PollOpenInOrder, ClosingInOrder
  <2>9. ASSUME NEW j \in Jobs,
               \/ Deadline(j) \/ CallerDies(j) \/ RunnerStarts(j) \/ RunnerReserves(j)
               \/ RunnerRefused(j) \/ RunnerReturns(j) \/ ZombieReserves(j)
        PROVE  InOrder(coord', coord)
    BY <2>2, <2>3, <2>9 DEF Deadline, CallerDies, RunnerStarts, RunnerReserves, RunnerRefused,
                            RunnerReturns, ZombieReserves
  <2>10. ASSUME (\E s \in Sessions : NativeReleases(s) \/ NativeBreaks(s)) \/ NativeCloses
         PROVE  InOrder(coord', coord)
    BY <2>2, <2>3, <2>10 DEF NativeReleases, NativeBreaks, NativeCloses
  <2>11. ASSUME UNCHANGED vars PROVE InOrder(coord', coord)
    BY <2>2, <2>3, <2>11 DEF vars
  <2> QED
    BY <1>1, <2>4, <2>5, <2>6, <2>7, <2>8, <2>9, <2>10, <2>11 DEF Next
<1>2. Invariant /\ [Next]_vars =>
        [\A a \in Queued', b \in Jobs :
           /\ Ahead(coord'.queue, b, a) /\ a \in Queued => Ahead(coord.queue, b, a)
           /\ coord'.job[b].session # None => ~Ahead(coord.queue, a, b)]_vars
  <2> SUFFICES ASSUME Invariant, [Next]_vars
               PROVE  \A a \in Queued', b \in Jobs :
                        /\ Ahead(coord'.queue, b, a) /\ a \in Queued => Ahead(coord.queue, b, a)
                        /\ coord'.job[b].session # None => ~Ahead(coord.queue, a, b)
    OBVIOUS
  <2>1. InOrder(coord', coord)
    BY <1>1
  <2>2. Queued' = InQueue(coord'.queue) /\ Queued = InQueue(coord.queue)
    BY DEF Queued, InQueue
  <2> QED
    BY <2>1, <2>2 DEF InOrder
<1> QED
  BY <1>2, InvariantHolds, PTL DEF Spec, StartInOrder
==============================================================================
