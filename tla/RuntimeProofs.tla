---------------------------- MODULE RuntimeProofs ----------------------------
(***************************************************************************)
(* Proofs about Runtime: its safety invariants hold for any number of      *)
(* databases, paths and cursors and any limit.                             *)
(***************************************************************************)
EXTENDS Runtime, FiniteSetTheorems, TLAPS

-----------------------------------------------------------------------------
(* The inductive invariant, by subject. *)

NotStarted == {"none", "building", "active", "retiring", "full"}

\* How far the open of a database got decides its state, its handle and its cursors.
OpenInv ==
  \A d \in Dbs :
    /\ open[d] \in NotStarted => state[d] = "opening"
    /\ open[d] \notin NotStarted => state[d] # "opening"
    /\ handle[d] # "none" <=> open[d] = "done"
    /\ cursors[d] # 0 => open[d] = "done"
    /\ fetching[d] <= cursors[d]

\* What is on its way to the cleaner is retiring, and in one place only.
QueueInv ==
  /\ cleaner.step = "wait" <=> cleaner.db = None
  /\ cleaner.db # None => state[cleaner.db] = "retiring" /\ cleaner.db \notin telling
  /\ \A d \in telling : state[d] = "retiring"
  /\ \A i \in 1..Len(retired) :
       /\ state[retired[i]] = "retiring"
       /\ retired[i] \notin telling /\ retired[i] # cleaner.db
  /\ \A i, j \in 1..Len(retired) : retired[i] = retired[j] => i = j

\* Threads need their engine, the engine its reservation, and the cleaner takes them down
\* in that order.
EngineInv ==
  /\ workers \subseteq engine /\ engine \subseteq databases
  /\ \A d \in Dbs : open[d] = "building" => d \in databases
  /\ \A d, e \in databases : d # e => path[d] # path[e] \/ path[d] = Memory
  /\ cleaner.step \in {"destroy", "erase", "unref"} => cleaner.db \notin workers
  /\ cleaner.step \in {"erase", "unref"} => cleaner.db \notin engine
  /\ cleaner.step = "unref" => cleaner.db \notin databases

\* A reservation lasts from a successful reserve until the cleaner's erase.
ReservedInv ==
  /\ IsFiniteSet(databases)
  /\ \A d \in Dbs :
       /\ open[d] \in NotStarted \ {"building"} => d \notin databases
       /\ state[d] = "ready" => d \in databases
       /\ state[d] = "retiring" /\ ~(cleaner.step = "unref" /\ cleaner.db = d) => d \in databases

Inv == OpenInv /\ QueueInv /\ EngineInv /\ ClosedIsReleased /\ ReservedInv /\ LiveGauge /\ RefsExact

-----------------------------------------------------------------------------
(* What reserve decides, and who holds a reference. *)

\* The two ways reserve ends.
Refused(d, answer) ==
  /\ open[d] = "none" /\ open' = [open EXCEPT ![d] = answer]
  /\ UNCHANGED <<path, owner, handle, state, refs, databases, live, telling, retired, cleaner,
                 lifeVars, fetching, cursors>>

Accepted(d) ==
  /\ open[d] = "none" /\ open' = [open EXCEPT ![d] = "building"]
  /\ Conflicts(d) = {}
  /\ refs' = [refs EXCEPT ![d] = 2]
  /\ databases' = databases \cup {d}
  /\ live' = live + 1
  /\ UNCHANGED <<path, owner, handle, state, telling, retired, cleaner, lifeVars, fetching,
                 cursors>>

\* Runtime::reserve either refuses with one of three answers or takes the path.
LEMMA ReserveCases ==
  ASSUME NEW d \in Dbs, Reserve(d)
  PROVE  Accepted(d) \/ \E answer \in {"full", "active", "retiring"} : Refused(d, answer)
<1>1. CASE Conflicts(d) # {} \/ Cardinality(databases) = Limit
  <2> DEFINE r == IF Conflicts(d) = {} THEN "full"
                  ELSE IF \E e \in Conflicts(d) : state[e] = "retiring"
                  THEN "retiring" ELSE "active"
  <2>1. r \in {"full", "active", "retiring"}
    OBVIOUS
  <2>2. Refused(d, r)
    BY <1>1, Zenon DEF Reserve, Refused
  <2> HIDE DEF r
  <2> QED BY <2>1, <2>2
<1>2. CASE ~(Conflicts(d) # {} \/ Cardinality(databases) = Limit)
  BY <1>2, Zenon DEF Reserve, Accepted
<1> QED BY <1>1, <1>2

\* A queue stays free of repetitions when something new is appended.
LEMMA AppendNew ==
  ASSUME NEW S, NEW s \in Seq(S), NEW e \in S,
         \A i \in 1..Len(s) : s[i] # e,
         \A i, j \in 1..Len(s) : s[i] = s[j] => i = j
  PROVE  /\ \A i \in 1..Len(Append(s, e)) :
              Append(s, e)[i] = e \/ \E k \in 1..Len(s) : Append(s, e)[i] = s[k]
         /\ \A i, j \in 1..Len(Append(s, e)) : Append(s, e)[i] = Append(s, e)[j] => i = j
<1>1. Len(s) \in Nat /\ Len(Append(s, e)) = Len(s) + 1
  OBVIOUS
<1>2. \A i \in 1..Len(s) : Append(s, e)[i] = s[i]
  OBVIOUS
<1>3. Append(s, e)[Len(s) + 1] = e
  OBVIOUS
<1>4. \A i \in 1..Len(Append(s, e)) : i \in 1..Len(s) \/ i = Len(s) + 1
  BY <1>1
<1> QED BY <1>2, <1>3, <1>4

\* A step that leaves the way to the cleaner alone, and what is retiring.
LEMMA QueueFrame ==
  ASSUME TypeOK, QueueInv, UNCHANGED <<telling, retired, cleaner>>,
         \A e \in Dbs : state[e] = "retiring" => state'[e] = "retiring"
  PROVE  QueueInv'
<1>1. \A i \in 1..Len(retired) : retired[i] \in Dbs /\ state[retired[i]] = "retiring"
  BY DEF TypeOK, QueueInv
<1>2. \A e \in telling : e \in Dbs
  BY DEF TypeOK
<1>3. cleaner.db # None => cleaner.db \in Dbs
  BY DEF TypeOK
<1> QED BY <1>1, <1>2, <1>3 DEF QueueInv

\* The compare-and-swap of retire(): what becomes retiring was on no way to the cleaner.
LEMMA QueueRetire ==
  ASSUME TypeOK, QueueInv, NEW d \in Dbs, CAS(d), UNCHANGED <<retired, cleaner>>
  PROVE  QueueInv'
<1>1. CASE state[d] = "ready"
  <2>1. telling' = telling \cup {d} /\ state' = [state EXCEPT ![d] = "retiring"]
    BY <1>1 DEF CAS
  <2>2. \A e \in Dbs : state[e] = "retiring" => state'[e] = "retiring" /\ e # d
    BY <1>1, <2>1 DEF TypeOK
  <2>3. state'[d] = "retiring"
    BY <2>1 DEF TypeOK
  <2>4. \A i \in 1..Len(retired) : retired[i] \in Dbs
    BY DEF TypeOK
  <2>5. telling \subseteq Dbs /\ cleaner.db \in Dbs \cup {None}
    BY DEF TypeOK
  <2> QED BY <2>1, <2>2, <2>3, <2>4, <2>5 DEF QueueInv
<1>2. CASE state[d] # "ready"
  BY <1>2, QueueFrame DEF CAS
<1> QED BY <1>1, <1>2

\* The reference of the opener or the handle, and that of the runtime.
OwnersRef(d)  == Holds(open[d] \in {"building", "failing"} \/ handle[d] \in {"held", "releasing"})
RuntimeRef(d) == Holds(open[d] \in {"building", "failing", "failed", "done"} /\ state[d] # "closed")

\* Enough to show of a step that only changes what database d counts.
LEMMA RefsKept ==
  ASSUME RefsExact, NEW d \in Dbs,
         \A e \in Dbs \ {d} : /\ OwnersRef(e)' = OwnersRef(e) /\ RuntimeRef(e)' = RuntimeRef(e)
                              /\ refs'[e] = refs[e] /\ cursors'[e] = cursors[e],
         refs'[d] = OwnersRef(d)' + RuntimeRef(d)' + cursors'[d]
  PROVE  RefsExact'
<1>1. \A e \in Dbs : refs[e] = OwnersRef(e) + RuntimeRef(e) + cursors[e]
  BY DEF RefsExact, OwnersRef, RuntimeRef
<1>2. \A e \in Dbs : refs'[e] = OwnersRef(e)' + RuntimeRef(e)' + cursors'[e]
  <2> SUFFICES ASSUME NEW e \in Dbs PROVE refs'[e] = OwnersRef(e)' + RuntimeRef(e)' + cursors'[e]
    OBVIOUS
  <2>1. CASE e = d
    BY <2>1
  <2>2. CASE e # d
    <3>1. /\ OwnersRef(e)' = OwnersRef(e) /\ RuntimeRef(e)' = RuntimeRef(e)
          /\ refs'[e] = refs[e] /\ cursors'[e] = cursors[e]
      BY <2>2
    <3> QED BY <1>1, <3>1
  <2> QED BY <2>1, <2>2
<1> QED BY <1>2 DEF RefsExact, OwnersRef, RuntimeRef

\* Someone who is about to drop a reference holds one.
LEMMA HoldsReference ==
  ASSUME TypeOK, RefsExact, OpenInv, NEW d \in Dbs,
         \/ open[d] = "failing" \/ handle[d] = "releasing" \/ cursors[d] > 0
         \/ open[d] \in {"failing", "failed", "done"} /\ state[d] # "closed"
  PROVE  refs[d] - 1 \in Nat
<1>1. OwnersRef(d) \in 0..1 /\ RuntimeRef(d) \in 0..1 /\ cursors[d] \in Nat /\ refs[d] \in Nat
  BY LimitAssumption DEF Holds, TypeOK, OwnersRef, RuntimeRef
<1>2. refs[d] = OwnersRef(d) + RuntimeRef(d) + cursors[d]
  BY DEF RefsExact, OwnersRef, RuntimeRef
<1>3. OwnersRef(d) = 1 \/ RuntimeRef(d) = 1 \/ cursors[d] > 0
  BY DEF Holds, OwnersRef, RuntimeRef
<1> QED BY <1>1, <1>2, <1>3

-----------------------------------------------------------------------------
(* Preservation. *)

\* No step takes a variable out of its type; a reference is only dropped by who holds one.
LEMMA TypeStep ==
  ASSUME TypeOK, Inv, [Next]_vars
  PROVE  TypeOK'
<1> USE LimitAssumption, NoneAssumption
        DEF TypeOK, OpenStates, CleanerSteps, openVars, lifeVars
<1>1. ASSUME NEW d \in Dbs, Reserve(d)
      PROVE  TypeOK'
  <2>1. ASSUME NEW answer \in {"full", "active", "retiring"}, Refused(d, answer)
        PROVE  TypeOK'
    BY <2>1 DEF Refused
  <2>2. CASE Accepted(d)
    BY <2>2 DEF Accepted, Conflicts
  <2> QED BY <1>1, <2>1, <2>2, ReserveCases
<1>2. ASSUME NEW d \in Dbs, Retry(d)
      PROVE  TypeOK'
  BY <1>2 DEF Retry
<1>3. ASSUME NEW d \in Dbs, CreateEngine(d)
      PROVE  TypeOK'
  BY <1>3 DEF CreateEngine
<1>4. ASSUME NEW d \in Dbs, StartWorkers(d)
      PROVE  TypeOK'
  BY <1>4 DEF StartWorkers
<1>5. ASSUME NEW d \in Dbs, OpenReturns(d)
      PROVE  TypeOK'
  BY <1>5 DEF OpenReturns
<1>6. ASSUME NEW d \in Dbs, OpenFails(d)
      PROVE  TypeOK'
  BY <1>6 DEF OpenFails
<1>7. ASSUME NEW d \in Dbs, FailedOpenRetires(d)
      PROVE  TypeOK'
  <2>1. CASE state[d] = "ready"
    <3>1. state' = [state EXCEPT ![d] = "retiring"] /\ telling' = telling \cup {d}
      BY <1>7, <2>1 DEF FailedOpenRetires, CAS
    <3>2. telling' \subseteq Dbs /\ state' \in [Dbs -> {"opening", "ready", "retiring", "closed"}]
      BY <3>1
    <3> QED BY <1>7, <3>2 DEF FailedOpenRetires
  <2>2. CASE state[d] # "ready"
    BY <1>7, <2>2 DEF FailedOpenRetires, CAS
  <2> QED BY <2>1, <2>2
<1>8. ASSUME NEW d \in Dbs, FailedOpenUnrefs(d)
      PROVE  TypeOK'
  BY <1>8, HoldsReference DEF FailedOpenUnrefs, Inv
<1>9. ASSUME NEW d \in Dbs, OwnerDies(d)
      PROVE  TypeOK'
  BY <1>9 DEF OwnerDies
<1>10. ASSUME NEW d \in Dbs, Retire(d)
      PROVE  TypeOK'
  <2>1. CASE state[d] = "ready"
    <3>1. state' = [state EXCEPT ![d] = "retiring"] /\ telling' = telling \cup {d}
      BY <1>10, <2>1 DEF Retire, CAS
    <3>2. telling' \subseteq Dbs /\ state' \in [Dbs -> {"opening", "ready", "retiring", "closed"}]
      BY <3>1
    <3> QED BY <1>10, <3>2 DEF Retire
  <2>2. CASE state[d] # "ready"
    BY <1>10, <2>2 DEF Retire, CAS
  <2> QED BY <2>1, <2>2
<1>11. ASSUME NEW d \in Dbs, Enqueue(d)
      PROVE  TypeOK'
  BY <1>11 DEF Enqueue
<1>12. ASSUME NEW d \in Dbs, ReleaseStarts(d)
      PROVE  TypeOK'
  <2>1. CASE state[d] = "ready"
    <3>1. state' = [state EXCEPT ![d] = "retiring"] /\ telling' = telling \cup {d}
      BY <1>12, <2>1 DEF ReleaseStarts, CAS
    <3>2. telling' \subseteq Dbs /\ state' \in [Dbs -> {"opening", "ready", "retiring", "closed"}]
      BY <3>1
    <3> QED BY <1>12, <3>2 DEF ReleaseStarts
  <2>2. CASE state[d] # "ready"
    BY <1>12, <2>2 DEF ReleaseStarts, CAS
  <2> QED BY <2>1, <2>2
<1>13. ASSUME NEW d \in Dbs, ReleaseUnrefs(d)
      PROVE  TypeOK'
  BY <1>13, HoldsReference DEF ReleaseUnrefs, Inv
<1>14. ASSUME NEW d \in Dbs, FetchBegin(d)
      PROVE  TypeOK'
  BY <1>14 DEF FetchBegin, Inv, OpenInv
<1>15. ASSUME NEW d \in Dbs, FetchEnds(d)
      PROVE  TypeOK'
  BY <1>15 DEF FetchEnds
<1>16. ASSUME NEW d \in Dbs, FetchUnrefs(d)
      PROVE  TypeOK'
  <2>1. cursors[d] > 0 /\ cursors[d] - 1 \in 0..Cursors
    BY <1>16 DEF FetchUnrefs
  <2>2. refs[d] - 1 \in Nat
    BY <2>1, HoldsReference DEF Inv
  <2> QED BY <1>16, <2>1, <2>2 DEF FetchUnrefs
<1>17. ASSUME NEW d \in Dbs, WorkersExit(d)
      PROVE  TypeOK'
  BY <1>17 DEF WorkersExit
<1>18. CASE Pop
  <2>1. Head(retired) \in Dbs /\ Tail(retired) \in Seq(Dbs)
    BY <1>18 DEF Pop
  <2> QED BY <1>18, <2>1 DEF Pop
<1>19. CASE Join
  BY <1>19 DEF Join, CleanerAt
<1>20. CASE JoinFails
  BY <1>20 DEF JoinFails
<1>21. CASE DestroyEngine
  BY <1>21 DEF DestroyEngine, CleanerAt
<1>22. CASE Erase
  BY <1>22 DEF Erase, CleanerAt
<1>23. CASE CleanerUnrefs
  <2>1. cleaner.db \in Dbs /\ state[cleaner.db] = "retiring"
    BY <1>23 DEF CleanerUnrefs, Inv, QueueInv
  <2>2. open[cleaner.db] \in {"failing", "failed", "done"}
    BY <2>1 DEF Inv, OpenInv, NotStarted
  <2>3. refs[cleaner.db] - 1 \in Nat
    BY <2>1, <2>2, HoldsReference DEF Inv
  <2> QED BY <1>23, <2>1, <2>3 DEF CleanerUnrefs
<1>24. CASE UNCHANGED vars
  BY <1>24 DEF vars
<1> QED
  BY <1>1, <1>2, <1>3, <1>4, <1>5, <1>6, <1>7, <1>8, <1>9, <1>10, <1>11, <1>12, <1>13, <1>14,
     <1>15, <1>16, <1>17, <1>18, <1>19, <1>20, <1>21, <1>22, <1>23, <1>24
     DEF Next, Cleaning, Opening

\* No step loses track of how far an open got.
LEMMA OpenStep ==
  ASSUME TypeOK, Inv, [Next]_vars
  PROVE  OpenInv'
<1> USE LimitAssumption, NoneAssumption
        DEF Inv, TypeOK, OpenStates, CleanerSteps, openVars, lifeVars, OpenInv, QueueInv,
            NotStarted
<1>1. ASSUME NEW d \in Dbs, Reserve(d)
      PROVE  OpenInv'
  <2>1. ASSUME NEW answer \in {"full", "active", "retiring"}, Refused(d, answer)
        PROVE  OpenInv'
    BY <2>1 DEF Refused
  <2>2. CASE Accepted(d)
    BY <2>2 DEF Accepted, Conflicts
  <2> QED BY <1>1, <2>1, <2>2, ReserveCases
<1>2. ASSUME NEW d \in Dbs, Retry(d)
      PROVE  OpenInv'
  BY <1>2 DEF Retry
<1>3. ASSUME NEW d \in Dbs, CreateEngine(d)
      PROVE  OpenInv'
  BY <1>3 DEF CreateEngine
<1>4. ASSUME NEW d \in Dbs, StartWorkers(d)
      PROVE  OpenInv'
  BY <1>4 DEF StartWorkers
<1>5. ASSUME NEW d \in Dbs, OpenReturns(d)
      PROVE  OpenInv'
  BY <1>5 DEF OpenReturns
<1>6. ASSUME NEW d \in Dbs, OpenFails(d)
      PROVE  OpenInv'
  BY <1>6 DEF OpenFails
<1>7. ASSUME NEW d \in Dbs, FailedOpenRetires(d)
      PROVE  OpenInv'
  BY <1>7 DEF FailedOpenRetires, CAS
<1>8. ASSUME NEW d \in Dbs, FailedOpenUnrefs(d)
      PROVE  OpenInv'
  BY <1>8 DEF FailedOpenUnrefs
<1>9. ASSUME NEW d \in Dbs, OwnerDies(d)
      PROVE  OpenInv'
  BY <1>9 DEF OwnerDies
<1>10. ASSUME NEW d \in Dbs, Retire(d)
      PROVE  OpenInv'
  BY <1>10 DEF Retire, CAS
<1>11. ASSUME NEW d \in Dbs, Enqueue(d)
      PROVE  OpenInv'
  BY <1>11 DEF Enqueue
<1>12. ASSUME NEW d \in Dbs, ReleaseStarts(d)
      PROVE  OpenInv'
  BY <1>12 DEF ReleaseStarts, CAS
<1>13. ASSUME NEW d \in Dbs, ReleaseUnrefs(d)
      PROVE  OpenInv'
  BY <1>13 DEF ReleaseUnrefs
<1>14. ASSUME NEW d \in Dbs, FetchBegin(d)
      PROVE  OpenInv'
  BY <1>14 DEF FetchBegin
<1>15. ASSUME NEW d \in Dbs, FetchEnds(d)
      PROVE  OpenInv'
  BY <1>15 DEF FetchEnds
<1>16. ASSUME NEW d \in Dbs, FetchUnrefs(d)
      PROVE  OpenInv'
  BY <1>16 DEF FetchUnrefs
<1>17. ASSUME NEW d \in Dbs, WorkersExit(d)
      PROVE  OpenInv'
  BY <1>17 DEF WorkersExit
<1>18. CASE Pop
  BY <1>18 DEF Pop
<1>19. CASE Join
  BY <1>19 DEF Join, CleanerAt
<1>20. CASE JoinFails
  BY <1>20 DEF JoinFails
<1>21. CASE DestroyEngine
  BY <1>21 DEF DestroyEngine, CleanerAt
<1>22. CASE Erase
  BY <1>22 DEF Erase, CleanerAt
<1>23. CASE CleanerUnrefs
  BY <1>23 DEF CleanerUnrefs
<1>24. CASE UNCHANGED vars
  BY <1>24 DEF vars
<1> QED
  BY <1>1, <1>2, <1>3, <1>4, <1>5, <1>6, <1>7, <1>8, <1>9, <1>10, <1>11, <1>12, <1>13, <1>14,
     <1>15, <1>16, <1>17, <1>18, <1>19, <1>20, <1>21, <1>22, <1>23, <1>24
     DEF Next, Cleaning, Opening

\* No step sends a database to the cleaner a second time.
LEMMA QueueStep ==
  ASSUME TypeOK, Inv, [Next]_vars
  PROVE  QueueInv'
<1> USE LimitAssumption, NoneAssumption
        DEF Inv, TypeOK, OpenStates, CleanerSteps, openVars, lifeVars, OpenInv, QueueInv,
            NotStarted
<1>1. ASSUME NEW d \in Dbs, Reserve(d)
      PROVE  QueueInv'
  <2>1. ASSUME NEW answer \in {"full", "active", "retiring"}, Refused(d, answer)
        PROVE  QueueInv'
    BY <2>1 DEF Refused
  <2>2. CASE Accepted(d)
    BY <2>2 DEF Accepted, Conflicts
  <2> QED BY <1>1, <2>1, <2>2, ReserveCases
<1>2. ASSUME NEW d \in Dbs, Retry(d)
      PROVE  QueueInv'
  <2>1. UNCHANGED <<state, telling, retired, cleaner>>
    BY <1>2 DEF Retry
  <2> QED BY <2>1, QueueFrame
<1>3. ASSUME NEW d \in Dbs, CreateEngine(d)
      PROVE  QueueInv'
  <2>1. UNCHANGED <<state, telling, retired, cleaner>>
    BY <1>3 DEF CreateEngine
  <2> QED BY <2>1, QueueFrame
<1>4. ASSUME NEW d \in Dbs, StartWorkers(d)
      PROVE  QueueInv'
  <2>1. UNCHANGED <<state, telling, retired, cleaner>>
    BY <1>4 DEF StartWorkers
  <2> QED BY <2>1, QueueFrame
<1>5. ASSUME NEW d \in Dbs, OpenReturns(d)
      PROVE  QueueInv'
  <2>1. UNCHANGED <<telling, retired, cleaner>>
    BY <1>5 DEF OpenReturns
  <2>2. \A e \in Dbs : state[e] = "retiring" => state'[e] = "retiring"
    BY <1>5 DEF OpenReturns
  <2> QED BY <2>1, <2>2, QueueFrame
<1>6. ASSUME NEW d \in Dbs, OpenFails(d)
      PROVE  QueueInv'
  <2>1. UNCHANGED <<telling, retired, cleaner>>
    BY <1>6 DEF OpenFails
  <2>2. \A e \in Dbs : state[e] = "retiring" => state'[e] = "retiring"
    BY <1>6 DEF OpenFails
  <2> QED BY <2>1, <2>2, QueueFrame
<1>7. ASSUME NEW d \in Dbs, FailedOpenRetires(d)
      PROVE  QueueInv'
  <2>1. CAS(d) /\ UNCHANGED <<retired, cleaner>>
    BY <1>7 DEF FailedOpenRetires
  <2> QED BY <2>1, QueueRetire
<1>8. ASSUME NEW d \in Dbs, FailedOpenUnrefs(d)
      PROVE  QueueInv'
  <2>1. UNCHANGED <<state, telling, retired, cleaner>>
    BY <1>8 DEF FailedOpenUnrefs
  <2> QED BY <2>1, QueueFrame
<1>9. ASSUME NEW d \in Dbs, OwnerDies(d)
      PROVE  QueueInv'
  <2>1. UNCHANGED <<state, telling, retired, cleaner>>
    BY <1>9 DEF OwnerDies
  <2> QED BY <2>1, QueueFrame
<1>10. ASSUME NEW d \in Dbs, Retire(d)
      PROVE  QueueInv'
  <2>1. CAS(d) /\ UNCHANGED <<retired, cleaner>>
    BY <1>10 DEF Retire
  <2> QED BY <2>1, QueueRetire
<1>11. ASSUME NEW d \in Dbs, Enqueue(d)
      PROVE  QueueInv'
  <2>1. state[d] = "retiring" /\ d # cleaner.db /\ \A i \in 1..Len(retired) : retired[i] # d
    BY <1>11 DEF Enqueue
  <2>2. /\ \A i \in 1..Len(retired') : 
              retired'[i] = d \/ \E k \in 1..Len(retired) : retired'[i] = retired[k]
        /\ \A i, j \in 1..Len(retired') : retired'[i] = retired'[j] => i = j
    <3> DEFINE queue == Append(retired, d)
    <3>0. retired \in Seq(Dbs)
      OBVIOUS
    <3>1. \A i, j \in 1..Len(retired) : retired[i] = retired[j] => i = j
      OBVIOUS
    <3> HIDE DEF Inv, TypeOK, QueueInv, OpenInv
    <3>2. /\ \A i \in 1..Len(queue) : 
                queue[i] = d \/ \E k \in 1..Len(retired) : queue[i] = retired[k]
          /\ \A i, j \in 1..Len(queue) : queue[i] = queue[j] => i = j
      BY <2>1, <3>1, <3>0, AppendNew
    <3>3. retired' = queue
      BY <1>11 DEF Enqueue
    <3> HIDE DEF queue
    <3> QED BY <3>2, <3>3
  <2>3. telling' = telling \ {d} /\ UNCHANGED <<state, cleaner>>
    BY <1>11 DEF Enqueue
  <2>4. \A i \in 1..Len(retired') : /\ state[retired'[i]] = "retiring"
                                    /\ retired'[i] \notin telling' /\ retired'[i] # cleaner.db
    <3>1. /\ \A k \in 1..Len(retired) : state[retired[k]] = "retiring"
          /\ \A k \in 1..Len(retired) : retired[k] \notin telling /\ retired[k] # cleaner.db
      OBVIOUS
    <3> HIDE DEF Inv, TypeOK, QueueInv, OpenInv
    <3> SUFFICES ASSUME NEW i \in 1..Len(retired')
          PROVE  /\ state[retired'[i]] = "retiring"
                 /\ retired'[i] \notin telling' /\ retired'[i] # cleaner.db
      OBVIOUS
    <3>2. CASE retired'[i] = d
      BY <2>1, <2>3, <3>2
    <3>3. ASSUME NEW k \in 1..Len(retired), retired'[i] = retired[k]
          PROVE  /\ state[retired'[i]] = "retiring"
                 /\ retired'[i] \notin telling' /\ retired'[i] # cleaner.db
      BY <2>1, <2>3, <3>1, <3>3
    <3> QED BY <2>2, <3>2, <3>3
  <2> QED BY <2>2, <2>3, <2>4
<1>12. ASSUME NEW d \in Dbs, ReleaseStarts(d)
      PROVE  QueueInv'
  <2>1. CAS(d) /\ UNCHANGED <<retired, cleaner>>
    BY <1>12 DEF ReleaseStarts
  <2> QED BY <2>1, QueueRetire
<1>13. ASSUME NEW d \in Dbs, ReleaseUnrefs(d)
      PROVE  QueueInv'
  <2>1. UNCHANGED <<state, telling, retired, cleaner>>
    BY <1>13 DEF ReleaseUnrefs
  <2> QED BY <2>1, QueueFrame
<1>14. ASSUME NEW d \in Dbs, FetchBegin(d)
      PROVE  QueueInv'
  <2>1. UNCHANGED <<state, telling, retired, cleaner>>
    BY <1>14 DEF FetchBegin
  <2> QED BY <2>1, QueueFrame
<1>15. ASSUME NEW d \in Dbs, FetchEnds(d)
      PROVE  QueueInv'
  <2>1. UNCHANGED <<state, telling, retired, cleaner>>
    BY <1>15 DEF FetchEnds
  <2> QED BY <2>1, QueueFrame
<1>16. ASSUME NEW d \in Dbs, FetchUnrefs(d)
      PROVE  QueueInv'
  <2>1. UNCHANGED <<state, telling, retired, cleaner>>
    BY <1>16 DEF FetchUnrefs
  <2> QED BY <2>1, QueueFrame
<1>17. ASSUME NEW d \in Dbs, WorkersExit(d)
      PROVE  QueueInv'
  <2>1. UNCHANGED <<state, telling, retired, cleaner>>
    BY <1>17 DEF WorkersExit
  <2> QED BY <2>1, QueueFrame
<1>18. CASE Pop
  BY <1>18 DEF Pop
<1>19. CASE Join
  BY <1>19 DEF Join, CleanerAt
<1>20. CASE JoinFails
  BY <1>20 DEF JoinFails
<1>21. CASE DestroyEngine
  BY <1>21 DEF DestroyEngine, CleanerAt
<1>22. CASE Erase
  BY <1>22 DEF Erase, CleanerAt
<1>23. CASE CleanerUnrefs
  <2>1. cleaner.db \in Dbs /\ cleaner'.step = "wait" /\ cleaner'.db = None
    BY <1>23 DEF CleanerUnrefs
  <2>2. \A e \in Dbs : e # cleaner.db => state'[e] = state[e]
    BY <1>23 DEF CleanerUnrefs
  <2>3. UNCHANGED <<telling, retired>>
    BY <1>23 DEF CleanerUnrefs
  <2>4. \A e \in telling : e \in Dbs /\ e # cleaner.db /\ state[e] = "retiring"
    BY <2>1
  <2>5. /\ \A i \in 1..Len(retired) : /\ retired[i] \in Dbs /\ retired[i] # cleaner.db
                                     /\ state[retired[i]] = "retiring" /\ retired[i] \notin telling
        /\ \A i, j \in 1..Len(retired) : retired[i] = retired[j] => i = j
    OBVIOUS
  <2>6. /\ \A e \in telling' : state'[e] = "retiring"
        /\ \A i \in 1..Len(retired') : /\ state'[retired'[i]] = "retiring"
                                       /\ retired'[i] \notin telling' /\ retired'[i] # cleaner'.db
    <3> HIDE DEF Inv, TypeOK, QueueInv, OpenInv
    <3> QED BY <2>1, <2>2, <2>3, <2>4, <2>5
  <2>7. \A i, j \in 1..Len(retired') : retired'[i] = retired'[j] => i = j
    BY <2>3, <2>5
  <2> HIDE DEF Inv, TypeOK, OpenInv
  <2> QED BY <2>1, <2>6, <2>7 DEF QueueInv
<1>24. CASE UNCHANGED vars
  BY <1>24 DEF vars
<1> QED
  BY <1>1, <1>2, <1>3, <1>4, <1>5, <1>6, <1>7, <1>8, <1>9, <1>10, <1>11, <1>12, <1>13, <1>14,
     <1>15, <1>16, <1>17, <1>18, <1>19, <1>20, <1>21, <1>22, <1>23, <1>24
     DEF Next, Cleaning, Opening

\* No step reserves a reserved path, or takes a part away from under what needs it.
LEMMA EngineStep ==
  ASSUME TypeOK, Inv, [Next]_vars
  PROVE  EngineInv'
<1> USE LimitAssumption, NoneAssumption
        DEF Inv, TypeOK, OpenStates, CleanerSteps, openVars, lifeVars, OpenInv, QueueInv,
            EngineInv, NotStarted
<1>1. ASSUME NEW d \in Dbs, Reserve(d)
      PROVE  EngineInv'
  <2>1. ASSUME NEW answer \in {"full", "active", "retiring"}, Refused(d, answer)
        PROVE  EngineInv'
    BY <2>1 DEF Refused
  <2>2. CASE Accepted(d)
    BY <2>2 DEF Accepted, Conflicts
  <2> QED BY <1>1, <2>1, <2>2, ReserveCases
<1>2. ASSUME NEW d \in Dbs, Retry(d)
      PROVE  EngineInv'
  BY <1>2 DEF Retry
<1>3. ASSUME NEW d \in Dbs, CreateEngine(d)
      PROVE  EngineInv'
  BY <1>3 DEF CreateEngine
<1>4. ASSUME NEW d \in Dbs, StartWorkers(d)
      PROVE  EngineInv'
  BY <1>4 DEF StartWorkers
<1>5. ASSUME NEW d \in Dbs, OpenReturns(d)
      PROVE  EngineInv'
  BY <1>5 DEF OpenReturns
<1>6. ASSUME NEW d \in Dbs, OpenFails(d)
      PROVE  EngineInv'
  BY <1>6 DEF OpenFails
<1>7. ASSUME NEW d \in Dbs, FailedOpenRetires(d)
      PROVE  EngineInv'
  BY <1>7 DEF FailedOpenRetires, CAS
<1>8. ASSUME NEW d \in Dbs, FailedOpenUnrefs(d)
      PROVE  EngineInv'
  BY <1>8 DEF FailedOpenUnrefs
<1>9. ASSUME NEW d \in Dbs, OwnerDies(d)
      PROVE  EngineInv'
  BY <1>9 DEF OwnerDies
<1>10. ASSUME NEW d \in Dbs, Retire(d)
      PROVE  EngineInv'
  BY <1>10 DEF Retire, CAS
<1>11. ASSUME NEW d \in Dbs, Enqueue(d)
      PROVE  EngineInv'
  BY <1>11 DEF Enqueue
<1>12. ASSUME NEW d \in Dbs, ReleaseStarts(d)
      PROVE  EngineInv'
  BY <1>12 DEF ReleaseStarts, CAS
<1>13. ASSUME NEW d \in Dbs, ReleaseUnrefs(d)
      PROVE  EngineInv'
  BY <1>13 DEF ReleaseUnrefs
<1>14. ASSUME NEW d \in Dbs, FetchBegin(d)
      PROVE  EngineInv'
  BY <1>14 DEF FetchBegin
<1>15. ASSUME NEW d \in Dbs, FetchEnds(d)
      PROVE  EngineInv'
  BY <1>15 DEF FetchEnds
<1>16. ASSUME NEW d \in Dbs, FetchUnrefs(d)
      PROVE  EngineInv'
  BY <1>16 DEF FetchUnrefs
<1>17. ASSUME NEW d \in Dbs, WorkersExit(d)
      PROVE  EngineInv'
  BY <1>17 DEF WorkersExit
<1>18. CASE Pop
  BY <1>18 DEF Pop
<1>19. CASE Join
  BY <1>19 DEF Join, CleanerAt
<1>20. CASE JoinFails
  BY <1>20 DEF JoinFails
<1>21. CASE DestroyEngine
  BY <1>21 DEF DestroyEngine, CleanerAt
<1>22. CASE Erase
  BY <1>22 DEF Erase, CleanerAt
<1>23. CASE CleanerUnrefs
  BY <1>23 DEF CleanerUnrefs
<1>24. CASE UNCHANGED vars
  BY <1>24 DEF vars
<1> QED
  BY <1>1, <1>2, <1>3, <1>4, <1>5, <1>6, <1>7, <1>8, <1>9, <1>10, <1>11, <1>12, <1>13, <1>14,
     <1>15, <1>16, <1>17, <1>18, <1>19, <1>20, <1>21, <1>22, <1>23, <1>24
     DEF Next, Cleaning, Opening

\* Nothing comes back to a closed database.
LEMMA ClosedStep ==
  ASSUME TypeOK, Inv, [Next]_vars
  PROVE  ClosedIsReleased'
<1> USE LimitAssumption, NoneAssumption
        DEF Inv, TypeOK, OpenStates, CleanerSteps, openVars, lifeVars, OpenInv, QueueInv,
            EngineInv, ClosedIsReleased, NotStarted
<1>1. ASSUME NEW d \in Dbs, Reserve(d)
      PROVE  ClosedIsReleased'
  <2>1. ASSUME NEW answer \in {"full", "active", "retiring"}, Refused(d, answer)
        PROVE  ClosedIsReleased'
    BY <2>1 DEF Refused
  <2>2. CASE Accepted(d)
    BY <2>2 DEF Accepted, Conflicts
  <2> QED BY <1>1, <2>1, <2>2, ReserveCases
<1>2. ASSUME NEW d \in Dbs, Retry(d)
      PROVE  ClosedIsReleased'
  BY <1>2 DEF Retry
<1>3. ASSUME NEW d \in Dbs, CreateEngine(d)
      PROVE  ClosedIsReleased'
  BY <1>3 DEF CreateEngine
<1>4. ASSUME NEW d \in Dbs, StartWorkers(d)
      PROVE  ClosedIsReleased'
  BY <1>4 DEF StartWorkers
<1>5. ASSUME NEW d \in Dbs, OpenReturns(d)
      PROVE  ClosedIsReleased'
  BY <1>5 DEF OpenReturns
<1>6. ASSUME NEW d \in Dbs, OpenFails(d)
      PROVE  ClosedIsReleased'
  BY <1>6 DEF OpenFails
<1>7. ASSUME NEW d \in Dbs, FailedOpenRetires(d)
      PROVE  ClosedIsReleased'
  BY <1>7 DEF FailedOpenRetires, CAS
<1>8. ASSUME NEW d \in Dbs, FailedOpenUnrefs(d)
      PROVE  ClosedIsReleased'
  BY <1>8 DEF FailedOpenUnrefs
<1>9. ASSUME NEW d \in Dbs, OwnerDies(d)
      PROVE  ClosedIsReleased'
  BY <1>9 DEF OwnerDies
<1>10. ASSUME NEW d \in Dbs, Retire(d)
      PROVE  ClosedIsReleased'
  BY <1>10 DEF Retire, CAS
<1>11. ASSUME NEW d \in Dbs, Enqueue(d)
      PROVE  ClosedIsReleased'
  BY <1>11 DEF Enqueue
<1>12. ASSUME NEW d \in Dbs, ReleaseStarts(d)
      PROVE  ClosedIsReleased'
  BY <1>12 DEF ReleaseStarts, CAS
<1>13. ASSUME NEW d \in Dbs, ReleaseUnrefs(d)
      PROVE  ClosedIsReleased'
  BY <1>13 DEF ReleaseUnrefs
<1>14. ASSUME NEW d \in Dbs, FetchBegin(d)
      PROVE  ClosedIsReleased'
  BY <1>14 DEF FetchBegin
<1>15. ASSUME NEW d \in Dbs, FetchEnds(d)
      PROVE  ClosedIsReleased'
  BY <1>15 DEF FetchEnds
<1>16. ASSUME NEW d \in Dbs, FetchUnrefs(d)
      PROVE  ClosedIsReleased'
  BY <1>16 DEF FetchUnrefs
<1>17. ASSUME NEW d \in Dbs, WorkersExit(d)
      PROVE  ClosedIsReleased'
  BY <1>17 DEF WorkersExit
<1>18. CASE Pop
  BY <1>18 DEF Pop
<1>19. CASE Join
  BY <1>19 DEF Join, CleanerAt
<1>20. CASE JoinFails
  BY <1>20 DEF JoinFails
<1>21. CASE DestroyEngine
  BY <1>21 DEF DestroyEngine, CleanerAt
<1>22. CASE Erase
  BY <1>22 DEF Erase, CleanerAt
<1>23. CASE CleanerUnrefs
  BY <1>23 DEF CleanerUnrefs
<1>24. CASE UNCHANGED vars
  BY <1>24 DEF vars
<1> QED
  BY <1>1, <1>2, <1>3, <1>4, <1>5, <1>6, <1>7, <1>8, <1>9, <1>10, <1>11, <1>12, <1>13, <1>14,
     <1>15, <1>16, <1>17, <1>18, <1>19, <1>20, <1>21, <1>22, <1>23, <1>24
     DEF Next, Cleaning, Opening

\* No step forgets the reservation of a database that is open or retiring.
LEMMA ReservedStep ==
  ASSUME TypeOK, Inv, [Next]_vars
  PROVE  ReservedInv'
<1> USE LimitAssumption, NoneAssumption
        DEF Inv, TypeOK, OpenStates, CleanerSteps, openVars, lifeVars, OpenInv, QueueInv,
            ReservedInv, NotStarted
<1>1. ASSUME NEW d \in Dbs, Reserve(d)
      PROVE  ReservedInv'
  <2>1. ASSUME NEW answer \in {"full", "active", "retiring"}, Refused(d, answer)
        PROVE  ReservedInv'
    BY <2>1 DEF Refused
  <2>2. CASE Accepted(d)
    <3>1. IsFiniteSet(databases \cup {d})
      BY FS_AddElement
    <3> QED BY <2>2, <3>1 DEF Accepted
  <2> QED BY <1>1, <2>1, <2>2, ReserveCases
<1>2. ASSUME NEW d \in Dbs, Retry(d)
      PROVE  ReservedInv'
  BY <1>2 DEF Retry
<1>3. ASSUME NEW d \in Dbs, CreateEngine(d)
      PROVE  ReservedInv'
  BY <1>3 DEF CreateEngine
<1>4. ASSUME NEW d \in Dbs, StartWorkers(d)
      PROVE  ReservedInv'
  BY <1>4 DEF StartWorkers
<1>5. ASSUME NEW d \in Dbs, OpenReturns(d)
      PROVE  ReservedInv'
  BY <1>5 DEF OpenReturns, EngineInv
<1>6. ASSUME NEW d \in Dbs, OpenFails(d)
      PROVE  ReservedInv'
  BY <1>6 DEF OpenFails, EngineInv
<1>7. ASSUME NEW d \in Dbs, FailedOpenRetires(d)
      PROVE  ReservedInv'
  BY <1>7 DEF FailedOpenRetires, CAS
<1>8. ASSUME NEW d \in Dbs, FailedOpenUnrefs(d)
      PROVE  ReservedInv'
  BY <1>8 DEF FailedOpenUnrefs
<1>9. ASSUME NEW d \in Dbs, OwnerDies(d)
      PROVE  ReservedInv'
  BY <1>9 DEF OwnerDies
<1>10. ASSUME NEW d \in Dbs, Retire(d)
      PROVE  ReservedInv'
  BY <1>10 DEF Retire, CAS
<1>11. ASSUME NEW d \in Dbs, Enqueue(d)
      PROVE  ReservedInv'
  BY <1>11 DEF Enqueue
<1>12. ASSUME NEW d \in Dbs, ReleaseStarts(d)
      PROVE  ReservedInv'
  BY <1>12 DEF ReleaseStarts, CAS
<1>13. ASSUME NEW d \in Dbs, ReleaseUnrefs(d)
      PROVE  ReservedInv'
  BY <1>13 DEF ReleaseUnrefs
<1>14. ASSUME NEW d \in Dbs, FetchBegin(d)
      PROVE  ReservedInv'
  BY <1>14 DEF FetchBegin
<1>15. ASSUME NEW d \in Dbs, FetchEnds(d)
      PROVE  ReservedInv'
  BY <1>15 DEF FetchEnds
<1>16. ASSUME NEW d \in Dbs, FetchUnrefs(d)
      PROVE  ReservedInv'
  BY <1>16 DEF FetchUnrefs
<1>17. ASSUME NEW d \in Dbs, WorkersExit(d)
      PROVE  ReservedInv'
  BY <1>17 DEF WorkersExit
<1>18. CASE Pop
  BY <1>18 DEF Pop
<1>19. CASE Join
  BY <1>19 DEF Join, CleanerAt
<1>20. CASE JoinFails
  BY <1>20 DEF JoinFails
<1>21. CASE DestroyEngine
  BY <1>21 DEF DestroyEngine, CleanerAt
<1>22. CASE Erase
  BY <1>22, FS_RemoveElement DEF Erase, CleanerAt
<1>23. CASE CleanerUnrefs
  BY <1>23 DEF CleanerUnrefs
<1>24. CASE UNCHANGED vars
  BY <1>24 DEF vars
<1> QED
  BY <1>1, <1>2, <1>3, <1>4, <1>5, <1>6, <1>7, <1>8, <1>9, <1>10, <1>11, <1>12, <1>13, <1>14,
     <1>15, <1>16, <1>17, <1>18, <1>19, <1>20, <1>21, <1>22, <1>23, <1>24
     DEF Next, Cleaning, Opening

\* No step counts a database wrongly.
LEMMA GaugeStep ==
  ASSUME TypeOK, Inv, [Next]_vars
  PROVE  LiveGauge'
<1> USE LimitAssumption, NoneAssumption
        DEF TypeOK, OpenStates, CleanerSteps, openVars, lifeVars, Inv, LiveGauge, Holds
<1>1. ASSUME NEW d \in Dbs, Reserve(d)
      PROVE  LiveGauge'
  <2>1. ASSUME NEW answer \in {"full", "active", "retiring"}, Refused(d, answer)
        PROVE  LiveGauge'
    BY <2>1 DEF Refused, Inv
  <2>2. CASE Accepted(d)
    <3>1. d \notin databases /\ IsFiniteSet(databases)
      BY <2>2 DEF Accepted, Inv, ReservedInv, NotStarted
    <3>2. Cardinality(databases \cup {d}) = Cardinality(databases) + 1
      BY <3>1, FS_AddElement
    <3> QED BY <2>2, <3>1, <3>2, FS_CardinalityType DEF Accepted, Inv
  <2> QED BY <1>1, <2>1, <2>2, ReserveCases
<1>2. ASSUME NEW d \in Dbs, Retry(d)
      PROVE  LiveGauge'
  BY <1>2 DEF Retry
<1>3. ASSUME NEW d \in Dbs, CreateEngine(d)
      PROVE  LiveGauge'
  BY <1>3 DEF CreateEngine
<1>4. ASSUME NEW d \in Dbs, StartWorkers(d)
      PROVE  LiveGauge'
  BY <1>4 DEF StartWorkers
<1>5. ASSUME NEW d \in Dbs, OpenReturns(d)
      PROVE  LiveGauge'
  BY <1>5 DEF OpenReturns
<1>6. ASSUME NEW d \in Dbs, OpenFails(d)
      PROVE  LiveGauge'
  BY <1>6 DEF OpenFails
<1>7. ASSUME NEW d \in Dbs, FailedOpenRetires(d)
      PROVE  LiveGauge'
  BY <1>7 DEF FailedOpenRetires, CAS
<1>8. ASSUME NEW d \in Dbs, FailedOpenUnrefs(d)
      PROVE  LiveGauge'
  BY <1>8 DEF FailedOpenUnrefs
<1>9. ASSUME NEW d \in Dbs, OwnerDies(d)
      PROVE  LiveGauge'
  BY <1>9 DEF OwnerDies
<1>10. ASSUME NEW d \in Dbs, Retire(d)
      PROVE  LiveGauge'
  BY <1>10 DEF Retire, CAS
<1>11. ASSUME NEW d \in Dbs, Enqueue(d)
      PROVE  LiveGauge'
  BY <1>11 DEF Enqueue
<1>12. ASSUME NEW d \in Dbs, ReleaseStarts(d)
      PROVE  LiveGauge'
  BY <1>12 DEF ReleaseStarts, CAS
<1>13. ASSUME NEW d \in Dbs, ReleaseUnrefs(d)
      PROVE  LiveGauge'
  BY <1>13 DEF ReleaseUnrefs
<1>14. ASSUME NEW d \in Dbs, FetchBegin(d)
      PROVE  LiveGauge'
  BY <1>14 DEF FetchBegin
<1>15. ASSUME NEW d \in Dbs, FetchEnds(d)
      PROVE  LiveGauge'
  BY <1>15 DEF FetchEnds
<1>16. ASSUME NEW d \in Dbs, FetchUnrefs(d)
      PROVE  LiveGauge'
  BY <1>16 DEF FetchUnrefs
<1>17. ASSUME NEW d \in Dbs, WorkersExit(d)
      PROVE  LiveGauge'
  BY <1>17 DEF WorkersExit
<1>18. CASE Pop
  BY <1>18 DEF Pop
<1>19. CASE Join
  BY <1>19 DEF Join, CleanerAt
<1>20. CASE JoinFails
  BY <1>20 DEF JoinFails
<1>21. CASE DestroyEngine
  BY <1>21 DEF DestroyEngine, CleanerAt
<1>22. CASE Erase
  <2>1. cleaner.db \in databases /\ IsFiniteSet(databases)
    BY <1>22 DEF Erase, CleanerAt, Inv, ReservedInv, QueueInv
  <2>2. Cardinality(databases \ {cleaner.db}) = Cardinality(databases) - 1
    <3> HIDE DEF TypeOK, Inv, LiveGauge
    <3> QED BY <2>1, FS_RemoveElement
  <2> QED BY <1>22, <2>1, <2>2, FS_CardinalityType DEF Erase, CleanerAt, Inv
<1>23. CASE CleanerUnrefs
  <2>1. Cardinality(databases) \in Nat
    BY FS_CardinalityType DEF Inv, ReservedInv
  <2> QED BY <1>23, <2>1 DEF CleanerUnrefs, Inv
<1>24. CASE UNCHANGED vars
  BY <1>24 DEF vars
<1> QED
  BY <1>1, <1>2, <1>3, <1>4, <1>5, <1>6, <1>7, <1>8, <1>9, <1>10, <1>11, <1>12, <1>13, <1>14,
     <1>15, <1>16, <1>17, <1>18, <1>19, <1>20, <1>21, <1>22, <1>23, <1>24
     DEF Next, Cleaning, Opening

\* No step loses or invents a reference.
LEMMA RefsStep ==
  ASSUME TypeOK, Inv, [Next]_vars
  PROVE  RefsExact'
<1> USE LimitAssumption, NoneAssumption
        DEF TypeOK, OpenStates, CleanerSteps, openVars, lifeVars, Inv, OpenInv, NotStarted
<1>1. ASSUME NEW d \in Dbs, Reserve(d)
      PROVE  RefsExact'
  <2>1. ASSUME NEW answer \in {"full", "active", "retiring"}, Refused(d, answer)
        PROVE  RefsExact'
    <3>1. \A e \in Dbs : OwnersRef(e)' = OwnersRef(e) /\ RuntimeRef(e)' = RuntimeRef(e)
      BY <2>1 DEF Refused, OwnersRef, RuntimeRef
    <3>2. refs' = refs /\ cursors' = cursors
      BY <2>1 DEF Refused
    <3>3. refs[d] = OwnersRef(d) + RuntimeRef(d) + cursors[d]
      BY DEF RefsExact, OwnersRef, RuntimeRef
    <3> QED BY <3>1, <3>2, <3>3, RefsKept
  <2>2. CASE Accepted(d)
    <3>1. \A e \in Dbs \ {d} : /\ OwnersRef(e)' = OwnersRef(e) /\ RuntimeRef(e)' = RuntimeRef(e)
                                /\ refs'[e] = refs[e] /\ cursors'[e] = cursors[e]
      BY <2>2 DEF Accepted, OwnersRef, RuntimeRef
    <3>2. /\ open'[d] = "building" /\ state'[d] = "opening"
          /\ refs'[d] = 2 /\ cursors'[d] = 0
      BY <2>2 DEF Accepted
    <3>3. OwnersRef(d)' = 1 /\ RuntimeRef(d)' = 1
      BY <3>2 DEF OwnersRef, RuntimeRef, Holds
    <3>4. refs'[d] = OwnersRef(d)' + RuntimeRef(d)' + cursors'[d]
      BY <3>2, <3>3
    <3> QED BY <3>1, <3>4, RefsKept
  <2> QED BY <1>1, <2>1, <2>2, ReserveCases
<1>2. ASSUME NEW d \in Dbs, Retry(d)
      PROVE  RefsExact'
  <2>1. \A e \in Dbs \ {d} : /\ OwnersRef(e)' = OwnersRef(e) /\ RuntimeRef(e)' = RuntimeRef(e)
                              /\ refs'[e] = refs[e] /\ cursors'[e] = cursors[e]
    BY <1>2 DEF Retry, OwnersRef, RuntimeRef
  <2>2. refs[d] = OwnersRef(d) + RuntimeRef(d) + cursors[d]
    BY DEF RefsExact, OwnersRef, RuntimeRef
  <2>3. OwnersRef(d)' = OwnersRef(d) /\ RuntimeRef(d)' = RuntimeRef(d)
    BY <1>2 DEF Retry, OwnersRef, RuntimeRef
  <2>4. refs'[d] = OwnersRef(d)' + RuntimeRef(d)' + cursors'[d]
    BY <1>2, <2>2, <2>3 DEF Retry
  <2> QED BY <2>1, <2>4, RefsKept
<1>3. ASSUME NEW d \in Dbs, CreateEngine(d)
      PROVE  RefsExact'
  BY <1>3 DEF CreateEngine, RefsExact, Holds
<1>4. ASSUME NEW d \in Dbs, StartWorkers(d)
      PROVE  RefsExact'
  BY <1>4 DEF StartWorkers, RefsExact, Holds
<1>5. ASSUME NEW d \in Dbs, OpenReturns(d)
      PROVE  RefsExact'
  <2>1. \A e \in Dbs \ {d} : /\ OwnersRef(e)' = OwnersRef(e) /\ RuntimeRef(e)' = RuntimeRef(e)
                              /\ refs'[e] = refs[e] /\ cursors'[e] = cursors[e]
    BY <1>5 DEF OpenReturns, OwnersRef, RuntimeRef
  <2>2. refs[d] = OwnersRef(d) + RuntimeRef(d) + cursors[d]
    BY DEF RefsExact, OwnersRef, RuntimeRef
  <2>3. OwnersRef(d)' = OwnersRef(d) /\ RuntimeRef(d)' = RuntimeRef(d)
    BY <1>5 DEF OpenReturns, OwnersRef, RuntimeRef
  <2>4. refs'[d] = OwnersRef(d)' + RuntimeRef(d)' + cursors'[d]
    BY <1>5, <2>2, <2>3 DEF OpenReturns
  <2> QED BY <2>1, <2>4, RefsKept
<1>6. ASSUME NEW d \in Dbs, OpenFails(d)
      PROVE  RefsExact'
  <2>1. \A e \in Dbs \ {d} : /\ OwnersRef(e)' = OwnersRef(e) /\ RuntimeRef(e)' = RuntimeRef(e)
                              /\ refs'[e] = refs[e] /\ cursors'[e] = cursors[e]
    BY <1>6 DEF OpenFails, OwnersRef, RuntimeRef
  <2>2. refs[d] = OwnersRef(d) + RuntimeRef(d) + cursors[d]
    BY DEF RefsExact, OwnersRef, RuntimeRef
  <2>3. OwnersRef(d)' = OwnersRef(d) /\ RuntimeRef(d)' = RuntimeRef(d)
    BY <1>6 DEF OpenFails, OwnersRef, RuntimeRef
  <2>4. refs'[d] = OwnersRef(d)' + RuntimeRef(d)' + cursors'[d]
    BY <1>6, <2>2, <2>3 DEF OpenFails
  <2> QED BY <2>1, <2>4, RefsKept
<1>7. ASSUME NEW d \in Dbs, FailedOpenRetires(d)
      PROVE  RefsExact'
  <2>1. \A e \in Dbs \ {d} : /\ OwnersRef(e)' = OwnersRef(e) /\ RuntimeRef(e)' = RuntimeRef(e)
                              /\ refs'[e] = refs[e] /\ cursors'[e] = cursors[e]
    BY <1>7 DEF FailedOpenRetires, CAS, OwnersRef, RuntimeRef
  <2>2. /\ state[d] # "closed" <=> state'[d] # "closed"
        /\ open' = open /\ refs'[d] = refs[d] /\ cursors' = cursors
        /\ handle[d] \in {"held", "releasing"} <=> handle'[d] \in {"held", "releasing"}
    BY <1>7 DEF FailedOpenRetires, CAS
  <2>3. refs[d] = OwnersRef(d) + RuntimeRef(d) + cursors[d]
    BY DEF RefsExact, OwnersRef, RuntimeRef
  <2>4. OwnersRef(d)' = OwnersRef(d) /\ RuntimeRef(d)' = RuntimeRef(d)
    BY <2>2 DEF OwnersRef, RuntimeRef
  <2> QED BY <2>1, <2>2, <2>3, <2>4, RefsKept
<1>8. ASSUME NEW d \in Dbs, FailedOpenUnrefs(d)
      PROVE  RefsExact'
  <2>1. \A e \in Dbs \ {d} : /\ OwnersRef(e)' = OwnersRef(e) /\ RuntimeRef(e)' = RuntimeRef(e)
                              /\ refs'[e] = refs[e] /\ cursors'[e] = cursors[e]
    BY <1>8 DEF FailedOpenUnrefs, OwnersRef, RuntimeRef
  <2>2. /\ open[d] = "failing" /\ open'[d] = "failed" /\ handle[d] = "none" /\ handle'[d] = "none"
        /\ state'[d] = state[d]
        /\ refs'[d] = refs[d] - 1 /\ cursors'[d] = cursors[d]
    BY <1>8 DEF FailedOpenUnrefs
  <2>3. refs[d] = OwnersRef(d) + RuntimeRef(d) + cursors[d]
    BY DEF RefsExact, OwnersRef, RuntimeRef
  <2>4. OwnersRef(d) = 1 /\ OwnersRef(d)' = 0
    BY <2>2 DEF OwnersRef, Holds
  <2>5. RuntimeRef(d)' = RuntimeRef(d) /\ RuntimeRef(d) \in 0..1 /\ cursors[d] \in Nat
    BY <2>2 DEF RuntimeRef, Holds
  <2>6. refs'[d] = OwnersRef(d)' + RuntimeRef(d)' + cursors'[d]
    BY <2>2, <2>3, <2>4, <2>5
  <2> QED BY <2>1, <2>6, RefsKept
<1>9. ASSUME NEW d \in Dbs, OwnerDies(d)
      PROVE  RefsExact'
  BY <1>9 DEF OwnerDies, RefsExact, Holds
<1>10. ASSUME NEW d \in Dbs, Retire(d)
      PROVE  RefsExact'
  <2>1. \A e \in Dbs \ {d} : /\ OwnersRef(e)' = OwnersRef(e) /\ RuntimeRef(e)' = RuntimeRef(e)
                              /\ refs'[e] = refs[e] /\ cursors'[e] = cursors[e]
    BY <1>10 DEF Retire, CAS, OwnersRef, RuntimeRef
  <2>2. /\ state[d] # "closed" <=> state'[d] # "closed"
        /\ open' = open /\ refs'[d] = refs[d] /\ cursors' = cursors
        /\ handle[d] \in {"held", "releasing"} <=> handle'[d] \in {"held", "releasing"}
    BY <1>10 DEF Retire, CAS
  <2>3. refs[d] = OwnersRef(d) + RuntimeRef(d) + cursors[d]
    BY DEF RefsExact, OwnersRef, RuntimeRef
  <2>4. OwnersRef(d)' = OwnersRef(d) /\ RuntimeRef(d)' = RuntimeRef(d)
    BY <2>2 DEF OwnersRef, RuntimeRef
  <2> QED BY <2>1, <2>2, <2>3, <2>4, RefsKept
<1>11. ASSUME NEW d \in Dbs, Enqueue(d)
      PROVE  RefsExact'
  BY <1>11 DEF Enqueue, RefsExact, Holds
<1>12. ASSUME NEW d \in Dbs, ReleaseStarts(d)
      PROVE  RefsExact'
  <2>1. \A e \in Dbs \ {d} : /\ OwnersRef(e)' = OwnersRef(e) /\ RuntimeRef(e)' = RuntimeRef(e)
                              /\ refs'[e] = refs[e] /\ cursors'[e] = cursors[e]
    BY <1>12 DEF ReleaseStarts, CAS, OwnersRef, RuntimeRef
  <2>2. /\ state[d] # "closed" <=> state'[d] # "closed"
        /\ open' = open /\ refs'[d] = refs[d] /\ cursors' = cursors
        /\ handle[d] \in {"held", "releasing"} <=> handle'[d] \in {"held", "releasing"}
    BY <1>12 DEF ReleaseStarts, CAS
  <2>3. refs[d] = OwnersRef(d) + RuntimeRef(d) + cursors[d]
    BY DEF RefsExact, OwnersRef, RuntimeRef
  <2>4. OwnersRef(d)' = OwnersRef(d) /\ RuntimeRef(d)' = RuntimeRef(d)
    BY <2>2 DEF OwnersRef, RuntimeRef
  <2> QED BY <2>1, <2>2, <2>3, <2>4, RefsKept
<1>13. ASSUME NEW d \in Dbs, ReleaseUnrefs(d)
      PROVE  RefsExact'
  <2>1. \A e \in Dbs \ {d} : /\ OwnersRef(e)' = OwnersRef(e) /\ RuntimeRef(e)' = RuntimeRef(e)
                              /\ refs'[e] = refs[e] /\ cursors'[e] = cursors[e]
    BY <1>13 DEF ReleaseUnrefs, OwnersRef, RuntimeRef
  <2>2. /\ handle[d] = "releasing" /\ handle'[d] = "dropped" /\ open[d] = "done"
        /\ open'[d] = "done" /\ state'[d] = state[d]
        /\ refs'[d] = refs[d] - 1 /\ cursors'[d] = cursors[d]
    BY <1>13 DEF ReleaseUnrefs
  <2>3. refs[d] = OwnersRef(d) + RuntimeRef(d) + cursors[d]
    BY DEF RefsExact, OwnersRef, RuntimeRef
  <2>4. OwnersRef(d) = 1 /\ OwnersRef(d)' = 0
    BY <2>2 DEF OwnersRef, Holds
  <2>5. RuntimeRef(d)' = RuntimeRef(d) /\ RuntimeRef(d) \in 0..1 /\ cursors[d] \in Nat
    BY <2>2 DEF RuntimeRef, Holds
  <2>6. refs'[d] = OwnersRef(d)' + RuntimeRef(d)' + cursors'[d]
    BY <2>2, <2>3, <2>4, <2>5
  <2> QED BY <2>1, <2>6, RefsKept
<1>14. ASSUME NEW d \in Dbs, FetchBegin(d)
      PROVE  RefsExact'
  <2>1. \A e \in Dbs \ {d} : /\ OwnersRef(e)' = OwnersRef(e) /\ RuntimeRef(e)' = RuntimeRef(e)
                              /\ refs'[e] = refs[e] /\ cursors'[e] = cursors[e]
    BY <1>14 DEF FetchBegin, OwnersRef, RuntimeRef
  <2>2. refs[d] = OwnersRef(d) + RuntimeRef(d) + cursors[d]
    BY DEF RefsExact, OwnersRef, RuntimeRef
  <2>3. OwnersRef(d)' = OwnersRef(d) /\ RuntimeRef(d)' = RuntimeRef(d)
    BY <1>14 DEF FetchBegin, OwnersRef, RuntimeRef
  <2>4. refs'[d] = OwnersRef(d)' + RuntimeRef(d)' + cursors'[d]
    <3>1. refs'[d] = refs[d] + 1 /\ cursors'[d] = cursors[d] + 1
      BY <1>14 DEF FetchBegin
    <3>2. OwnersRef(d) \in 0..1 /\ RuntimeRef(d) \in 0..1 /\ cursors[d] \in Nat
      BY DEF OwnersRef, RuntimeRef, Holds
    <3> QED BY <2>2, <2>3, <3>1, <3>2
  <2> QED BY <2>1, <2>4, RefsKept
<1>15. ASSUME NEW d \in Dbs, FetchEnds(d)
      PROVE  RefsExact'
  BY <1>15 DEF FetchEnds, RefsExact, Holds
<1>16. ASSUME NEW d \in Dbs, FetchUnrefs(d)
      PROVE  RefsExact'
  <2>1. \A e \in Dbs \ {d} : /\ OwnersRef(e)' = OwnersRef(e) /\ RuntimeRef(e)' = RuntimeRef(e)
                              /\ refs'[e] = refs[e] /\ cursors'[e] = cursors[e]
    BY <1>16 DEF FetchUnrefs, OwnersRef, RuntimeRef
  <2>2. refs[d] = OwnersRef(d) + RuntimeRef(d) + cursors[d]
    BY DEF RefsExact, OwnersRef, RuntimeRef
  <2>3. OwnersRef(d)' = OwnersRef(d) /\ RuntimeRef(d)' = RuntimeRef(d)
    BY <1>16 DEF FetchUnrefs, OwnersRef, RuntimeRef
  <2>4. refs'[d] = OwnersRef(d)' + RuntimeRef(d)' + cursors'[d]
    <3>1. refs'[d] = refs[d] - 1 /\ cursors'[d] = cursors[d] - 1
      BY <1>16 DEF FetchUnrefs
    <3>2. OwnersRef(d) \in 0..1 /\ RuntimeRef(d) \in 0..1 /\ cursors[d] \in Nat
      BY DEF OwnersRef, RuntimeRef, Holds
    <3> QED BY <2>2, <2>3, <3>1, <3>2
  <2> QED BY <2>1, <2>4, RefsKept
<1>17. ASSUME NEW d \in Dbs, WorkersExit(d)
      PROVE  RefsExact'
  BY <1>17 DEF WorkersExit, RefsExact, Holds
<1>18. CASE Pop
  BY <1>18 DEF Pop, RefsExact, Holds
<1>19. CASE Join
  BY <1>19 DEF Join, CleanerAt, RefsExact, Holds
<1>20. CASE JoinFails
  BY <1>20 DEF JoinFails, RefsExact, Holds
<1>21. CASE DestroyEngine
  BY <1>21 DEF DestroyEngine, CleanerAt, RefsExact, Holds
<1>22. CASE Erase
  BY <1>22 DEF Erase, CleanerAt, RefsExact, Holds
<1>23. CASE CleanerUnrefs
  <2>8. cleaner.db \in Dbs /\ state[cleaner.db] = "retiring"
    BY <1>23 DEF CleanerUnrefs, QueueInv
  <2>9. PICK db \in Dbs : db = cleaner.db
    BY <2>8
  <2>0. db = cleaner.db /\ state[db] = "retiring" /\ open[db] \in {"failing", "failed", "done"}
    BY <2>8, <2>9
  <2>1. \A e \in Dbs \ {db} : /\ OwnersRef(e)' = OwnersRef(e) /\ RuntimeRef(e)' = RuntimeRef(e)
                              /\ refs'[e] = refs[e] /\ cursors'[e] = cursors[e]
    BY <1>23, <2>0 DEF CleanerUnrefs, OwnersRef, RuntimeRef
  <2>2. /\ open[db] \in {"failing", "failed", "done"} /\ open'[db] = open[db]
        /\ handle'[db] = handle[db] /\ state[db] = "retiring" /\ state'[db] = "closed"
        /\ refs'[db] = refs[db] - 1 /\ cursors'[db] = cursors[db]
    BY <1>23, <2>0 DEF CleanerUnrefs
  <2>3. refs[db] = OwnersRef(db) + RuntimeRef(db) + cursors[db]
    BY DEF RefsExact, OwnersRef, RuntimeRef
  <2>4. RuntimeRef(db) = 1 /\ RuntimeRef(db)' = 0
    BY <2>2 DEF RuntimeRef, Holds
  <2>5. OwnersRef(db)' = OwnersRef(db) /\ OwnersRef(db) \in 0..1 /\ cursors[db] \in Nat
    BY <2>2 DEF OwnersRef, Holds
  <2>6. refs'[db] = OwnersRef(db)' + RuntimeRef(db)' + cursors'[db]
    BY <2>2, <2>3, <2>4, <2>5
  <2> QED BY <2>1, <2>6, RefsKept
<1>24. CASE UNCHANGED vars
  BY <1>24 DEF vars, RefsExact, Holds
<1> QED
  BY <1>1, <1>2, <1>3, <1>4, <1>5, <1>6, <1>7, <1>8, <1>9, <1>10, <1>11, <1>12, <1>13, <1>14,
     <1>15, <1>16, <1>17, <1>18, <1>19, <1>20, <1>21, <1>22, <1>23, <1>24
     DEF Next, Cleaning, Opening

-----------------------------------------------------------------------------
(* The theorems. *)

\* Every reachable state of the runtime satisfies the types and the inductive invariant.
THEOREM RuntimeInvariant == Spec => [](TypeOK /\ Inv)
<1>1. Init => TypeOK /\ Inv
  BY FS_EmptySet, NoneAssumption, LimitAssumption
     DEF Init, TypeOK, OpenStates, CleanerSteps, Inv, OpenInv, QueueInv, EngineInv,
         ClosedIsReleased, ReservedInv, LiveGauge, RefsExact, Holds, NotStarted
<1>2. TypeOK /\ Inv /\ [Next]_vars => TypeOK' /\ Inv'
  BY TypeStep, OpenStep, QueueStep, EngineStep, ClosedStep, ReservedStep, GaugeStep, RefsStep
     DEF Inv
<1> QED BY <1>1, <1>2, PTL DEF Spec

\* Every variable of the runtime keeps its type; a reference count never drops below zero.
THEOREM RuntimeTypeCorrect == Spec => []TypeOK
BY RuntimeInvariant, PTL

\* Two engines never have the same file open (Runtime::reserve against the cleaner's order of
\* destroying and erasing).
THEOREM PathsExclusive == Spec => []PathExclusive
<1>1. TypeOK /\ Inv => PathExclusive
  BY DEF Inv, EngineInv, PathExclusive
<1> QED BY <1>1, RuntimeInvariant, PTL

\* Whoever calls retire(), and however often, a database is on its way to the cleaner once.
THEOREM QueuedAtMostOnce == Spec => []QueuedOnce
<1>1. ASSUME TypeOK, Inv PROVE QueuedOnce
  <2> SUFFICES ASSUME NEW d \in Dbs
        PROVE LET places == Holds(d \in telling)
                            + Cardinality({i \in DOMAIN retired : retired[i] = d})
                            + Holds(cleaner.db = d)
              IN /\ places <= 1
                 /\ state[d] \in {"opening", "ready", "closed"} => places = 0
    BY DEF QueuedOnce
  <2> DEFINE at == {i \in DOMAIN retired : retired[i] = d}
  <2>1. CASE at = {}
    <3>1. Cardinality(at) = 0
      BY <2>1, FS_EmptySet
    <3> HIDE DEF at
    <3>2. d \in telling \/ cleaner.db = d =>
            state[d] = "retiring" /\ ~(d \in telling /\ cleaner.db = d)
      BY <1>1, NoneAssumption DEF Inv, QueueInv
    <3>3. Holds(d \in telling) + Cardinality(at) + Holds(cleaner.db = d) =
            Holds(d \in telling) + Holds(cleaner.db = d)
      BY <3>1 DEF Holds
    <3> QED BY <3>2, <3>3 DEF Holds, at
  <2>2. CASE at # {}
    <3>1. PICK i \in DOMAIN retired : retired[i] = d
      BY <2>2
    <3>2. DOMAIN retired = 1..Len(retired)
      BY <1>1 DEF TypeOK
    <3>3. d \notin telling /\ cleaner.db # d /\ state[d] = "retiring"
      BY <1>1, <3>1, <3>2 DEF Inv, QueueInv
    <3>4. \A j \in DOMAIN retired : retired[j] = d => j = i
      BY <1>1, <3>1, <3>2 DEF Inv, QueueInv
    <3>5. at = {i}
      BY <3>1, <3>4
    <3>6. Cardinality(at) = 1
      BY <3>5, FS_Singleton
    <3> QED BY <3>3, <3>6 DEF Holds
  <2> QED BY <2>1, <2>2
<1> QED BY <1>1, RuntimeInvariant, PTL

\* A closed database has no threads, no engine and no reservation left, so that a coordinator
\* that polls aphid_closed may report the close, and the path may be opened again.
THEOREM ClosedReleased == Spec => []ClosedIsReleased
BY RuntimeInvariant, PTL DEF Inv

\* aphid_db::refs counts the opener or handle, the runtime and the cursors, no more, no less.
THEOREM ReferencesExact == Spec => []RefsExact
BY RuntimeInvariant, PTL DEF Inv

\* live_databases counts the reserved databases, and the one just erased.
THEOREM GaugeCorrect == Spec => []LiveGauge
BY RuntimeInvariant, PTL DEF Inv
=============================================================================
