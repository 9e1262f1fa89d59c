------------------------------- MODULE Runtime -------------------------------
(***************************************************************************)
(* The process-wide runtime of native/bridge.cpp: opening a database        *)
(* reserves its canonical path, retiring one queues it for the single       *)
(* cleaner thread, and the cleaner joins the workers, destroys the engine   *)
(* and gives the path back.  The BEAM side is the owner process of each     *)
(* database resource, its monitor (database_down), its destructor, and the  *)
(* cursors that operations hold.                                            *)
(*                                                                         *)
(* A database of Dbs is one call of open_configured; a restarted owner      *)
(* opens the same path as another member of Dbs.  The session threads of a  *)
(* database are taken together: they run until all of them were told to     *)
(* stop and no cursor is fetching.                                          *)
(***************************************************************************)
EXTENDS Integers, Sequences, FiniteSets

CONSTANTS Dbs,       \* open_configured calls
          Paths,     \* canonical paths
          Memory,    \* the empty path, never shared
          Limit,     \* databases the runtime admits (64)
          Cursors,   \* bound on concurrent cursors of one database
          None

ASSUME LimitAssumption == Limit \in Nat \ {0} /\ Cursors \in Nat
ASSUME NoneAssumption == None \notin Dbs /\ Memory \notin Paths

VARIABLES
  open,       \* how far open_configured got, and what it returned
  path,       \* the path it was called with
  owner,      \* whether the calling process lives
  handle,     \* the owner's reference: "none", "held", "releasing", "dropped"
  state,      \* aphid_db::state
  refs,       \* aphid_db::refs
  databases,  \* Runtime::databases
  live,       \* live_databases
  telling,    \* databases whose retire() is between its CAS and the queue
  retired,    \* the retirement queue
  cleaner,    \* the cleaner thread: what it does, to which database
  engine,     \* databases with a live engine
  workers,    \* databases with running session threads
  stopped,    \* databases whose sessions were all told to stop
  fetching,   \* cursors that keep a worker from cleaning up
  cursors     \* cursors that still hold a reference

openVars  == <<open, path, owner, handle>>
lifeVars  == <<engine, workers, stopped>>
vars == <<openVars, state, refs, databases, live, telling, retired, cleaner, lifeVars,
          fetching, cursors>>

OpenStates == {"none", "building", "failing", "failed", "done", "active", "retiring", "full"}
CleanerSteps == {"wait", "join", "destroy", "erase", "unref"}

\* The type invariant.
TypeOK ==
  /\ open \in [Dbs -> OpenStates]
  /\ path \in [Dbs -> Paths \cup {Memory}]
  /\ owner \in [Dbs -> {"alive", "dead"}]
  /\ handle \in [Dbs -> {"none", "held", "releasing", "dropped"}]
  /\ state \in [Dbs -> {"opening", "ready", "retiring", "closed"}]
  /\ refs \in [Dbs -> Nat]
  /\ databases \subseteq Dbs /\ telling \subseteq Dbs
  /\ live \in Int
  /\ retired \in Seq(Dbs)
  /\ cleaner \in [step: CleanerSteps, db: Dbs \cup {None}]
  /\ engine \subseteq Dbs /\ workers \subseteq Dbs /\ stopped \subseteq Dbs
  /\ fetching \in [Dbs -> 0..Cursors] /\ cursors \in [Dbs -> 0..Cursors]

Init ==
  /\ open = [d \in Dbs |-> "none"]
  /\ path \in [Dbs -> Paths \cup {Memory}]
  /\ owner = [d \in Dbs |-> "alive"]
  /\ handle = [d \in Dbs |-> "none"]
  /\ state = [d \in Dbs |-> "opening"]
  /\ refs = [d \in Dbs |-> 0]
  /\ databases = {} /\ telling = {} /\ live = 0
  /\ retired = <<>>
  /\ cleaner = [step |-> "wait", db |-> None]
  /\ engine = {} /\ workers = {} /\ stopped = {}
  /\ fetching = [d \in Dbs |-> 0] /\ cursors = [d \in Dbs |-> 0]

-----------------------------------------------------------------------------
(* aphid_open_configured *)

\* Fault: a path counts as free once its database is retiring.
ConflictsUnlessRetiring(d) ==
  {e \in databases : path[d] # Memory /\ path[e] = path[d] /\ state[e] # "retiring"}

Conflicts(d) == {e \in databases : path[d] # Memory /\ path[e] = path[d]}

\* Runtime::reserve.  The new object starts with one reference; the runtime adds one.
Reserve(d) ==
  /\ open[d] = "none" /\ owner[d] = "alive"
  /\ IF Conflicts(d) # {} \/ Cardinality(databases) = Limit
     THEN /\ open' = [open EXCEPT ![d] =
                        IF Conflicts(d) = {} THEN "full"
                        ELSE IF \E e \in Conflicts(d) : state[e] = "retiring"
                        THEN "retiring" ELSE "active"]
          /\ UNCHANGED <<refs, databases, live>>
     ELSE /\ open' = [open EXCEPT ![d] = "building"]
          /\ refs' = [refs EXCEPT ![d] = 2]
          /\ databases' = databases \cup {d}
          /\ live' = live + 1
  /\ UNCHANGED <<path, owner, handle, state, telling, retired, cleaner, lifeVars, fetching,
                 cursors>>

\* Database.open/3: an owner told that the path is retiring sleeps and calls again.
Retry(d) ==
  /\ open[d] = "retiring" /\ owner[d] = "alive"
  /\ open' = [open EXCEPT ![d] = "none"]
  /\ UNCHANGED <<path, owner, handle, state, refs, databases, live, telling, retired, cleaner,
                 lifeVars, fetching, cursors>>

CreateEngine(d) ==
  /\ open[d] = "building" /\ d \notin engine
  /\ engine' = engine \cup {d}
  /\ UNCHANGED <<openVars, state, refs, databases, live, telling, retired, cleaner, workers,
                 stopped, fetching, cursors>>

\* Sessions and their threads, some or all of them.
StartWorkers(d) ==
  /\ open[d] = "building" /\ d \in engine /\ d \notin workers
  /\ workers' = workers \cup {d}
  /\ UNCHANGED <<openVars, state, refs, databases, live, telling, retired, cleaner, engine,
                 stopped, fetching, cursors>>

\* The resource takes over the reference; with the owner dead already it is destroyed.
OpenReturns(d) ==
  /\ open[d] = "building" /\ d \in workers
  /\ open' = [open EXCEPT ![d] = "done"]
  /\ handle' = [handle EXCEPT ![d] = "held"]
  /\ state' = [state EXCEPT ![d] = "ready"]
  /\ UNCHANGED <<path, owner, refs, databases, live, telling, retired, cleaner, lifeVars,
                 fetching, cursors>>

\* Failure after the reservation: state 1, so that retire() accepts it, then unref.
OpenFails(d) ==
  /\ open[d] = "building"
  /\ open' = [open EXCEPT ![d] = "failing"]
  /\ state' = [state EXCEPT ![d] = "ready"]
  /\ UNCHANGED <<path, owner, handle, refs, databases, live, telling, retired, cleaner, lifeVars,
                 fetching, cursors>>

\* Fault: the state is set without a comparison.
SetRetiring(d) == state' = [state EXCEPT ![d] = "retiring"] /\ telling' = telling \cup {d}

\* Runtime::retire up to and including its compare-and-swap.
CAS(d) == IF state[d] = "ready"
          THEN state' = [state EXCEPT ![d] = "retiring"] /\ telling' = telling \cup {d}
          ELSE UNCHANGED <<state, telling>>

FailedOpenRetires(d) ==
  /\ open[d] = "failing" /\ state[d] = "ready"
  /\ CAS(d)
  /\ UNCHANGED <<openVars, refs, databases, live, retired, cleaner, lifeVars, fetching, cursors>>

FailedOpenUnrefs(d) ==
  /\ open[d] = "failing" /\ state[d] # "ready" /\ d \notin telling
  /\ open' = [open EXCEPT ![d] = "failed"]
  /\ refs' = [refs EXCEPT ![d] = @ - 1]
  /\ UNCHANGED <<path, owner, handle, state, databases, live, telling, retired, cleaner, lifeVars,
                 fetching, cursors>>

(* Owners, handles and cursors. *)

OwnerDies(d) ==
  /\ owner[d] = "alive" /\ open[d] # "none"
  /\ owner' = [owner EXCEPT ![d] = "dead"]
  /\ UNCHANGED <<open, path, handle, state, refs, databases, live, telling, retired, cleaner,
                 lifeVars, fetching, cursors>>

\* Native.close, or database_down once the owner is dead: both call aphid_retire.
Retire(d) ==
  /\ handle[d] = "held" /\ state[d] = "ready"
  /\ CAS(d)
  /\ UNCHANGED <<openVars, refs, databases, live, retired, cleaner, lifeVars, fetching, cursors>>

\* Fault: the sessions are not told.
EnqueueOnly(d) ==
  /\ d \in telling
  /\ telling' = telling \ {d}
  /\ retired' = Append(retired, d)
  /\ UNCHANGED <<openVars, state, refs, databases, live, cleaner, lifeVars, fetching, cursors>>

\* The rest of retire(): every session is told, the database is queued.
Enqueue(d) ==
  /\ d \in telling
  /\ telling' = telling \ {d}
  /\ stopped' = stopped \cup {d}
  /\ retired' = Append(retired, d)
  /\ UNCHANGED <<openVars, state, refs, databases, live, cleaner, engine, workers, fetching,
                 cursors>>

\* database_dtor: aphid_release retires and drops the reference.  Operations keep the
\* resource alive, so no cursor is open.
ReleaseStarts(d) ==
  /\ handle[d] = "held" /\ owner[d] = "dead" /\ fetching[d] = 0
  /\ handle' = [handle EXCEPT ![d] = "releasing"]
  /\ CAS(d)
  /\ UNCHANGED <<open, path, owner, refs, databases, live, retired, cleaner, lifeVars, fetching,
                 cursors>>

ReleaseUnrefs(d) ==
  /\ handle[d] = "releasing" /\ d \notin telling
  /\ handle' = [handle EXCEPT ![d] = "dropped"]
  /\ refs' = [refs EXCEPT ![d] = @ - 1]
  /\ UNCHANGED <<open, path, owner, state, databases, live, telling, retired, cleaner, lifeVars,
                 fetching, cursors>>

\* Fault: a cursor takes no reference.
FetchBeginUnowned(d) ==
  /\ handle[d] = "held" /\ state[d] = "ready" /\ d \notin stopped
  /\ cursors[d] < Cursors
  /\ fetching' = [fetching EXCEPT ![d] = @ + 1]
  /\ cursors' = [cursors EXCEPT ![d] = @ + 1]
  /\ UNCHANGED <<openVars, state, refs, databases, live, telling, retired, cleaner, lifeVars>>

\* aphid_fetch_begin and the two halves of aphid_fetch_end.
FetchBegin(d) ==
  /\ handle[d] = "held" /\ state[d] = "ready" /\ d \notin stopped
  /\ cursors[d] < Cursors
  /\ fetching' = [fetching EXCEPT ![d] = @ + 1]
  /\ cursors' = [cursors EXCEPT ![d] = @ + 1]
  /\ refs' = [refs EXCEPT ![d] = @ + 1]
  /\ UNCHANGED <<openVars, state, databases, live, telling, retired, cleaner, lifeVars>>

FetchEnds(d) ==
  /\ fetching[d] > 0
  /\ fetching' = [fetching EXCEPT ![d] = @ - 1]
  /\ UNCHANGED <<openVars, state, refs, databases, live, telling, retired, cleaner, lifeVars,
                 cursors>>

FetchUnrefs(d) ==
  /\ cursors[d] > fetching[d]
  /\ cursors' = [cursors EXCEPT ![d] = @ - 1]
  /\ refs' = [refs EXCEPT ![d] = @ - 1]
  /\ UNCHANGED <<openVars, state, databases, live, telling, retired, cleaner, lifeVars, fetching>>

WorkersExit(d) ==
  /\ d \in workers /\ d \in stopped /\ fetching[d] = 0
  /\ workers' = workers \ {d}
  /\ UNCHANGED <<openVars, state, refs, databases, live, telling, retired, cleaner, engine, stopped,
                 fetching, cursors>>

-----------------------------------------------------------------------------
(* Runtime::clean *)

CleanerAt(step, next) == cleaner.step = step /\ cleaner' = [cleaner EXCEPT !.step = next]

Pop ==
  /\ cleaner.step = "wait" /\ retired # <<>>
  /\ cleaner' = [step |-> "join", db |-> Head(retired)]
  /\ retired' = Tail(retired)
  /\ UNCHANGED <<openVars, state, refs, databases, live, telling, lifeVars, fetching, cursors>>

Join ==
  /\ CleanerAt("join", "destroy")
  /\ cleaner.db \notin workers
  /\ UNCHANGED <<openVars, state, refs, databases, live, telling, retired, lifeVars, fetching,
                 cursors>>

\* A thread that cannot be joined quarantines its database for good.
JoinFails ==
  /\ cleaner.step = "join"
  /\ cleaner' = [step |-> "wait", db |-> None]
  /\ UNCHANGED <<openVars, state, refs, databases, live, telling, retired, lifeVars, fetching,
                 cursors>>

\* Fault: the database is called closed while its path is still reserved.
DestroyEngineCloses ==
  /\ CleanerAt("destroy", "erase")
  /\ engine' = engine \ {cleaner.db}
  /\ state' = [state EXCEPT ![cleaner.db] = "closed"]
  /\ UNCHANGED <<openVars, refs, databases, live, telling, retired, workers, stopped,
                 fetching, cursors>>

DestroyEngine ==
  /\ CleanerAt("destroy", "erase")
  /\ engine' = engine \ {cleaner.db}
  /\ UNCHANGED <<openVars, state, refs, databases, live, telling, retired, workers, stopped,
                 fetching, cursors>>

Erase ==
  /\ CleanerAt("erase", "unref")
  /\ databases' = databases \ {cleaner.db}
  /\ UNCHANGED <<openVars, state, refs, live, telling, retired, lifeVars, fetching, cursors>>

CleanerUnrefs ==
  /\ cleaner.step = "unref"
  /\ cleaner' = [step |-> "wait", db |-> None]
  /\ live' = live - 1
  /\ state' = [state EXCEPT ![cleaner.db] = "closed"]
  /\ refs' = [refs EXCEPT ![cleaner.db] = @ - 1]
  /\ UNCHANGED <<openVars, databases, telling, retired, lifeVars, fetching, cursors>>

Cleaning == Pop \/ Join \/ DestroyEngine \/ Erase \/ CleanerUnrefs

Opening(d) == CreateEngine(d) \/ StartWorkers(d) \/ OpenReturns(d)

Next ==
  \/ \E d \in Dbs :
       \/ Reserve(d) \/ Retry(d) \/ Opening(d) \/ OpenFails(d)
       \/ FailedOpenRetires(d) \/ FailedOpenUnrefs(d)
       \/ OwnerDies(d) \/ Retire(d) \/ Enqueue(d) \/ ReleaseStarts(d) \/ ReleaseUnrefs(d)
       \/ FetchBegin(d) \/ FetchEnds(d) \/ FetchUnrefs(d) \/ WorkersExit(d)
  \/ Cleaning \/ JoinFails

Spec == Init /\ [][Next]_vars

(***************************************************************************)
(* Fairness.  A dirty open returns, a dead owner's monitor fires, a cursor *)
(* ends, threads told to stop exit (NativeSession!RetiredWorkerExits), the *)
(* cleaner runs.  A join may fail at any time.                              *)
(***************************************************************************)
Fairness ==
  /\ \A d \in Dbs :
       /\ WF_vars(Opening(d))
       /\ WF_vars(FailedOpenRetires(d)) /\ WF_vars(FailedOpenUnrefs(d))
       /\ WF_vars(owner[d] = "dead" /\ Retire(d)) /\ WF_vars(Enqueue(d))
       /\ WF_vars(FetchEnds(d)) /\ WF_vars(WorkersExit(d))
  /\ WF_vars(Cleaning)

FairSpec == Spec /\ Fairness

-----------------------------------------------------------------------------
(* Safety. *)

\* Two engines never have the same file open, across failed opens, retirement, dead owners
\* and restarts: the path stays reserved until the engine is destroyed.
PathExclusive ==
  \A d, e \in engine : d # e => path[d] # path[e] \/ path[d] = Memory

\* Session threads only run while their engine exists.
WorkersHaveEngine == workers \subseteq engine

Holds(b) == IF b THEN 1 ELSE 0

\* The reference count is exactly the opener's or the handle's reference, the runtime's,
\* and one per cursor; so an aphid_db is deleted when the last of them lets go, not before.
RefsExact ==
  \A d \in Dbs :
    refs[d] = Holds(open[d] \in {"building", "failing"} \/ handle[d] \in {"held", "releasing"})
              + Holds(open[d] \in {"building", "failing", "failed", "done"} /\ state[d] # "closed")
              + cursors[d]

\* A retiring database is on its way to the cleaner exactly once, or quarantined.
QueuedOnce ==
  \A d \in Dbs :
    LET places == Holds(d \in telling) + Cardinality({i \in DOMAIN retired : retired[i] = d})
                  + Holds(cleaner.db = d)
    IN /\ places <= 1
       /\ state[d] \in {"opening", "ready", "closed"} => places = 0

\* Closed, as the coordinator polls it before close answers :ok: no thread, no engine, no
\* reservation, so that the same path can be opened at once.
ClosedIsReleased ==
  \A d \in Dbs : state[d] = "closed" => d \notin workers \cup engine \cup databases

\* The gauge that Aphid reports counts the reserved databases and at most the one the
\* cleaner has just erased.
LiveGauge == live = Cardinality(databases) + Holds(cleaner.step = "unref")

\* A start is refused as "active" only on behalf of an owner that is alive.
RestartWaits ==
  [][\A d \in Dbs : open[d] = "none" /\ open'[d] = "active"
       => \E e \in Conflicts(d) : owner[e] = "alive"]_vars

\* Liveness, under FairSpec.

\* A thread of the database could not be joined: it is kept for good.
Quarantined(d) ==
  /\ state[d] = "retiring" /\ d \in stopped
  /\ d \notin telling /\ cleaner.db # d /\ \A i \in DOMAIN retired : retired[i] # d

\* Retirement completes, and when the owner of a database dies, whatever it was doing, its
\* path becomes free again; only a thread that cannot be joined keeps its database, and no
\* other one behind it.
RetirementEnds ==
  \A d \in Dbs : (state[d] = "retiring" \/ (owner[d] = "dead" /\ d \in databases))
                 ~> (d \notin databases /\ state[d] # "retiring") \/ Quarantined(d)
=============================================================================
