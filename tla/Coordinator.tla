----------------------------- MODULE Coordinator -----------------------------
(***************************************************************************)
(* The database coordinator (lib/aphid/database.ex), a GenServer that       *)
(* admits calls, queues them, gives each one a native session and a runner  *)
(* process, and takes the session back once the runner has exited and the   *)
(* native session is idle.  A job is one admitted call; its caller, its     *)
(* runner, its timer, the native session and the mailbox take steps of      *)
(* their own.  Each handler is one action, because a GenServer runs it      *)
(* whole; `coord` is the server state together with the replies and exit    *)
(* signals it has sent.                                                     *)
(*                                                                         *)
(* A transaction is scheduled like a query here; its phases and outcomes    *)
(* are the subject of module Transaction.  The native sessions are those of *)
(* module NativeSession, reduced to who occupies them.                      *)
(***************************************************************************)
EXTENDS Integers, Sequences, FiniteSets

CONSTANTS Jobs,      \* calls that may reach the coordinator
          Closers,   \* processes that may call Aphid.close
          Sessions,  \* native sessions of the database
          Capacity,  \* queue_capacity
          Kinds,     \* the kinds of calls that are made
          None

ASSUME CapacityAssumption == Capacity \in Nat
ASSUME KindsAssumption == Kinds \subseteq {"query", "stream"}
ASSUME SessionsAssumption == IsFiniteSet(Sessions)
ASSUME NoneAssumption == None \notin Jobs \cup Closers \cup Sessions

VARIABLES
  coord,    \* the server state, and the replies and exit signals sent so far
  late,     \* jobs whose deadline has passed
  gone,     \* jobs whose caller has died
  expire,   \* {:expire, id, generation} messages of the current generation
  finished, \* {:finished, id, result} messages
  wanted,   \* {:next, id} messages on their way to a stream runner
  runner,   \* the state of each runner process
  slot,     \* the session a runner was started for
  zombies,  \* runners killed inside a dirty submit that has not reserved yet
  holder,   \* per native session: the job whose operation or lease occupies it
  broken,   \* native sessions whose worker thread has failed
  native    \* the native database: "ready", "retiring", "closed"

procVars == <<finished, wanted, runner, slot, zombies>>
nativeVars == <<holder, broken, native>>
vars == <<coord, late, gone, expire, procVars, nativeVars>>

Asks    == {"none", "open", "next", "release"}
Replies == {"none", "ok", "end"}  \* "ok": a stream may be asked for more; "end": anything else
Runners == {"none", "entering", "holding", "serving", "finished", "dead"}

\* The fields of a job that decide anything.
JobType == [kind: {"query", "stream"}, from: BOOLEAN, release: BOOLEAN, timer: BOOLEAN,
            watched: BOOLEAN, session: Sessions \cup {None}, worker: BOOLEAN]
NoJob == [kind |-> "query", from |-> FALSE, release |-> FALSE, timer |-> FALSE,
          watched |-> FALSE, session |-> None, worker |-> FALSE]

CoordType ==
  [jobs: SUBSET Jobs, job: [Jobs -> JobType], queue: Seq(Jobs), free: [Sessions -> Nat],
   mode: {"open", "closing", "closed"}, closer: Closers \cup {None}, poll: BOOLEAN,
   streams: SUBSET Jobs, asks: [Jobs -> Asks], reply: [Jobs -> Replies], kills: SUBSET Jobs,
   closing: [Closers -> {"none", "waiting", "ok", "timeout", "busy"}]]

\* The type invariant.
TypeOK ==
  /\ coord \in CoordType
  /\ late \subseteq Jobs /\ gone \subseteq Jobs
  /\ expire \subseteq Jobs /\ finished \subseteq Jobs /\ wanted \subseteq Jobs
  /\ runner \in [Jobs -> Runners]
  /\ slot \in [Jobs -> Sessions \cup {None}]
  /\ zombies \subseteq Jobs
  /\ holder \in [Sessions -> Jobs \cup {None}]
  /\ broken \subseteq Sessions
  /\ native \in {"ready", "retiring", "closed"}

Init ==
  /\ coord = [jobs |-> {}, job |-> [j \in Jobs |-> NoJob], queue |-> <<>>,
              free |-> [s \in Sessions |-> 1], mode |-> "open", closer |-> None,
              poll |-> FALSE, streams |-> {}, asks |-> [j \in Jobs |-> "none"],
              reply |-> [j \in Jobs |-> "none"], kills |-> {},
              closing |-> [c \in Closers |-> "none"]]
  /\ late = {} /\ gone = {} /\ expire = {} /\ finished = {} /\ wanted = {}
  /\ runner = [j \in Jobs |-> "none"]
  /\ slot = [j \in Jobs |-> None]
  /\ zombies = {}
  /\ holder = [s \in Sessions |-> None]
  /\ broken = {}
  /\ native = "ready"

-----------------------------------------------------------------------------
(* Functions of the server state, used by the handlers below. *)

\* Native.state of a session: 0, 3, or anything else.
NativeState(s) == IF native # "ready" \/ s \in broken THEN "retired"
                  ELSE IF holder[s] = None THEN "idle" ELSE "busy"

\* Fault: nothing polls a database that is closing without jobs.
ScheduleForJobs(c) == [c EXCEPT !.poll = @ \/ c.jobs # {}]

\* Fault: only a closing database is polled.
ScheduleForClose(c) == [c EXCEPT !.poll = @ \/ c.mode = "closing"]

\* schedule/1
Schedule(c) == [c EXCEPT !.poll = @ \/ c.jobs # {} \/ c.mode = "closing"]

\* GenServer.reply to the callers of the jobs in S.
ReplyTo(c, S, code) ==
  [c EXCEPT !.asks  = [j \in Jobs |-> IF j \in S THEN "none" ELSE c.asks[j]],
            !.reply = [j \in Jobs |-> IF j \in S THEN code ELSE c.reply[j]]]

\* answer/2: the pending call, if any, and then its timer.
Answer(c, j, code) ==
  IF c.job[j].from THEN [ReplyTo(c, {j}, code) EXCEPT !.job[j].timer = FALSE] ELSE c

\* Fault: a job that leaves stays in the queue.
RemoveKeepsQueue(c, S) ==
  LET answered == ReplyTo(c, {j \in S : c.job[j].release}, "end")
  IN [answered EXCEPT
        !.jobs  = @ \ S,
        !.job   = [j \in Jobs |-> IF j \in S THEN NoJob ELSE @[j]],
        !.free  = [s \in Sessions |-> @[s] + Cardinality({j \in S : c.job[j].session = s})]]

\* The jobs of a queue that are not in S, in their order (:queue.filter). Defined by
\* counting; of SelectSeq the provers know nothing.
Without(q, S) ==
  LET kept     == {i \in DOMAIN q : q[i] \notin S}
      Place(i) == Cardinality({k \in kept : k <= i})
  IN [n \in 1..Cardinality(kept) |-> q[CHOOSE i \in kept : Place(i) = n]]

\* remove/3 for every job of S.
Remove(c, S) ==
  LET answered == ReplyTo(c, {j \in S : c.job[j].release}, "end")
  IN [answered EXCEPT
        !.jobs  = @ \ S,
        !.job   = [j \in Jobs |-> IF j \in S THEN NoJob ELSE @[j]],
        !.queue = Without(@, S),
        !.free  = [s \in Sessions |-> @[s] + Cardinality({j \in S : c.job[j].session = s})]]

\* cancel/3 for every job of S; "silent" stands for a nil response.
Cancel(c, S, response) ==
  LET C        == S \cap c.jobs
      owed     == {j \in C : c.job[j].from \/ c.job[j].release}
      answered == IF response = "silent" THEN c ELSE ReplyTo(c, owed, response)
      stopped  == [answered EXCEPT
        !.kills = @ \cup {j \in C : c.job[j].worker /\ runner[j] # "dead"},
        !.job   = [j \in Jobs |->
          IF j \in C
          THEN [@[j] EXCEPT !.from = FALSE, !.timer = FALSE,
                            !.release = c.job[j].release /\ response = "silent"]
          ELSE @[j]]]
  IN Remove(stopped, {j \in C : c.job[j].session = None})

FreeSessions(c) == {s \in Sessions : c.free[s] > 0}

\* How far dispatch/1 gets down the queue: jobs that are late are dropped on the way, the
\* others take a free session each until none is left.
InTime(c, k) == {i \in 1..k : c.queue[i] \notin late}
DispatchEnd(c, k) ==
  LET room == Cardinality(FreeSessions(c))
  IN /\ Cardinality(InTime(c, k)) <= room
     /\ k < Len(c.queue) => Cardinality(InTime(c, k)) = room
     /\ (k > 0 /\ Cardinality(InTime(c, k)) = room) => k \in InTime(c, k)

\* dispatch/1: the possible results, since the order of the free list is not modelled.
Dispatched(c) ==
  LET k       == CHOOSE n \in 0..Len(c.queue) : DispatchEnd(c, n)
      started == {c.queue[i] : i \in InTime(c, k)}
      dropped == {c.queue[i] : i \in 1..k} \ started
      popped  == [c EXCEPT !.queue = SubSeq(@, k + 1, Len(@))]
      rest    == Cancel(popped, dropped, "end")
      Running(at) == [rest EXCEPT
        !.free = [s \in Sessions |-> @[s] - Cardinality({j \in started : at[j] = s})],
        !.job  = [j \in Jobs |-> IF j \in started
                                 THEN [@[j] EXCEPT !.session = at[j], !.worker = TRUE]
                                 ELSE @[j]]]
  IN IF started = {} THEN {rest}
     ELSE {Schedule(Running(at)) :
             at \in {f \in [started -> FreeSessions(c)] :
                       \A i, j \in started : f[i] = f[j] => i = j}}

-----------------------------------------------------------------------------
(* Handlers of calls. *)

Unchanged == UNCHANGED <<late, gone, procVars, nativeVars>>

\* Fault: the newest job is put in front.
AdmitInFront(j, kind) ==
  LET refused == \/ coord.mode # "open" \/ j \in late
                 \/ FreeSessions(coord) = {} /\ Len(coord.queue) >= Capacity
      queued == [coord EXCEPT
        !.jobs = @ \cup {j},
        !.asks[j] = "open",
        !.job[j] = [NoJob EXCEPT !.kind = kind, !.from = TRUE, !.timer = TRUE, !.watched = TRUE],
        !.queue = <<j>> \o @]
  IN /\ coord.asks[j] = "none" /\ coord.reply[j] = "none"
     /\ IF refused THEN coord' = [coord EXCEPT !.reply[j] = "end"]
        ELSE coord' \in Dispatched(queued)
     /\ UNCHANGED expire /\ Unchanged

\* {:query, ...}, {:transaction, ...} and {:stream, ...}; the call may have been sent by a
\* process that is dead by now, and may arrive after its deadline.
Admit(j, kind) ==
  LET refused == \/ coord.mode # "open" \/ j \in late
                 \/ FreeSessions(coord) = {} /\ Len(coord.queue) >= Capacity
      queued == [coord EXCEPT
        !.jobs = @ \cup {j},
        !.asks[j] = "open",
        !.job[j] = [NoJob EXCEPT !.kind = kind, !.from = TRUE, !.timer = TRUE, !.watched = TRUE],
        !.queue = Append(@, j)]
  IN /\ coord.asks[j] = "none" /\ coord.reply[j] = "none"
     /\ IF refused THEN coord' = [coord EXCEPT !.reply[j] = "end"]
        ELSE coord' \in Dispatched(queued)
     /\ UNCHANGED expire /\ Unchanged

\* An owner that has its handle (coord.streams) asks for batches until one call fails or
\* ends the stream, and releases the stream once, at the end or earlier.
StreamNext(j) ==
  LET asked == [coord EXCEPT !.asks[j] = "next", !.job[j].from = TRUE]
  IN /\ j \in coord.streams \ gone /\ coord.asks[j] = "none" /\ coord.reply[j] = "ok"
     /\ IF j \in coord.jobs /\ coord.job[j].worker
        THEN IF j \in late
             THEN coord' = Schedule(Cancel(asked, {j}, "end")) /\ UNCHANGED wanted
             ELSE /\ coord' = asked
                  /\ wanted' = IF runner[j] = "dead" THEN wanted ELSE wanted \cup {j}
        ELSE coord' = [coord EXCEPT !.reply[j] = "end"] /\ UNCHANGED wanted
     /\ UNCHANGED <<late, gone, expire, finished, runner, slot, zombies, nativeVars>>

StreamRelease(j) ==
  LET left == [coord EXCEPT !.streams = @ \ {j}]
      waiting == [Cancel(left, {j}, "silent") EXCEPT
                    !.asks[j] = "release", !.job[j].release = TRUE, !.job[j].timer = TRUE]
  IN /\ j \in coord.streams \ gone /\ coord.asks[j] = "none"
     /\ IF j \in coord.jobs
        THEN coord' = Schedule(waiting) /\ expire' = expire \ {j}
        ELSE coord' = [left EXCEPT !.reply[j] = "end"] /\ UNCHANGED expire
     /\ Unchanged

\* {:stream_ready, id} and {:stream_batch, id, result, done}, called by the runner.
StreamReady(j) ==
  /\ runner[j] = "holding" /\ j \in coord.jobs /\ coord.job[j].kind = "stream"
  /\ coord.job[j].from /\ coord.job[j].worker
  /\ IF j \in late
     THEN coord' = Schedule(Cancel(coord, {j}, "end")) /\ UNCHANGED runner
     ELSE /\ coord' = [ReplyTo(coord, {j}, "ok") EXCEPT !.job[j].from = FALSE,
                                                        !.streams = @ \cup {j}]
          /\ runner' = [runner EXCEPT ![j] = "serving"]
  /\ UNCHANGED <<late, gone, expire, finished, wanted, slot, zombies, nativeVars>>

StreamBatch(j) ==
  /\ runner[j] = "serving" /\ j \in wanted /\ j \in coord.jobs
  /\ coord.job[j].from /\ coord.job[j].worker
  /\ wanted' = wanted \ {j}
  /\ IF j \in late
     THEN coord' = Schedule(Cancel(coord, {j}, "end")) /\ UNCHANGED <<runner, finished>>
     ELSE \E done \in BOOLEAN :
            /\ coord' = [ReplyTo(coord, {j}, IF done THEN "end" ELSE "ok")
                           EXCEPT !.job[j].from = FALSE]
            /\ runner' = [runner EXCEPT ![j] = IF done THEN "finished" ELSE @]
            /\ finished' = IF done THEN finished \cup {j} ELSE finished
  /\ UNCHANGED <<late, gone, expire, slot, zombies, nativeVars>>

Close(c) ==
  /\ coord.closing[c] = "none"
  /\ IF coord.mode = "closed"
     THEN coord' = [coord EXCEPT !.closing[c] = "ok"] /\ UNCHANGED native
     ELSE IF coord.closer # None
     THEN coord' = [coord EXCEPT !.closing[c] = "busy"] /\ UNCHANGED native
     ELSE /\ coord' = Schedule([Cancel(coord, coord.jobs, "end") EXCEPT
                                  !.mode = "closing", !.closer = c, !.closing[c] = "waiting"])
          /\ native' = IF native = "ready" THEN "retiring" ELSE native
  /\ UNCHANGED <<late, gone, expire, procVars, holder, broken>>

(* Handlers of messages. *)

\* Fault: the answered call is not forgotten.
HandleFinishedKeeps(j) ==
  /\ j \in finished
  /\ finished' = finished \ {j}
  /\ coord' = IF j \in coord.jobs THEN Schedule(Answer(coord, j, "end")) ELSE coord
  /\ UNCHANGED <<late, gone, expire, wanted, runner, slot, zombies, nativeVars>>

HandleFinished(j) ==
  /\ j \in finished
  /\ finished' = finished \ {j}
  /\ coord' = IF j \in coord.jobs
              THEN Schedule([Answer(coord, j, "end") EXCEPT !.job[j].from = FALSE])
              ELSE coord
  /\ UNCHANGED <<late, gone, expire, wanted, runner, slot, zombies, nativeVars>>

HandleExpire(j) ==
  /\ j \in expire
  /\ expire' = expire \ {j}
  /\ coord' = IF j \in coord.jobs THEN Schedule(Cancel(coord, {j}, "end")) ELSE coord
  /\ Unchanged

\* {:DOWN, caller}
HandleCallerDown(j) ==
  /\ j \in gone /\ j \in coord.jobs /\ coord.job[j].watched
  /\ coord' = Schedule(Cancel([coord EXCEPT !.job[j].watched = FALSE], {j}, "silent"))
  /\ UNCHANGED expire /\ Unchanged

\* Fault: the session is freed here as well as by the poll.
HandleRunnerDownFrees(j) ==
  /\ runner[j] = "dead" /\ j \notin finished
  /\ j \in coord.jobs /\ coord.job[j].worker
  /\ coord' = Schedule([Answer(coord, j, "end")
                          EXCEPT !.job[j].from = FALSE, !.job[j].worker = FALSE,
                                 !.free[coord.job[j].session] = @ + 1])
  /\ UNCHANGED expire /\ Unchanged

\* Fault: the death of the runner is not reported to the caller.
HandleRunnerDownSilently(j) ==
  /\ runner[j] = "dead" /\ j \notin finished
  /\ j \in coord.jobs /\ coord.job[j].worker
  /\ coord' = Schedule([coord EXCEPT !.job[j].from = FALSE, !.job[j].worker = FALSE])
  /\ UNCHANGED expire /\ Unchanged

\* {:DOWN, worker}; it follows every message the runner sent.
HandleRunnerDown(j) ==
  /\ runner[j] = "dead" /\ j \notin finished
  /\ j \in coord.jobs /\ coord.job[j].worker
  /\ coord' = Schedule([Answer(coord, j, "end")
                          EXCEPT !.job[j].from = FALSE, !.job[j].worker = FALSE])
  /\ UNCHANGED expire /\ Unchanged

\* Fault: a session counts as free before its runner has exited.
ReclaimableEarly == {j \in coord.jobs : coord.job[j].session # None}

\* :poll takes back the sessions of jobs whose runner is gone.  While open, the first
\* session f found broken retires the database; the jobs seen before f keep what they
\* had unless idle, the ones after f see every session retired.
Reclaimable == {j \in coord.jobs : coord.job[j].session # None /\ ~coord.job[j].worker}
InState(code) == {j \in Reclaimable : NativeState(coord.job[j].session) = code}

PollOpen(c) ==
  /\ coord.mode = "open" /\ InState("retired") = {}
  /\ \E d \in Dispatched(Remove(c, InState("idle"))) : coord' = Schedule(d)
  /\ UNCHANGED native

PollBroken(c) ==
  /\ coord.mode = "open"
  /\ \E f \in InState("retired") : \E before \in SUBSET (Reclaimable \ InState("retired")) :
       LET kept      == Remove(c, before \cap InState("idle"))
           cancelled == [Cancel(kept, kept.jobs, "end") EXCEPT !.mode = "closing"]
       IN coord' = Schedule(Remove(cancelled, Reclaimable \ (before \cup {f})))
  /\ native' = "retiring"

\* Fault: closing does not wait for the jobs.
PollClosingEarly(c) ==
  /\ coord.mode # "open"
  /\ LET kept == Remove(c, InState("idle") \cup InState("retired"))
     IN coord' = IF kept.mode = "closing" /\ native = "closed"
                 THEN [kept EXCEPT !.mode = "closed", !.closer = None,
                         !.closing = [x \in Closers |-> IF x = kept.closer THEN "ok" ELSE @[x]]]
                 ELSE Schedule(kept)
  /\ UNCHANGED native

PollClosing(c) ==
  /\ coord.mode # "open"
  /\ LET kept == Remove(c, InState("idle") \cup InState("retired"))
     IN coord' = IF kept.mode = "closing" /\ native = "closed" /\ kept.jobs = {}
                 THEN [kept EXCEPT !.mode = "closed", !.closer = None,
                         !.closing = [x \in Closers |-> IF x = kept.closer THEN "ok" ELSE @[x]]]
                 ELSE Schedule(kept)
  /\ UNCHANGED native

Poll ==
  /\ coord.poll
  /\ LET c == [coord EXCEPT !.poll = FALSE]
     IN PollOpen(c) \/ PollBroken(c) \/ PollClosing(c)
  /\ UNCHANGED <<late, gone, expire, procVars, holder, broken>>

\* :close_timeout
HandleCloseTimeout ==
  /\ coord.closer # None
  /\ coord' = [coord EXCEPT !.closing[coord.closer] = "timeout", !.closer = None]
  /\ UNCHANGED expire /\ Unchanged

-----------------------------------------------------------------------------
(* The clock, the callers, the runners and the native sessions. *)

\* Before its call is handled and while the job exists.
Concerned(j) == j \in coord.jobs \cup coord.streams \/ coord.reply[j] = "none"

Deadline(j) ==
  /\ j \notin late /\ Concerned(j)
  /\ late' = late \cup {j}
  /\ UNCHANGED <<coord, gone, expire, procVars, nativeVars>>

TimerFires(j) ==
  /\ j \in late /\ coord.job[j].timer
  /\ coord' = [coord EXCEPT !.job[j].timer = FALSE]
  /\ expire' = expire \cup {j}
  /\ Unchanged

CallerDies(j) ==
  /\ j \notin gone /\ Concerned(j)
  /\ gone' = gone \cup {j}
  /\ UNCHANGED <<coord, late, expire, procVars, nativeVars>>

RunnerStep(j, from, to) == runner[j] \in from /\ runner' = [runner EXCEPT ![j] = to]

\* The spawned process enters the dirty NIF that submits.
RunnerStarts(j) ==
  /\ j \in coord.jobs /\ coord.job[j].worker
  /\ RunnerStep(j, {"none"}, "entering")
  /\ slot' = [slot EXCEPT ![j] = coord.job[j].session]
  /\ UNCHANGED <<coord, late, gone, expire, finished, wanted, zombies, nativeVars>>

RunnerReserves(j) ==
  /\ runner[j] = "entering" /\ NativeState(slot[j]) = "idle"
  /\ RunnerStep(j, {"entering"}, "holding")
  /\ holder' = [holder EXCEPT ![slot[j]] = j]
  /\ UNCHANGED <<coord, late, gone, expire, finished, wanted, slot, zombies, broken, native>>

\* The operation, or the refusal of the submission, is reported and the function returns.
RunnerRefused(j) ==
  /\ runner[j] = "entering" /\ NativeState(slot[j]) # "idle"
  /\ RunnerStep(j, {"entering"}, "finished")
  /\ finished' = finished \cup {j}
  /\ UNCHANGED <<coord, late, gone, expire, wanted, slot, zombies, nativeVars>>

\* A query returns, a stream fails or its deadline passes while it serves.
RunnerReturns(j) ==
  /\ RunnerStep(j, {"holding", "serving"}, "finished")
  /\ finished' = finished \cup {j}
  /\ UNCHANGED <<coord, late, gone, expire, wanted, slot, zombies, nativeVars>>

RunnerExits(j) ==
  /\ RunnerStep(j, {"finished"}, "dead")
  /\ coord' = [coord EXCEPT !.kills = @ \ {j}]
  /\ wanted' = wanted \ {j}
  /\ UNCHANGED <<late, gone, expire, finished, slot, zombies, nativeVars>>

\* An exit signal arrives, or the runner crashes; a dirty submit runs on without it.
RunnerDies(j) ==
  /\ runner[j] # "dead"
  /\ j \in coord.kills \/ (j \in coord.jobs /\ coord.job[j].worker)
  /\ runner' = [runner EXCEPT ![j] = "dead"]
  /\ coord' = [coord EXCEPT !.kills = @ \ {j}]
  /\ wanted' = wanted \ {j}
  /\ zombies' = IF runner[j] = "entering" THEN zombies \cup {j} ELSE zombies
  /\ UNCHANGED <<late, gone, expire, finished, slot, nativeVars>>

ZombieReserves(j) ==
  /\ j \in zombies
  /\ zombies' = zombies \ {j}
  /\ holder' = IF NativeState(slot[j]) = "idle" THEN [holder EXCEPT ![slot[j]] = j] ELSE holder
  /\ UNCHANGED <<coord, late, gone, expire, finished, wanted, runner, slot, broken, native>>

\* Finish, monitor or retirement lets the native worker clean up, some time later.
NativeReleases(s) ==
  /\ holder[s] # None
  /\ runner[holder[s]] \in {"finished", "dead"} \/ NativeState(s) = "retired"
  /\ holder' = [holder EXCEPT ![s] = None]
  /\ UNCHANGED <<coord, late, gone, expire, procVars, broken, native>>

NativeBreaks(s) ==
  /\ s \notin broken /\ native = "ready"
  /\ broken' = broken \cup {s}
  /\ UNCHANGED <<coord, late, gone, expire, procVars, holder, native>>

NativeCloses ==
  /\ native = "retiring" /\ \A s \in Sessions : holder[s] = None
  /\ native' = "closed"
  /\ UNCHANGED <<coord, late, gone, expire, procVars, holder, broken>>

-----------------------------------------------------------------------------
Next ==
  \/ \E j \in Jobs :
       \/ \E kind \in Kinds : Admit(j, kind)
       \/ StreamNext(j) \/ StreamRelease(j) \/ StreamReady(j) \/ StreamBatch(j)
       \/ HandleFinished(j) \/ HandleExpire(j) \/ HandleCallerDown(j) \/ HandleRunnerDown(j)
       \/ Deadline(j) \/ TimerFires(j) \/ CallerDies(j)
       \/ RunnerStarts(j) \/ RunnerReserves(j) \/ RunnerRefused(j) \/ RunnerReturns(j)
       \/ RunnerExits(j) \/ RunnerDies(j) \/ ZombieReserves(j)
  \/ \E c \in Closers : Close(c)
  \/ Poll \/ HandleCloseTimeout
  \/ \E s \in Sessions : NativeReleases(s) \/ NativeBreaks(s)
  \/ NativeCloses

Spec == Init /\ [][Next]_vars

(***************************************************************************)
(* Fairness.  The server handles its mailbox, timers fire, exit signals    *)
(* arrive, a native session is given back once its runner is done with it, *)
(* a retired database closes, and deadlines are finite.  Nothing is        *)
(* assumed of queries: a runner may hold its session until it is killed.   *)
(***************************************************************************)
\* A poll that finds nothing to do is a stuttering step.
PollMatters ==
  /\ coord.poll
  /\ \/ InState("idle") \cup InState("retired") # {}
     \/ coord.jobs = {} /\ (coord.mode = "closing" => native = "closed")

HandleMessage == \E j \in Jobs : HandleFinished(j) \/ HandleExpire(j)
HandleDown    == \E j \in Jobs : HandleCallerDown(j) \/ HandleRunnerDown(j)
Downs == {j \in coord.jobs : \/ j \in gone /\ coord.job[j].watched
                             \/ runner[j] = "dead" /\ j \notin finished /\ coord.job[j].worker}

\* The first three are WF_vars of the handler, with its enabling condition spelled out.
Fairness ==
  /\ []<>(finished \cup expire = {}) \/ []<><<HandleMessage>>_vars
  /\ []<>(Downs = {}) \/ []<><<HandleDown>>_vars
  /\ []<>(~PollMatters) \/ []<><<Poll>>_vars
  /\ WF_vars(\E j \in Jobs : Deadline(j) \/ TimerFires(j))
  /\ WF_vars(\E j \in Jobs : RunnerExits(j) \/ (j \in coord.kills /\ RunnerDies(j)))
  /\ WF_vars(NativeCloses \/ \E s \in Sessions : NativeReleases(s))

FairSpec == Spec /\ Fairness

-----------------------------------------------------------------------------
(* Safety. *)

AssignedTo(s) == {j \in coord.jobs : coord.job[j].session = s}

\* Two runners that can still act never share a session, although exit signals are
\* asynchronous and a killed runner may be inside a native call.
OneRunnerPerSession ==
  \A i, j \in Jobs : i # j /\ slot[i] # None /\ slot[i] = slot[j]
                     => runner[i] = "dead" \/ runner[j] = "dead"

\* Every job has its place.  A native session is on the free list, once, or assigned to one
\* job; the queue holds the jobs that have no session, each once, never more than its
\* capacity, and it is empty while a session is free and the database is open.
SlotsAccounted ==
  \A s \in Sessions : coord.free[s] + Cardinality(AssignedTo(s)) = 1
QueueAccounted ==
  /\ {coord.queue[i] : i \in DOMAIN coord.queue}
       = {j \in coord.jobs : coord.job[j].session = None}
  /\ Len(coord.queue) = Cardinality({j \in coord.jobs : coord.job[j].session = None})
  /\ Len(coord.queue) <= Capacity
  /\ coord.mode = "open" /\ FreeSessions(coord) # {} => coord.queue = <<>>
JobsArePlaced == SlotsAccounted /\ QueueAccounted

\* A live caller waits if and only if the server still owes it a reply: no call is
\* answered twice and none is forgotten.
ReplyOwed ==
  \A j \in Jobs \ gone :
    /\ coord.asks[j] \in {"open", "next"} <=> coord.job[j].from
    /\ coord.asks[j] = "release" <=> coord.job[j].release

\* close answers :ok only when no job is left and the native database has closed.
ClosedIsDrained ==
  coord.mode = "closed" \/ (\E c \in Closers : coord.closing[c] = "ok")
    => coord.jobs = {} /\ native = "closed" /\ \A s \in Sessions : holder[s] = None

\* First come, first served: a queued job is never overtaken, neither in the queue nor in
\* getting a session.
Queued == {coord.queue[i] : i \in DOMAIN coord.queue}
Ahead(q, a, b) == \E i, k \in DOMAIN q : i < k /\ q[i] = a /\ q[k] = b
StartInOrder ==
  [][\A a \in Queued', b \in Jobs :
       /\ Ahead(coord'.queue, b, a) /\ a \in Queued => Ahead(coord.queue, b, a)
       /\ coord'.job[b].session # None => ~Ahead(coord.queue, a, b)]_vars

\* A runner that is started on a healthy session finds it idle.
HealthySlotAccepts ==
  \A j \in Jobs : runner[j] = "entering" => NativeState(slot[j]) # "busy"

\* Liveness, under FairSpec.

\* Every call of a live caller is answered.
CallsAreAnswered ==
  \A j \in Jobs : (coord.asks[j] # "none") ~> (coord.asks[j] = "none" \/ j \in gone)

\* Every admitted job ends and gives its session back.
JobsEnd == \A j \in Jobs : (j \in coord.jobs) ~> (j \notin coord.jobs)

\* Once begun, closing completes, whether a close call waits for it or not.
ClosingCompletes == (coord.mode = "closing") ~> (coord.mode = "closed")
=============================================================================
