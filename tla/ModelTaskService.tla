-------------------------- MODULE ModelTaskService --------------------------
(***************************************************************************)
(* The per-project service that runs model analyses in worker processes    *)
(* (src/model_task_service.rs): its tasks, the broker it obeys             *)
(* (WorkerBroker), the workers it holds, and the store of results and      *)
(* cache-key locks on disk (src/model_store.rs, src/model_supervisor.rs).  *)
(*                                                                         *)
(* One thread owns the service, so a method is one step.  What interleaves *)
(* is the rest: deadlines pass, a worker may have reported, finished,      *)
(* failed or closed its pipe whenever the service reads or writes to it,   *)
(* the host cancels and changes the foreground pressure, and the program   *)
(* closes or crashes and starts another service over the same store.       *)
(*                                                                         *)
(* Data abstraction.  A recipe is its cache key.  A worker is what the     *)
(* service knows of it: whether its session was told to cancel, whether    *)
(* its supervisor still holds the cache lease, how often it reported.  A   *)
(* stored result is one of four kinds, by the check that refuses it.       *)
(* Diagnostics are left out.                                               *)
(***************************************************************************)
EXTENDS WorkerBroker

CONSTANTS
  Keys,               \* cache keys of the recipes the host may run
  MemoryOf,           \* the memory demand of a key's model
  MaximumQueuedJobs,  \* config.maximum_queued_jobs
  Pressures,          \* foreground pressures the host may report
  MaximumRuns,        \* bound: calls of run and retry, over all services
  MaximumReports,     \* bound: progress records of one worker
  MaximumRestarts,    \* bound: services after the first
  Endings             \* how a service may end: subset of {"Closed", "Crashed"}

ASSUME ServiceAssumption ==
  /\ MemoryOf \in [Keys -> Nat \ {0}]
  /\ MaximumQueuedJobs \in Nat \ {0}
  /\ MaximumRuns \in Nat /\ MaximumReports \in Nat /\ MaximumRestarts \in Nat
  /\ Pressures \subseteq SUBSET Foreground
  /\ Endings \subseteq {"Closed", "Crashed"}

VARIABLES
  tasks,     \* ModelTaskService.tasks: ids are given from 1 on
  broker,    \* the WorkerBroker
  workers,   \* ModelTaskService.active: one worker process per job
  pressure,  \* ModelTaskService.pressure
  cursor,    \* poll_cursor, 0 for None
  store,     \* the ModelStore: published results, lock and sandbox directories
  runs,      \* calls of run and retry so far
  restarts   \* how many services there were before this one

vars == <<tasks, broker, workers, pressure, cursor, store, runs, restarts>>

-----------------------------------------------------------------------------
(* Records                                                                 *)

\* "Published" has cache_hit: false, "Restored" is Published with cache_hit.
Ended == {"Published", "Restored", "Cancelled", "Failed"}
Pending == {"Queued", "Running", "Cancelling"}

\* `verified`: receipts and completed_results hold an entry of this task.
Task == [key : Keys, status : Pending \cup Ended, verified : BOOLEAN]

Worker == [cancelling : BOOLEAN, leased : BOOLEAN, reports : 0..MaximumReports]

\* Results that reach the store.  Sound ones pass every check; the broker
\* refuses an Oversized one, from_worker_result an Unclaimable one and the
\* inference recipe an Unfit one.
Results == {"Sound", "Oversized", "Unclaimable", "Unfit"}

Service == [tasks |-> tasks, broker |-> broker, workers |-> workers,
            store |-> store]

KeyOf(s, t) == s.tasks[t].key
WithStatus(s, t, status) == [s EXCEPT !.tasks[t].status = status]
Fail(s, t) == WithStatus(s, t, "Failed")
Acknowledged(s, t) == [s EXCEPT !.broker = AcknowledgeTerminal(@, t)]

\* A reserved worker's lease is its key's lock directory.  Dropping the
\* runtime, publishing and abandoning each remove the lock.
Unlocked(s, t) ==
  IF s.workers[t].leased
  THEN [s EXCEPT !.store.locks = @ \ {KeyOf(s, t)},
                 !.workers[t].leased = FALSE]
  ELSE s

Dropped(s, t) ==
  [Unlocked(s, t) EXCEPT !.workers = Without(@, {t})]

-----------------------------------------------------------------------------
(* Carrying out the broker's actions                                       *)

RejectStart(s, t) == Fail(Acknowledged(s, t), t)

\* Restoring validates the stored result as a fresh one, except its size.
RestoreCached(s, t) ==
  IF s.store.results[KeyOf(s, t)] \in {"Sound", "Oversized"}
  THEN WithStatus(s, t, "Restored")
  ELSE Fail(s, t)

\* ModelStore::acquire found no result and no lock: it creates the lock, then
\* the job's directories, which must be new.
Sandbox(s, t) == <<KeyOf(s, t), t>>

Locked(s, t) == [s EXCEPT !.store.locks = @ \cup {KeyOf(s, t)}]

Reserved(s, t) ==
  [Locked(s, t) EXCEPT !.store.sandboxes = @ \cup {Sandbox(s, t)}]

NewWorker == [cancelling |-> FALSE, leased |-> TRUE, reports |-> 0]

StartWorker(s, t) ==
  WithStatus([Reserved(s, t) EXCEPT !.workers = Updated(@, [w \in {t} |-> NewWorker]),
                                    !.broker = ObserveStarted(@, t)],
             t, "Running")

\* What the operating system makes of the worker processes during one call.
\* How far a launch gets: the process or its model is refused, the request is
\* refused after the reservation, or the worker starts.  And whether a worker
\* has closed its pipe when it is written to.
Launches == {"Refused", "NotAnalysed", "Started"}
Fates == [launch : Launches, closed : BOOLEAN]

\* Fault: a worker is started although another holds the key.
StartTicketUnlocked(s, t, launch) ==
  CASE launch = "Refused" -> RejectStart(s, t)
    [] launch # "Refused" /\ KeyOf(s, t) \in DOMAIN s.store.results ->
         RestoreCached(Acknowledged(s, t), t)
    [] OTHER -> StartWorker(s, t)

StartTicket(s, t, launch) ==
  LET key == KeyOf(s, t) IN
  CASE launch = "Refused" -> RejectStart(s, t)
    [] launch # "Refused" /\ key \in DOMAIN s.store.results ->
         RestoreCached(Acknowledged(s, t), t)
    [] launch # "Refused" /\ key \notin DOMAIN s.store.results
         /\ key \in s.store.locks -> RejectStart(s, t)
    [] launch # "Refused" /\ key \notin DOMAIN s.store.results
         /\ key \notin s.store.locks /\ Sandbox(s, t) \in s.store.sandboxes ->
         RejectStart(Locked(s, t), t)
    [] launch = "NotAnalysed" /\ key \notin DOMAIN s.store.results
         /\ key \notin s.store.locks /\ Sandbox(s, t) \notin s.store.sandboxes ->
         RejectStart([Reserved(s, t) EXCEPT !.store.locks = @ \ {key}], t)
    [] launch = "Started" /\ key \notin DOMAIN s.store.results
         /\ key \notin s.store.locks /\ Sandbox(s, t) \notin s.store.sandboxes ->
         StartWorker(s, t)

\* Fault: a job without a worker keeps its broker entry.
RejectBrokerStateOnly(s, t) == Fail(s, t)

RejectBrokerState(s, t) == Fail(Acknowledged(s, t), t)

KillIdentity(s, t, why) ==
  IF t \notin DOMAIN s.workers THEN RejectBrokerState(s, t)
  ELSE WithStatus(Acknowledged(Dropped(s, t), t), t,
                  IF why = "User" THEN "Cancelled" ELSE "Failed")

\* Fault: the broker's cancellation never reaches the worker's session.
CancelWorkerInName(s, t, why, closed) ==
  CASE t \notin DOMAIN s.workers -> RejectBrokerState(s, t)
    [] OTHER -> WithStatus(s, t, "Cancelling")

\* The session refuses a cancel for a job whose lease is gone, and the write
\* fails when the worker has closed its pipe.
CancelWorker(s, t, why, closed) ==
  CASE t \notin DOMAIN s.workers -> RejectBrokerState(s, t)
    [] t \in DOMAIN s.workers /\ (closed \/ ~s.workers[t].leased) ->
         KillIdentity(s, t, why)
    [] t \in DOMAIN s.workers /\ ~closed /\ s.workers[t].leased ->
         WithStatus([s EXCEPT !.workers[t].cancelling = TRUE], t, "Cancelling")

ApplyAction(s, action, fate) ==
  CASE action.do = "Start" -> StartTicket(s, action.job, fate.launch)
    [] action.do = "SendCancel" ->
         CancelWorker(s, action.job, action.reason, fate.closed)
    [] action.do = "Kill" -> KillIdentity(s, action.job, action.reason)

\* The broker has already changed when the service applies what it returned,
\* job after job.  Starts keep the order of the queue; what stops one job
\* touches no other.  All the launches of one call meet the same fate, and so
\* do its writes.
Apply(s, decision, fate) ==
  LET applied[t \in 0..Len(s.tasks)] ==
        IF t = 0 THEN [s EXCEPT !.broker = decision.broker]
        ELSE IF t \in DOMAIN decision.actions
        THEN ApplyAction(applied[t - 1], decision.actions[t], fate)
        ELSE applied[t - 1]
  IN  applied[Len(s.tasks)]

ScheduleJobs(s, onPressure, fate) ==
  Apply(s, Schedule(s.broker, onPressure), fate)

\* The fates that make a difference to a call.
FatesFor(queue, stopping) ==
  {fate \in Fates : /\ queue = {} => fate.launch = "Started"
                    /\ ~stopping => ~fate.closed}

-----------------------------------------------------------------------------
(* What a worker sends, as one `receive` reports it                        *)

RefuseProgress(s, t) == Fail(Acknowledged(Dropped(s, t), t), t)

\* A progress record refreshes the deadlines of a running job; the broker
\* refuses it once the job was asked to stop.
ReceiveProgress(s, t) ==
  IF IsRunning(s.broker, t)
  THEN WithStatus([s EXCEPT !.workers[t].reports = @ + 1,
                            !.broker = ObserveProgress(@, t)], t, "Running")
  ELSE RefuseProgress(s, t)

ReceiveCancelled(s, t) ==
  WithStatus(Acknowledged(Dropped(s, t), t), t, "Cancelled")

ReceiveFailed(s, t) == Fail(Acknowledged(Dropped(s, t), t), t)

\* A timeout, a closed pipe, a record the session refuses or a publication
\* that failed.  The worker stays; the deadlines of the jobs in `waited`
\* have passed while `receive` blocked.
ReceiveError(s, t, waited, fate) ==
  LET now    == [j \in Charged(s.broker) |->
                   [s.broker.active[j] EXCEPT !.late = @ \/ j \in waited]]
      ticked == Tick([s.broker EXCEPT !.active = now])
  IN  IF ticked.actions = NoJobs
      THEN Apply(s, RequestCancel(ticked.broker, t, "ProgressDeadline"), fate)
      ELSE Apply(s, ticked, fate)

Stored(s, t, result) ==
  [Unlocked(s, t) EXCEPT !.store.results =
                           Updated(@, [k \in {KeyOf(s, t)} |-> result])]

\* Fault: the completion is not asked of the broker.
AcceptUnasked(s, t, result) ==
  WithStatus([Acknowledged(Dropped(s, t), t) EXCEPT !.tasks[t].verified = TRUE],
             t, "Published")

\* accept_published.  A completion the broker refuses is not acknowledged.
AcceptPublished(s, t, result) ==
  CASE ~IsRunning(s.broker, t) \/ result = "Oversized" -> Fail(Dropped(s, t), t)
    [] IsRunning(s.broker, t) /\ result = "Unfit" ->
         Fail([Dropped(s, t) EXCEPT !.broker = Complete(@, t)], t)
    [] IsRunning(s.broker, t) /\ result = "Sound" ->
         WithStatus([Dropped(s, t) EXCEPT !.broker = Complete(@, t),
                                          !.tasks[t].verified = TRUE],
                    t, "Published")

-----------------------------------------------------------------------------
(* The methods of the service                                              *)

Becomes(s) == /\ tasks' = s.tasks
              /\ broker' = s.broker
              /\ workers' = s.workers
              /\ store' = s.store

Init ==
  /\ tasks = <<>>
  /\ broker = NewBroker
  /\ workers = NoJobs
  /\ pressure = {}
  /\ cursor = 0
  /\ store = [results |-> NoJobs, locks |-> {}, sandboxes |-> {}]
  /\ restarts = 0
  /\ runs = 0

NextTask == Len(tasks) + 1

WithTask(k, status) ==
  [Service EXCEPT !.tasks = Append(@, [key |-> k, status |-> status,
                                       verified |-> FALSE])]

\* run, run_inference and retry: a cached result is restored even when the
\* model is gone, and a task that cannot be queued fails at once.
RunCached(k) ==
  /\ k \in DOMAIN store.results
  /\ Becomes(RestoreCached(WithTask(k, "Queued"), NextTask))

RunRefused(k) ==
  /\ k \notin DOMAIN store.results
  /\ Becomes(WithTask(k, "Failed"))

RunSubmitted(k) ==
  /\ k \notin DOMAIN store.results
  /\ Cardinality(Queued(broker)) < MaximumQueuedJobs
  /\ ~IsImpossible(MemoryOf[k])
  /\ \E fate \in FatesFor({NextTask}, FALSE) :
       Becomes(ScheduleJobs([WithTask(k, "Queued") EXCEPT
                               !.broker = Submit(@, NextTask, MemoryOf[k])],
                            pressure, fate))

Run(k) ==
  /\ runs < MaximumRuns
  /\ runs' = runs + 1
  /\ RunCached(k) \/ RunRefused(k) \/ RunSubmitted(k)
  /\ UNCHANGED <<pressure, cursor, restarts>>

\* request_cancel reports no action for a queued job and for one that is
\* being cancelled already: both become Cancelled at once.
Cancel(t) ==
  LET decision == RequestCancel(broker, t, "User") IN
  /\ t \in Queued(broker) \cup Charged(broker)
  /\ \E fate \in FatesFor(Queued(broker), decision.actions # NoJobs) :
       IF decision.actions = NoJobs
       THEN Becomes(ScheduleJobs(
                      WithStatus([Service EXCEPT !.broker = decision.broker],
                                 t, "Cancelled"), pressure, fate))
       ELSE Becomes(Apply(Service, decision, fate))
  /\ UNCHANGED <<pressure, cursor, restarts, runs>>

SetForegroundPressure(p) ==
  /\ pressure' = p
  /\ \E fate \in FatesFor(Queued(broker), workers # NoJobs) :
       Becomes(ScheduleJobs(Apply(Service, ProtectForeground(broker, p), fate),
                            p, fate))
  /\ UNCHANGED <<cursor, restarts, runs>>

\* next_poll_identity: the next worker after the cursor, in identity order.
NextPolled(s) ==
  LET held  == DOMAIN s.workers
      after == {t \in held : t > cursor}
  IN  IF held = {} THEN 0 ELSE IF after # {} THEN Min(after) ELSE Min(held)

Errors(s, t, fate) ==
  {ReceiveError(s, t, waited, fate) : waited \in SUBSET Charged(s.broker)}

\* A progress record without a total is refused too.
Records(s, t) ==
  {ReceiveCancelled(s, t), ReceiveFailed(s, t)}
  \cup (IF s.workers[t].reports < MaximumReports
        THEN {ReceiveProgress(s, t), RefuseProgress(s, t)} ELSE {})

\* The result of a worker that reported all its progress.  The session refuses
\* it from a job that was told to cancel, the store when its files are not as
\* declared, and from_worker_result when it supports no claim.
Completions(s, t, fate) ==
  CASE s.workers[t].reports = 0 \/ s.workers[t].cancelling -> {}
    [] s.workers[t].reports > 0 /\ ~s.workers[t].cancelling ->
         Errors(Unlocked(s, t), t, fate)
         \cup Errors(Stored(s, t, "Unclaimable"), t, fate)
         \cup {AcceptPublished(Stored(s, t, result), t, result) :
                 result \in {"Sound", "Oversized", "Unfit"}}

\* The session accepts no record once the job sent its terminal one.
Received(s, t, fate) ==
  Errors(s, t, fate)
  \cup (IF s.workers[t].leased
        THEN Records(s, t) \cup Completions(s, t, fate) ELSE {})

\* The deadlines are enforced and queued jobs scheduled before one worker is
\* read, and queued jobs scheduled once more afterwards.
Poll ==
  \E fate \in FatesFor(Queued(broker), workers # NoJobs) :
    \E s \in {ScheduleJobs(Apply(Service, Tick(broker), fate), pressure, fate)} :
      /\ cursor' = NextPolled(s)
      /\ \/ NextPolled(s) = 0 /\ Becomes(s)
         \/ \E t \in {NextPolled(s)} \ {0} :
              \E read \in Received(s, t, fate) :
                Becomes(ScheduleJobs(read, pressure, fate))
      /\ UNCHANGED <<pressure, restarts, runs>>

TerminateActive ==
  /\ workers # NoJobs
  /\ \E fate \in FatesFor({}, FALSE) :
       Becomes(Apply(Service,
                     [broker  |-> broker,
                      actions |-> [t \in DOMAIN workers |-> Kill(t, "User")]],
                     fate))
  /\ UNCHANGED <<pressure, cursor, restarts, runs>>

-----------------------------------------------------------------------------
(* The environment                                                         *)

DeadlinePasses(t) ==
  /\ t \in Charged(broker)
  /\ ~broker.active[t].late
  /\ broker' = [broker EXCEPT !.active[t].late = TRUE]
  /\ UNCHANGED <<tasks, workers, pressure, cursor, store, restarts, runs>>

\* The service is dropped, or the program dies with it, and another one opens
\* the same store.  A lease is released when it is dropped; a crash drops
\* nothing, and the directories stay either way.
Restart(ending) ==
  /\ restarts < MaximumRestarts
  /\ restarts' = restarts + 1
  /\ tasks' = <<>>
  /\ broker' = NewBroker
  /\ workers' = NoJobs
  /\ pressure' = {}
  /\ cursor' = 0
  /\ UNCHANGED runs
  /\ store' = IF ending = "Crashed" THEN store
              ELSE [store EXCEPT !.locks =
                      @ \ {KeyOf(Service, t) :
                             t \in {w \in DOMAIN workers : workers[w].leased}}]

Next ==
  \/ \E k \in Keys : Run(k)
  \/ \E t \in DOMAIN tasks : Cancel(t)
  \/ \E p \in Pressures : SetForegroundPressure(p)
  \/ Poll
  \/ TerminateActive
  \/ \E t \in DOMAIN tasks : DeadlinePasses(t)
  \/ \E ending \in Endings : Restart(ending)

HasWork == workers # NoJobs \/ Queued(broker) # {}

\* The host keeps polling while a poll has anything to do, and time passes.
\* The first conjunct is WF_vars(HasWork /\ Poll) spelled out: with work to do
\* a poll changes something, at the latest once a deadline has passed.
Fairness == /\ []<>~HasWork \/ []<><<Poll>>_vars
            /\ \A t \in 1..MaximumRuns : WF_vars(DeadlinePasses(t))

Spec     == Init /\ [][Next]_vars
FairSpec == Spec /\ Fairness

-----------------------------------------------------------------------------
(* Properties                                                              *)

\* The tables keep their types; no job of the broker is without its task, and
\* none is queued and active at once (submit, schedule, allocate_id).
TypeOK ==
  /\ tasks \in Seq(Task) /\ Len(tasks) <= runs
  /\ Queued(broker) \cup Charged(broker) \cup broker.receipts \cup DOMAIN workers
       \subseteq DOMAIN tasks
  /\ Queued(broker) \cap Charged(broker) = {}
  /\ broker.queued \in [Queued(broker) -> Demands]
  /\ broker.active \in [Charged(broker) -> ActiveJob]
  /\ workers \in [DOMAIN workers -> Worker]
  /\ pressure \subseteq Foreground
  /\ cursor \in 0..MaximumRuns
  /\ DOMAIN store.results \cup store.locks \subseteq Keys
  /\ store.results \in [DOMAIN store.results -> Results]
  /\ runs \in 0..MaximumRuns /\ restarts \in 0..MaximumRestarts

\* Every worker process the service holds is paid for: whatever is cancelled,
\* killed, refused or completed around it, its job stays charged in the
\* broker, and all charges together fit the machine (worker_broker.rs
\* resource_usage, fits and every acknowledge_terminal of the service).
WorkersFitTheMachine ==
  /\ DOMAIN workers \subseteq Charged(broker)
  /\ Cardinality(Charged(broker)) <= WorkerSlots
  /\ CpuInUse(Charged(broker)) <= CpuSlots
  /\ MemoryInUse(broker, Charged(broker)) <= MemoryUnits

\* Jobs that were not asked to stop leave the reserves of playback and
\* rendering free after every call, however the pressure changed meanwhile
\* (set_foreground_pressure, protect_foreground, schedule).
WorkRespectsReserves ==
  /\ CpuInUse(AtWork(broker)) <= CpuLimit(pressure)
  /\ MemoryInUse(broker, AtWork(broker)) <= MemoryLimit(pressure)

\* The broker, the service and the worker's session agree about who was asked
\* to stop: that is why a completion is never refused as CancelledOrKilling
\* (apply_broker_action, kill_identity, accept_completion).
CancellationsReachTheWorker ==
  /\ \A t \in Charged(broker) :
       broker.active[t].state \in {"Running", "CancelRequested"}
  /\ \A t \in DOMAIN workers :
       workers[t].cancelling <=> broker.active[t].state = "CancelRequested"

\* Two workers never compute one cache key, and each holds its key's lock
\* until its result is stored or given up (ModelStore::acquire and the drops
\* of CacheLease).
OneWorkerPerKey ==
  \A t \in DOMAIN workers : workers[t].leased =>
    /\ KeyOf(Service, t) \in store.locks
    /\ \A u \in DOMAIN workers \ {t} :
         workers[u].leased => KeyOf(Service, u) # KeyOf(Service, t)

\* A task shows a verified completion exactly when the broker issued its
\* receipt for a sound result that is in the store, and its job is over
\* (accept_published, verified_completion).
CompletionsAreReceipted ==
  \A t \in DOMAIN tasks :
    /\ tasks[t].verified <=> tasks[t].status = "Published"
    /\ tasks[t].verified => /\ t \in broker.receipts \ Charged(broker)
                            /\ KeyOf(Service, t) \in DOMAIN store.results
                            /\ store.results[KeyOf(Service, t)] = "Sound"

\* What was published or restored stays so: no late deadline, cancellation or
\* foreground pressure takes it back (set_status and fail overwrite freely).
PublishedIsFinal ==
  [][restarts' = restarts =>
       \A t \in DOMAIN tasks :
         tasks[t].status \in {"Published", "Restored"} => tasks'[t] = tasks[t]]_vars

\* While the host polls and time passes, every task ends: a silent worker, a
\* closed pipe, a slot still charged for a refused completion or a raised
\* foreground pressure delays it but cannot keep it (poll, tick, schedule).
EveryTaskEnds ==
  \A t \in 1..MaximumRuns :
    (t \in DOMAIN tasks /\ tasks[t].status \in Pending)
      ~> (t \notin DOMAIN tasks \/ tasks[t].status \in Ended)

\* "A lease owns the exclusive cache-key lock": a key is locked only while a
\* worker of the service computes it (ModelStore::acquire, CacheLease).
LockedKeysAreBeingComputed ==
  store.locks \subseteq {KeyOf(Service, t) :
                           t \in {w \in DOMAIN workers : workers[w].leased}}

=============================================================================
