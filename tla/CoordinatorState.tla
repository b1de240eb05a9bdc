-------------------------- MODULE CoordinatorState --------------------------
(***************************************************************************)
(* The value held by one `TaskCoordinator` (src/task_coordinator.rs) and   *)
(* the effect of each of its methods on that value.                        *)
(*                                                                         *)
(* The struct owns no thread: callers keep it behind a mutex and call one  *)
(* or several methods while they hold the lock.  A method is therefore an  *)
(* operator from a coordinator to a coordinator, and the modules that      *)
(* extend this one decide which methods run in one atomic step             *)
(* (TaskCoordinator: one call at a time; ComparisonExecutor: a whole       *)
(* capture under one lock).                                                *)
(*                                                                         *)
(* Data abstraction.  A `SingleFlightKey` (resource, canonical recipe) is  *)
(* an element of Keys; an `OwnerScope` (owner, session, pane) an element   *)
(* of Owners.  The subscriber vector of a flight is the set of its task    *)
(* ids: ids grow, so the vector is that set in increasing order.           *)
(* Diagnostics are left out, and `terminal` remembers every retired task   *)
(* (the code keeps the newest maximum_terminal_snapshots of them).         *)
(***************************************************************************)
EXTENDS Integers, FiniteSets, FiniteSetsExt, Functions

CONSTANTS
  Owners,               \* OwnerScope values
  Sessions,             \* SessionId values
  Keys,                 \* SingleFlightKey values
  Resources,            \* ResourceClass values
  SessionOf,            \* the session in an owner's scope
  ResourceOf,           \* the resource in a key
  ResourceLimits,       \* config.resource_limits, a map on some resources
  MaximumActiveTasks,   \* config.maximum_active_tasks
  MaximumQueuedFlights, \* config.maximum_queued_flights
  MaximumSubscribers,   \* config.maximum_subscribers_per_flight
  NoDeadline,           \* Option::None for a deadline
  NoProgress            \* Option::None for a progress report

\* `CoordinatorConfig::validate` refuses a zero limit.
ASSUME ConfigAssumption ==
  /\ SessionOf \in [Owners -> Sessions]
  /\ ResourceOf \in [Keys -> Resources]
  /\ DOMAIN ResourceLimits \subseteq Resources
  /\ ResourceLimits \in [DOMAIN ResourceLimits -> Nat \ {0}]
  /\ MaximumActiveTasks \in Nat \ {0}
  /\ MaximumQueuedFlights \in Nat \ {0}
  /\ MaximumSubscribers \in Nat \ {0}
  /\ NoDeadline \notin Nat

-----------------------------------------------------------------------------
(* Records                                                                 *)

Reasons  == {"Requested", "Superseded", "SessionAdvanced", "DeadlineExceeded"}
Outcomes == {"Succeeded", "Failed", "Cancelled"}
Final    == Outcomes \cup {"Rejected"}
Deadline == Nat \cup {NoDeadline}

\* The phase text is represented by phase_count: it only matters whether two
\* reports describe the same phase in the same shape.
Progress == [phase_index : Nat, phase_count : Nat,
             completed_units : Nat, total_units : Nat]

TaskSpec == [owner : Owners, generation : Nat, key : Keys,
             priority : Nat, deadline : Deadline]

TaskRecord == [flight : Nat, owner : Owners, generation : Nat,
               priority : Nat, deadline : Deadline,
               state : {"Queued", "Running", "Cancelling"},
               reason : Reasons \cup {"None"},
               progress : Progress \cup {NoProgress}]

FlightRecord == [key : Keys, state : {"Queued", "Running"}, submitted_at : Nat,
                 subscribers : SUBSET Nat, cancelled : BOOLEAN]

\* A BTreeMap whose keys are in D and whose values are in R.
IsMap(m, D, R) == /\ m = [x \in DOMAIN m |-> m[x]]
                  /\ DOMAIN m \subseteq D
                  /\ \A x \in DOMAIN m : m[x] \in R

NoEntries == [x \in {} |-> x]

NewCoordinator ==
  [sessions |-> NoEntries, tasks |-> NoEntries, flights |-> NoEntries,
   single_flights |-> NoEntries,
   running_by_resource |-> [r \in Resources |-> 0],
   terminal |-> NoEntries, next_task |-> 1, next_flight |-> 1]

-----------------------------------------------------------------------------
(* Queries                                                                 *)

IsEligible(task) == task.state # "Cancelling"

EligibleTasks(c) == {t \in DOMAIN c.tasks : IsEligible(c.tasks[t])}

\* Does the flight still have a subscriber that wants its result?
Observed(c, f) == c.flights[f].subscribers \cap EligibleTasks(c) # {}

Elapsed(deadline, now) == deadline # NoDeadline /\ deadline <= now

QueuedFlights(c) == {f \in DOMAIN c.flights : c.flights[f].state = "Queued"}

RunningFlights(c, r) ==
  {f \in DOMAIN c.flights : /\ c.flights[f].state = "Running"
                            /\ ResourceOf[c.flights[f].key] = r}

SessionIs(c, s, generation) ==
  s \in DOMAIN c.sessions /\ c.sessions[s] = generation

ResourceHasCapacity(c, r) ==
  r \in DOMAIN ResourceLimits /\ c.running_by_resource[r] < ResourceLimits[r]

-----------------------------------------------------------------------------
(* Cancellation                                                            *)

\* mark_cancelling on each task of S; a task that is already cancelling keeps
\* its first reason.
MarkCancelling(c, S, reason) ==
  [c EXCEPT !.tasks =
     [t \in DOMAIN c.tasks |->
        IF t \in S /\ IsEligible(c.tasks[t])
        THEN [c.tasks[t] EXCEPT !.state = "Cancelling", !.reason = reason]
        ELSE c.tasks[t]]]

\* Fault: the entry of the key goes even if it names a replacement.
IndexWithoutKeys(c, F) ==
  Restrict(c.single_flights,
    DOMAIN c.single_flights \ {c.flights[f].key : f \in F})

\* The index without the flights in F.  An entry goes only if it names one of
\* them: a replacement flight with the same key keeps its entry.
IndexWithout(c, F) ==
  Restrict(c.single_flights,
    {k \in DOMAIN c.single_flights :
       ~\E f \in F : c.flights[f].key = k /\ c.single_flights[k] = f})

\* Flag every flight nobody observes, and free its key for a replacement.
CancelUnobserved(c) ==
  LET lost == {f \in DOMAIN c.flights : ~Observed(c, f)} IN
  [c EXCEPT
     !.flights = [f \in DOMAIN c.flights |->
                    IF f \in lost THEN [c.flights[f] EXCEPT !.cancelled = TRUE]
                                  ELSE c.flights[f]],
     !.single_flights = IndexWithout(c, lost)]

\* Fault: the flags and the index are not repaired.
CancelWithoutRepair(c, S, reason) == MarkCancelling(c, S, reason)

Cancel(c, S, reason) == CancelUnobserved(MarkCancelling(c, S, reason))

-----------------------------------------------------------------------------
(* Retirement                                                              *)

\* Fault: a subscriber that no longer wants the result is not retired.
EligibleSubscribersOf(c, F) ==
  EligibleTasks(c) \cap UNION {c.flights[f].subscribers : f \in F}

SubscribersOf(c, F) ==
  DOMAIN c.tasks \cap UNION {c.flights[f].subscribers : f \in F}

\* retire_task for every subscriber of the flights in F, then remove_flight.
RetireFlights(c, F, final) ==
  LET gone == SubscribersOf(c, F) IN
  [c EXCEPT
     !.tasks = Restrict(c.tasks, DOMAIN c.tasks \ gone),
     !.terminal = [t \in DOMAIN c.terminal \cup gone |->
                     IF t \in gone THEN final[t] ELSE c.terminal[t]],
     !.flights = Restrict(c.flights, DOMAIN c.flights \ F),
     !.single_flights = IndexWithout(c, F)]

\* Fault: a running flight is retired too when nobody observes it.
AbandonedEvenIfRunning(c) == {f \in DOMAIN c.flights : ~Observed(c, f)}

Abandoned(c) == {f \in QueuedFlights(c) : ~Observed(c, f)}

\* Fault: the live state of a task is recorded as its outcome.
RetireAsTheyAre(c) ==
  RetireFlights(c, Abandoned(c), [t \in DOMAIN c.tasks |-> c.tasks[t].state])

\* Fault: what everybody abandoned stays in the queue.
KeepAbandoned(c) == c

\* retire_abandoned_queued_flights: nothing ran, so no slot is released.
RetireAbandoned(c) ==
  RetireFlights(c, Abandoned(c),
    [t \in DOMAIN c.tasks |->
       IF c.tasks[t].state = "Cancelling" /\ c.tasks[t].reason = "DeadlineExceeded"
       THEN "Rejected" ELSE "Cancelled"])

\* Fault: a deadline is kept for the instant it names.
OverdueTooLate(c, now) ==
  {t \in EligibleTasks(c) : /\ c.tasks[t].deadline # NoDeadline
                            /\ c.tasks[t].deadline < now}

Overdue(c, now) == {t \in EligibleTasks(c) : Elapsed(c.tasks[t].deadline, now)}

Expire(c, now) == RetireAbandoned(Cancel(c, Overdue(c, now), "DeadlineExceeded"))

-----------------------------------------------------------------------------
(* Sessions                                                                *)

TasksOfSession(c, s) == {t \in DOMAIN c.tasks : SessionOf[c.tasks[t].owner] = s}

\* A regression is refused and an equal generation changes nothing.
AdvancesSession(c, s, generation) ==
  s \in DOMAIN c.sessions => generation > c.sessions[s]

ObserveSession(c, s, generation) ==
  IF ~AdvancesSession(c, s, generation) THEN c
  ELSE Cancel([c EXCEPT !.sessions =
                 [x \in DOMAIN c.sessions \cup {s} |->
                    IF x = s THEN generation ELSE c.sessions[x]]],
              {t \in TasksOfSession(c, s) : c.tasks[t].generation # generation},
              "SessionAdvanced")

\* Fault: the session is forgotten and its tasks are not told.
ForgetSession(c, s) ==
  [c EXCEPT !.sessions = Restrict(c.sessions, DOMAIN c.sessions \ {s})]

CloseSession(c, s) ==
  Cancel([c EXCEPT !.sessions = Restrict(c.sessions, DOMAIN c.sessions \ {s})],
         TasksOfSession(c, s), "SessionAdvanced")

-----------------------------------------------------------------------------
(* Submission.  The first argument of every operator below is the          *)
(* coordinator after `expire`; a refused submission leaves it as it is.    *)

Supersedable(c, spec) ==
  {t \in DOMAIN c.tasks : /\ c.tasks[t].owner = spec.owner
                          /\ c.tasks[t].generation < spec.generation}

\* Fault: one task too many.
HasActiveCapacityOffByOne(c, spec) ==
  Cardinality(DOMAIN c.tasks) - Cardinality(Supersedable(c, spec)) <= MaximumActiveTasks

HasActiveCapacity(c, spec) ==
  Cardinality(DOMAIN c.tasks) - Cardinality(Supersedable(c, spec)) < MaximumActiveTasks

Admissible(c, spec, now) ==
  /\ SessionIs(c, SessionOf[spec.owner], spec.generation)
  /\ ~Elapsed(spec.deadline, now)
  /\ ResourceOf[spec.key] \in DOMAIN ResourceLimits

\* A live flight for the same key, and the subscription the requester already
\* holds on it.  The code looks the subscription up by owner and generation
\* only: it may be one the owner has since cancelled.
Shares(c, spec, f) == /\ spec.key \in DOMAIN c.single_flights
                      /\ c.single_flights[spec.key] = f
                      /\ ~c.flights[f].cancelled
                      /\ Observed(c, f)

Subscriptions(c, spec, f) ==
  {t \in c.flights[f].subscribers \cap DOMAIN c.tasks :
     /\ c.tasks[t].owner = spec.owner
     /\ c.tasks[t].generation = spec.generation}

\* Fault: the duplicate lookup is left out.
MayJoinTwice(c, spec, f) == /\ Shares(c, spec, f)
                            /\ Cardinality(c.flights[f].subscribers) < MaximumSubscribers
                            /\ HasActiveCapacity(c, spec)

MayJoin(c, spec, f) == /\ Shares(c, spec, f)
                       /\ Subscriptions(c, spec, f) = {}
                       /\ Cardinality(c.flights[f].subscribers) < MaximumSubscribers
                       /\ HasActiveCapacity(c, spec)

MayOpen(c, spec) == /\ spec.key \notin DOMAIN c.single_flights
                    /\ HasActiveCapacity(c, spec)
                    /\ Cardinality(QueuedFlights(c)) < MaximumQueuedFlights

NewTask(spec, f, state) ==
  [flight |-> f, owner |-> spec.owner, generation |-> spec.generation,
   priority |-> spec.priority, deadline |-> spec.deadline,
   state |-> state, reason |-> "None", progress |-> NoProgress]

\* Fault: the id counter is not advanced.
WithTaskReusingId(c, task) ==
  [c EXCEPT !.tasks = [t \in DOMAIN c.tasks \cup {c.next_task} |->
                         IF t = c.next_task THEN task ELSE c.tasks[t]]]

WithTask(c, task) ==
  [c EXCEPT !.tasks = [t \in DOMAIN c.tasks \cup {c.next_task} |->
                         IF t = c.next_task THEN task ELSE c.tasks[t]],
            !.next_task = @ + 1]

SupersedeOlder(c, spec, except) ==
  Cancel(c, Supersedable(c, spec) \ {except}, "Superseded")

JoinFlight(c, spec, f) ==
  LET added == WithTask(c, NewTask(spec, f, c.flights[f].state))
  IN  SupersedeOlder([added EXCEPT !.flights =
                        [g \in DOMAIN c.flights |->
                           IF g = f
                           THEN [c.flights[g] EXCEPT !.subscribers = @ \cup {c.next_task}]
                           ELSE c.flights[g]]],
                     spec, c.next_task)

OpenFlight(c, spec, now) ==
  LET added == WithTask(c, NewTask(spec, c.next_flight, "Queued"))
      flight == [key |-> spec.key, state |-> "Queued", submitted_at |-> now,
                 subscribers |-> {c.next_task}, cancelled |-> FALSE]
  IN  SupersedeOlder([added EXCEPT
        !.flights = [g \in DOMAIN c.flights \cup {c.next_flight} |->
                       IF g = c.next_flight THEN flight ELSE c.flights[g]],
        !.single_flights = [k \in DOMAIN c.single_flights \cup {spec.key} |->
                       IF k = spec.key THEN c.next_flight ELSE c.single_flights[k]],
        !.next_flight = @ + 1], spec, c.next_task)

-----------------------------------------------------------------------------
(* Dispatch                                                                *)

EligibleSubscribers(c, f) == c.flights[f].subscribers \cap EligibleTasks(c)

FlightPriority(c, f) == Max({c.tasks[t].priority : t \in EligibleSubscribers(c, f)})

FlightDeadline(c, f) ==
  LET given == {c.tasks[t].deadline : t \in EligibleSubscribers(c, f)} \ {NoDeadline}
  IN  IF given = {} THEN NoDeadline ELSE Min(given)

\* compare_rank: priority, then the nearest deadline (any deadline before
\* none), then the earlier submission, then the smaller id.
Sooner(d, e) == d # NoDeadline /\ (e # NoDeadline => d < e)

\* Fault: flights submitted at one instant are not told apart.
OutranksWithTies(left, right) ==
  \/ left.priority > right.priority
  \/ /\ left.priority = right.priority
     /\ \/ Sooner(left.deadline, right.deadline)
        \/ /\ left.deadline = right.deadline
           /\ left.submitted_at < right.submitted_at

Outranks(left, right) ==
  \/ left.priority > right.priority
  \/ /\ left.priority = right.priority
     /\ \/ Sooner(left.deadline, right.deadline)
        \/ /\ left.deadline = right.deadline
           /\ \/ left.submitted_at < right.submitted_at
              \/ /\ left.submitted_at = right.submitted_at
                 /\ left.id < right.id

FlightRank(c, f) == [priority |-> FlightPriority(c, f), deadline |-> FlightDeadline(c, f),
                     submitted_at |-> c.flights[f].submitted_at, id |-> f]

Dispatchable(c) ==
  {f \in QueuedFlights(c) : /\ ResourceHasCapacity(c, ResourceOf[c.flights[f].key])
                            /\ Observed(c, f)}

\* The flight dispatch_next takes: a singleton, or empty if nothing can start.
Selected(c) ==
  {f \in Dispatchable(c) :
     \A g \in Dispatchable(c) \ {f} : Outranks(FlightRank(c, f), FlightRank(c, g))}

DispatchFlight(c, f) ==
  [c EXCEPT
     !.flights = [g \in DOMAIN c.flights |->
        IF g = f THEN [c.flights[g] EXCEPT !.state = "Running"] ELSE c.flights[g]],
     !.running_by_resource = [r \in Resources |->
        IF r = ResourceOf[c.flights[f].key] THEN c.running_by_resource[r] + 1
                                            ELSE c.running_by_resource[r]],
     !.tasks = [t \in DOMAIN c.tasks |->
        IF t \in EligibleSubscribers(c, f)
        THEN [c.tasks[t] EXCEPT !.state = "Running"] ELSE c.tasks[t]]]

-----------------------------------------------------------------------------
(* Progress and completion                                                 *)

Follows(new, old) ==
  \/ new.phase_index > old.phase_index
  \/ /\ new.phase_index = old.phase_index
     /\ new.phase_count = old.phase_count
     /\ new.total_units = old.total_units
     /\ new.completed_units >= old.completed_units

ValidProgress(p) == /\ p.phase_index < p.phase_count
                    /\ p.total_units > 0
                    /\ p.completed_units <= p.total_units

\* Fault: a report is written to every subscriber it does not regress.
ReportProgressToSome(c, f, p) ==
  [c EXCEPT !.tasks = [t \in DOMAIN c.tasks |->
     IF /\ t \in c.flights[f].subscribers
        /\ c.tasks[t].progress = NoProgress \/ Follows(p, c.tasks[t].progress)
     THEN [c.tasks[t] EXCEPT !.progress = p] ELSE c.tasks[t]]]

\* The loop over the subscribers stops at the first one the report regresses:
\* `written` are the subscribers, in id order, that were updated before it.
ReportProgress(c, f, p) ==
  LET subscribers == c.flights[f].subscribers \cap DOMAIN c.tasks
      regressed   == {t \in subscribers : /\ c.tasks[t].progress # NoProgress
                                          /\ ~Follows(p, c.tasks[t].progress)}
      written     == {t \in subscribers : \A r \in regressed : t < r}
  IN [c EXCEPT !.tasks = [t \in DOMAIN c.tasks |->
        IF t \in written THEN [c.tasks[t] EXCEPT !.progress = p] ELSE c.tasks[t]]]

IsRunning(c, f) == f \in DOMAIN c.flights /\ c.flights[f].state = "Running"

\* Fault: a cancelled subscriber is accepted.
AcceptsCancelled(c, t, now) ==
  /\ SessionIs(c, SessionOf[c.tasks[t].owner], c.tasks[t].generation)
  /\ ~Elapsed(c.tasks[t].deadline, now)

\* The gate of one logical subscriber.
Accepts(c, t, now) ==
  /\ SessionIs(c, SessionOf[c.tasks[t].owner], c.tasks[t].generation)
  /\ ~Elapsed(c.tasks[t].deadline, now)
  /\ IsEligible(c.tasks[t])

Accepted(c, f, now) ==
  {t \in c.flights[f].subscribers \cap DOMAIN c.tasks : Accepts(c, t, now)}

\* Fault: the slot is kept.
KeepSlot(c, r) == c

ReleaseSlot(c, r) ==
  [c EXCEPT !.running_by_resource = [x \in Resources |->
     IF x = r /\ c.running_by_resource[x] > 0
     THEN c.running_by_resource[x] - 1 ELSE c.running_by_resource[x]]]

\* c is the coordinator after `expire`.
CompleteFlight(c, f, outcome, now) ==
  ReleaseSlot(RetireFlights(c, {f},
                [t \in DOMAIN c.tasks |->
                   IF t \in Accepted(c, f, now) THEN outcome ELSE "Rejected"]),
              ResourceOf[c.flights[f].key])

\* What an adapter keeps of an accepted task until it publishes the result.
Receipt(c, t) == [task |-> t, owner |-> c.tasks[t].owner,
                  generation |-> c.tasks[t].generation,
                  deadline |-> c.tasks[t].deadline]

ValidForPublication(c, receipt, now) ==
  /\ SessionIs(c, SessionOf[receipt.owner], receipt.generation)
  /\ ~Elapsed(receipt.deadline, now)

=============================================================================
