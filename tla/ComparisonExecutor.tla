-------------------------- MODULE ComparisonExecutor --------------------------
(***************************************************************************)
(* ComparisonProductExecutor (src/comparison_runtime/executor.rs) driving  *)
(* its own TaskCoordinator.                                                *)
(*                                                                         *)
(* The main thread captures a job for a pane (cancel the pane's older job, *)
(* observe, submit and dispatch under one lock), cancels panes, and        *)
(* publishes completions.  Each captured job runs on a background thread:  *)
(* the runner of a flight computes, reports to the coordinator, and then   *)
(* stores the outcome in the cell its followers wait on.                   *)
(*                                                                         *)
(* A pane is an AuditionOwner; it has a coordinator session of its own     *)
(* (comparison_task_session), and the recipe key of a request holds the    *)
(* comparison, the pane's selection generation and the project revision.   *)
(* No request has a deadline, so every instant is 0.                       *)
(***************************************************************************)
EXTENDS CoordinatorInvariants

CONSTANTS
  Comparisons,   \* comparison definitions a pane can select
  Cpu,           \* ResourceClass::Cpu
  MaxGeneration, \* bound: selection generations
  MaxSelections, \* bound: selections of each pane
  MaxRevision    \* bound: project edits

\* The executor's coordinator has the default configuration, which gives Cpu
\* slots: a request is never refused for want of a resource.
ASSUME ComparisonAssumption ==
  /\ MaxGeneration \in Nat /\ MaxRevision \in Nat
  /\ MaxSelections \in [Owners -> 0 .. MaxGeneration]
  /\ Sessions = Owners /\ SessionOf = [o \in Owners |-> o]
  /\ Keys = [comparison : Comparisons, generation : 1 .. MaxGeneration,
             revision : 0 .. MaxRevision]
  /\ ResourceOf = [k \in Keys |-> Cpu] /\ Cpu \in DOMAIN ResourceLimits

VARIABLES
  coordinator, \* ComparisonTasks.coordinator
  cells,       \* keys of ComparisonTasks.flights: flights with a result cell
  outcomes,    \* the stored outcome of a cell: [ok, gates], gates by task
  active,      \* executor.active: the request a pane is waiting for
  selected,    \* the pane controller's last selection generation
  revision,    \* revision of the session's project snapshot
  jobs,        \* background jobs that have not returned
  completions, \* results on their way back to the main thread
  delivered    \* the last generation published to each pane

vars == <<coordinator, cells, outcomes, active, selected, revision, jobs,
          completions, delivered>>

Init == /\ coordinator = NewCoordinator
        /\ cells = {}
        /\ outcomes = NoEntries
        /\ active = NoEntries
        /\ selected = [o \in Owners |-> 0]
        /\ revision = 0
        /\ jobs = {}
        /\ completions = {}
        /\ delivered = [o \in Owners |-> 0]

-----------------------------------------------------------------------------
(* Capture                                                                 *)

\* cancel_owner: the request leaves `active` and its task is cancelled.
WithoutActive(o) == Restrict(active, DOMAIN active \ {o})

OwnerCancelled(o) ==
  IF o \in DOMAIN active
  THEN Cancel(coordinator, {active[o].task} \cap DOMAIN coordinator.tasks, "Requested")
  ELSE coordinator

Request(o, comparison) ==
  [owner |-> o, generation |-> selected[o] + 1,
   key |-> [comparison |-> comparison, generation |-> selected[o] + 1,
            revision |-> revision],
   priority |-> 0, deadline |-> NoDeadline]

\* The coordinator on which the submission is decided.
Admitting(o) == Expire(ObserveSession(OwnerCancelled(o), o, selected[o] + 1), 0)

Selects(o) == /\ selected[o] < MaxSelections[o]
              /\ selected' = [selected EXCEPT ![o] = @ + 1]

Fails(o) == /\ active' = WithoutActive(o)
            /\ UNCHANGED <<cells, jobs>>

Succeeds(spec, task, flight, runner) ==
  /\ active' = [o \in DOMAIN active \cup {spec.owner} |->
       IF o = spec.owner
       THEN [generation |-> spec.generation, revision |-> revision, task |-> task]
       ELSE active[o]]
  /\ jobs' = jobs \cup {[owner |-> spec.owner, generation |-> spec.generation,
                         revision |-> revision, task |-> task, flight |-> flight,
                         runner |-> runner, reported |-> FALSE]}
  /\ cells' = IF runner THEN cells \cup {flight} ELSE cells

\* The request is refused after the older job was cancelled and before
\* anything is submitted: a missing definition, a stale render plan.
CaptureRefused(o) ==
  /\ Selects(o)
  /\ coordinator' = OwnerCancelled(o)
  /\ Fails(o)
  /\ UNCHANGED <<outcomes, revision, completions, delivered>>

CaptureNotAdmitted(o) ==
  /\ Selects(o)
  /\ \E comparison \in Comparisons, c \in {Admitting(o)} :
       LET spec == Request(o, comparison) IN
       /\ ~MayOpen(c, spec)
       /\ {f \in DOMAIN c.flights : MayJoin(c, spec, f)} = {}
       /\ coordinator' = c
  /\ Fails(o)
  /\ UNCHANGED <<outcomes, revision, completions, delivered>>

\* The submission joined a flight.  If the flight has no cell the capture
\* fails, but the subscription it just made stays.
CaptureJoins(o) ==
  /\ Selects(o)
  /\ \E comparison \in Comparisons, c \in {Admitting(o)} :
       \E f \in {g \in DOMAIN c.flights : MayJoin(c, Request(o, comparison), g)} :
         LET spec == Request(o, comparison) IN
         /\ coordinator' = JoinFlight(c, spec, f)
         /\ IF f \in cells THEN Succeeds(spec, c.next_task, f, FALSE) ELSE Fails(o)
  /\ UNCHANGED <<outcomes, revision, completions, delivered>>

\* The submission opened a flight; dispatch_next decides what happens to it.
\* If it starts nothing, or a flight left over from an earlier capture, the
\* capture fails and what was submitted and dispatched stays.
CaptureOpens(o) ==
  /\ Selects(o)
  /\ \E comparison \in Comparisons, c \in {Admitting(o)} :
       LET spec == Request(o, comparison) IN
       /\ MayOpen(c, spec)
       /\ \E opened \in {Expire(OpenFlight(c, spec, 0), 0)} :
            \/ /\ Dispatchable(opened) = {}
               /\ coordinator' = opened
               /\ Fails(o)
            \/ \E f \in Selected(opened) :
                 /\ coordinator' = DispatchFlight(opened, f)
                 /\ IF f = c.next_flight THEN Succeeds(spec, c.next_task, f, TRUE)
                                         ELSE Fails(o)
  /\ UNCHANGED <<outcomes, revision, completions, delivered>>

\* The pane closes or its controller is dropped.
CancelOwner(o) ==
  /\ o \in DOMAIN active
  /\ coordinator' = OwnerCancelled(o)
  /\ active' = WithoutActive(o)
  /\ UNCHANGED <<cells, outcomes, selected, revision, jobs, completions, delivered>>

-----------------------------------------------------------------------------
(* Background jobs                                                         *)

\* The job's own token: cancel_owner is the only thing that raises it.
Wanted(j) == j.owner \in DOMAIN active /\ active[j.owner].generation = j.generation

Completion(j, gates) ==
  [owner |-> j.owner, generation |-> j.generation, revision |-> j.revision,
   task |-> j.task, gate |-> gates[j.task]]

\* The completion gate of every subscriber.
Gates(c, f) == [t \in c.flights[f].subscribers |->
                  IF t \in Accepted(c, f, 0) THEN "Accepted" ELSE "Rejected"]

\* The runner has finished computing and reports under the lock.  It stops
\* with Cancelled only when it saw the flight's cancellation flag.
RunnerReports(j) ==
  /\ j \in jobs /\ j.runner /\ ~j.reported
  /\ \E outcome \in Outcomes, c \in {Expire(coordinator, 0)} :
       /\ IsRunning(c, j.flight)
       /\ outcome = "Cancelled" => c.flights[j.flight].cancelled
       /\ coordinator' = CompleteFlight(c, j.flight, outcome, 0)
       /\ outcomes' = [f \in DOMAIN outcomes \cup {j.flight} |->
            IF f = j.flight
            THEN [ok |-> outcome = "Succeeded", stored |-> FALSE,
                  gates |-> Gates(c, f)]
            ELSE outcomes[f]]
  /\ jobs' = (jobs \ {j}) \cup {[j EXCEPT !.reported = TRUE]}
  /\ UNCHANGED <<cells, active, selected, revision, completions, delivered>>

\* Fault: the outcome is stored only if the computation succeeded.
StoreSuccess(f) == [outcomes EXCEPT ![f].stored = outcomes[f].ok]

Store(f) == [outcomes EXCEPT ![f].stored = TRUE]

\* It then stores the outcome, wakes the followers, drops the cell from the
\* map and returns its own completion.
RunnerReturns(j) ==
  /\ j \in jobs /\ j.runner /\ j.reported
  /\ outcomes' = Store(j.flight)
  /\ cells' = cells \ {j.flight}
  /\ completions' = IF outcomes[j.flight].ok
                    THEN completions \cup {Completion(j, outcomes[j.flight].gates)}
                    ELSE completions
  /\ jobs' = jobs \ {j}
  /\ UNCHANGED <<coordinator, active, selected, revision, delivered>>

Stored(f) == f \in DOMAIN outcomes /\ outcomes[f].stored

\* A follower polls: it stops when its own token is raised before an outcome
\* is there, and otherwise returns the shared outcome with its own gate.
FollowerReturns(j) ==
  /\ j \in jobs /\ ~j.runner
  /\ \/ /\ ~Stored(j.flight)
        /\ ~Wanted(j)
        /\ UNCHANGED completions
     \/ /\ Stored(j.flight)
        /\ completions' =
             IF outcomes[j.flight].ok /\ j.task \in DOMAIN outcomes[j.flight].gates
             THEN completions \cup {Completion(j, outcomes[j.flight].gates)}
             ELSE completions
  /\ jobs' = jobs \ {j}
  /\ UNCHANGED <<coordinator, cells, outcomes, active, selected, revision, delivered>>

-----------------------------------------------------------------------------
(* Publication                                                             *)

\* The receipt of an accepted task, checked again with validate_for_publication.
HoldsAuthority(d) ==
  /\ d.gate = "Accepted"
  /\ SessionIs(coordinator, SessionOf[d.owner], d.generation)

\* Fault: the receipt alone decides.
MayPublishByReceipt(d) == HoldsAuthority(d) /\ d.revision = revision

MayPublish(d) ==
  /\ d.owner \in DOMAIN active
  /\ active[d.owner].generation = d.generation
  /\ HoldsAuthority(d)
  /\ active[d.owner].revision = revision
  /\ d.revision = revision

Publish(d) ==
  /\ d \in completions
  /\ MayPublish(d)
  /\ delivered' = [delivered EXCEPT ![d.owner] = d.generation]
  /\ active' = WithoutActive(d.owner)
  /\ completions' = completions \ {d}
  /\ UNCHANGED <<coordinator, cells, outcomes, selected, revision, jobs>>

PublishRefused(d) ==
  /\ d \in completions
  /\ ~MayPublish(d)
  /\ completions' = completions \ {d}
  /\ UNCHANGED <<coordinator, cells, outcomes, active, selected, revision, jobs, delivered>>

Edit == /\ revision < MaxRevision
        /\ revision' = revision + 1
        /\ UNCHANGED <<coordinator, cells, outcomes, active, selected, jobs,
                       completions, delivered>>

-----------------------------------------------------------------------------

Next ==
  \/ \E o \in Owners : \/ CaptureRefused(o)
                       \/ CaptureNotAdmitted(o)
                       \/ CaptureJoins(o)
                       \/ CaptureOpens(o)
                       \/ CancelOwner(o)
  \/ \E j \in jobs : RunnerReports(j) \/ RunnerReturns(j) \/ FollowerReturns(j)
  \/ \E d \in completions : Publish(d) \/ PublishRefused(d)
  \/ Edit

Spec == Init /\ [][Next]_vars

(***************************************************************************)
(* A background job runs to its end once it was spawned, and a follower    *)
(* wakes every 20 ms to look at its cell and its token.  The main thread   *)
(* need not do anything.                                                   *)
(***************************************************************************)
JobIs(j, o, g) == j.owner = o /\ j.generation = g

JobStep(o, g) == \E j \in {k \in jobs : JobIs(k, o, g)} :
                   RunnerReports(j) \/ RunnerReturns(j) \/ FollowerReturns(j)

Fairness == \A o \in Owners, g \in 1 .. MaxGeneration : WF_vars(JobStep(o, g))

FairSpec == Spec /\ Fairness

-----------------------------------------------------------------------------
(* Properties                                                              *)

JobRecord == [owner : Owners, generation : 1 .. MaxGeneration,
              revision : 0 .. MaxRevision, task : Nat, flight : Nat,
              runner : BOOLEAN, reported : BOOLEAN]

TypeOK == /\ CoordinatorType(coordinator)
          /\ cells \subseteq Nat
          /\ IsMap(active, Owners, [generation : 1 .. MaxGeneration,
                                    revision : 0 .. MaxRevision, task : Nat])
          /\ selected \in [Owners -> 0 .. MaxGeneration]
          /\ delivered \in [Owners -> 0 .. MaxGeneration]
          /\ revision \in 0 .. MaxRevision
          /\ jobs \subseteq JobRecord

\* No capture, cancellation or expiry takes a dispatched flight away from the
\* thread that computes it, and no flight is computed twice: `complete` always
\* finds the flight running, so the followers' cell is always filled.
RunnersHoldTheirFlights ==
  \A j \in jobs : j.runner /\ ~j.reported =>
    /\ IsRunning(coordinator, j.flight)
    /\ \A k \in jobs : k.runner /\ k.flight = j.flight => k = j

\* When a follower finds the shared outcome it finds its own gate in it, and
\* until then a runner is at work on it: the follower is not left waiting on a
\* cell nobody will fill.
FollowersAreAnswered ==
  \A j \in jobs : ~j.runner =>
    IF Stored(j.flight) THEN j.task \in DOMAIN outcomes[j.flight].gates
    ELSE \E k \in jobs : k.runner /\ k.flight = j.flight

\* A pane is only ever given the result of its newest selection, however the
\* jobs of its older selections end.
OnlyTheNewestSelectionIsPublished ==
  [][\A o \in Owners : delivered'[o] # delivered[o] =>
       delivered'[o] = selected[o] /\ delivered'[o] > delivered[o]]_vars

\* Every background job returns, whatever is cancelled around it.
EveryJobReturns ==
  \A o \in Owners, g \in 1 .. MaxGeneration :
    (\E j \in jobs : JobIs(j, o, g)) ~> ~\E j \in jobs : JobIs(j, o, g)

\* "The executor must call `complete` exactly once (including
\* failure/cancellation)" (TaskDispatch): a dispatched flight has a thread
\* that will complete it.
DispatchedFlightsHaveARunner ==
  \A f \in DOMAIN coordinator.flights : IsRunning(coordinator, f) =>
    \E j \in jobs : j.runner /\ ~j.reported /\ j.flight = f

=============================================================================
