--------------------------- MODULE TaskCoordinator ---------------------------
(***************************************************************************)
(* One `TaskCoordinator` used the way its callers use it: every method     *)
(* runs under the owner's mutex and is one step.  Panes submit and cancel, *)
(* the session owner advances generations, a worker loop polls for work,   *)
(* workers report and complete, and adapters hold accepted receipts for a  *)
(* while before they publish the result.                                   *)
(*                                                                         *)
(* `clock` is the counter callers stamp their calls with (TaskInstant); it *)
(* is read while the lock is held, so `now` never runs backwards.          *)
(***************************************************************************)
EXTENDS CoordinatorInvariants

CONSTANTS
  Outcome,          \* outcomes a worker reports
  Priorities,       \* priorities a requester asks for
  Deadlines,        \* deadlines a requester asks for
  ProgressReports,  \* reports a worker makes
  ClosableSessions, \* sessions whose owner may call close_session
  MaxTasks,         \* bound: task ids handed out
  MaxGeneration,    \* bound: session generations
  MaxClock          \* bound: instants

ASSUME InputAssumption ==
  /\ Outcome \subseteq Outcomes
  /\ Priorities \subseteq Nat
  /\ Deadlines \subseteq Deadline
  /\ ProgressReports \subseteq Progress
  /\ NoProgress \notin Progress
  /\ ClosableSessions \subseteq Sessions
  /\ MaxTasks \in Nat /\ MaxGeneration \in Nat /\ MaxClock \in Nat

VARIABLES
  coordinator, \* the struct behind the mutex
  clock,       \* the next TaskInstant
  receipts,    \* accepted receipts whose result is not yet published
  published    \* ids of the tasks whose result an adapter published

vars == <<coordinator, clock, receipts, published>>

Init == /\ coordinator = NewCoordinator
        /\ clock = 0
        /\ receipts = {}
        /\ published = {}

-----------------------------------------------------------------------------
(* Session owners                                                          *)

Observe(s, generation) ==
  /\ AdvancesSession(coordinator, s, generation)
  /\ coordinator' = ObserveSession(coordinator, s, generation)
  /\ UNCHANGED <<clock, receipts, published>>

Close(s) ==
  /\ s \in DOMAIN coordinator.sessions
  /\ coordinator' = CloseSession(coordinator, s)
  /\ UNCHANGED <<clock, receipts, published>>

-----------------------------------------------------------------------------
(* Requesters.  Every submission first expires what is overdue.            *)

Expired == Expire(coordinator, clock)

Specs == [owner : Owners, generation : 0 .. MaxGeneration, key : Keys,
          priority : Priorities, deadline : Deadlines]

SubmitJoining(spec) ==
  /\ coordinator.next_task <= MaxTasks
  /\ Admissible(Expired, spec, clock)
  /\ \E f \in DOMAIN Expired.flights :
       /\ MayJoin(Expired, spec, f)
       /\ coordinator' = JoinFlight(Expired, spec, f)
  /\ UNCHANGED <<clock, receipts, published>>

SubmitOpening(spec) ==
  /\ coordinator.next_task <= MaxTasks
  /\ Admissible(Expired, spec, clock)
  /\ MayOpen(Expired, spec)
  /\ coordinator' = OpenFlight(Expired, spec, clock)
  /\ UNCHANGED <<clock, receipts, published>>

\* Refused, or answered with the subscription the owner already holds.
SubmitWithoutEffect(spec) ==
  /\ \/ ~Admissible(Expired, spec, clock)
     \/ /\ ~MayOpen(Expired, spec)
        /\ \A f \in DOMAIN Expired.flights : ~MayJoin(Expired, spec, f)
  /\ coordinator' = Expired
  /\ UNCHANGED <<clock, receipts, published>>

CancelTask(t) ==
  /\ t \in DOMAIN coordinator.tasks
  /\ coordinator' = Cancel(coordinator, {t}, "Requested")
  /\ UNCHANGED <<clock, receipts, published>>

CancelOwner(o) ==
  /\ coordinator' =
       Cancel(coordinator,
              {t \in DOMAIN coordinator.tasks : coordinator.tasks[t].owner = o},
              "Requested")
  /\ UNCHANGED <<clock, receipts, published>>

-----------------------------------------------------------------------------
(* Workers                                                                 *)

Dispatch ==
  /\ \E f \in Selected(Expired) : coordinator' = DispatchFlight(Expired, f)
  /\ UNCHANGED <<clock, receipts, published>>

\* dispatch_next returns None, but has expired what is overdue.
DispatchNothing ==
  /\ Dispatchable(Expired) = {}
  /\ coordinator' = Expired
  /\ UNCHANGED <<clock, receipts, published>>

Report(f, p) ==
  /\ IsRunning(coordinator, f)
  /\ ValidProgress(p)
  /\ coordinator' = ReportProgress(coordinator, f, p)
  /\ UNCHANGED <<clock, receipts, published>>

Complete(f) ==
  /\ IsRunning(Expired, f)
  /\ \E outcome \in Outcome :
       coordinator' = CompleteFlight(Expired, f, outcome, clock)
  /\ receipts' = receipts \cup {Receipt(Expired, t) : t \in Accepted(Expired, f, clock)}
  /\ UNCHANGED <<clock, published>>

-----------------------------------------------------------------------------
(* Adapters                                                                *)

\* validate_for_publication, then the publication itself.
Publish(r) ==
  /\ r \in receipts
  /\ ValidForPublication(coordinator, r, clock)
  /\ published' = published \cup {r.task}
  /\ receipts' = receipts \ {r}
  /\ UNCHANGED <<coordinator, clock>>

Discard(r) ==
  /\ r \in receipts
  /\ ~ValidForPublication(coordinator, r, clock)
  /\ receipts' = receipts \ {r}
  /\ UNCHANGED <<coordinator, clock, published>>

Tick == /\ clock < MaxClock
        /\ clock' = clock + 1
        /\ UNCHANGED <<coordinator, receipts, published>>

-----------------------------------------------------------------------------

Next ==
  \/ \E s \in Sessions, g \in 0 .. MaxGeneration : Observe(s, g)
  \/ \E s \in ClosableSessions : Close(s)
  \/ \E spec \in Specs : \/ SubmitJoining(spec)
                         \/ SubmitOpening(spec)
                         \/ SubmitWithoutEffect(spec)
  \/ \E t \in DOMAIN coordinator.tasks : CancelTask(t)
  \/ \E o \in Owners : CancelOwner(o)
  \/ Dispatch
  \/ DispatchNothing
  \/ \E f \in DOMAIN coordinator.flights :
       \/ \E p \in ProgressReports : Report(f, p)
       \/ Complete(f)
  \/ \E r \in receipts : Publish(r) \/ Discard(r)
  \/ Tick

Spec == Init /\ [][Next]_vars

(***************************************************************************)
(* The worker loop polls whenever it is notified and after every           *)
(* completion, a worker that took a flight reports its end, and an adapter *)
(* handles every receipt it holds.  Nothing forces a requester, a session  *)
(* owner or the clock.  Weak fairness of the worker steps is spelled out,  *)
(* infinitely often disabled or infinitely often taken, because TLC takes  *)
(* minutes to evaluate ENABLED of a coordinator method.                    *)
(***************************************************************************)
Handle == \E r \in receipts : Publish(r) \/ Discard(r)

Fairness ==
  /\ []<>(Dispatchable(Expired) = {}) \/ []<><<Dispatch>>_vars
  /\ \/ []<>(Dispatchable(Expired) # {} \/ Expired = coordinator)
     \/ []<><<DispatchNothing>>_vars
  /\ \A f \in 1 .. MaxTasks :
       []<>~IsRunning(coordinator, f) \/ []<><<Complete(f)>>_vars
  /\ WF_vars(Handle)

FairSpec == Spec /\ Fairness

-----------------------------------------------------------------------------
(* Invariants                                                              *)

ReceiptRecord == [task : Nat, owner : Owners, generation : Nat, deadline : Deadline]

TypeOK == /\ CoordinatorType(coordinator)
          /\ clock \in Nat
          /\ receipts \subseteq ReceiptRecord
          /\ published \subseteq Nat

\* submit, complete and the expiry of abandoned work never lose a task and never
\* retire one twice: every id handed out is live or in the terminal record.
EveryTaskIsAccountedFor == Accounted(coordinator)

\* A live task subscribes to exactly the flight it names, and no flight keeps a
\* subscriber that retire_task removed.
SubscriptionsAreMutual == Mutual(coordinator)

\* observe_session and close_session revoke every task of the session before
\* they return: a task that is not cancelling captured the current generation,
\* and its state is its flight's.
EligibleTasksAreCurrent == EligibleCurrent(coordinator) /\ StatesAgree(coordinator)

\* A flight's cancellation flag is up exactly when none of its subscribers is
\* eligible, whatever mix of cancellations, expiries and joins came before.
CancelledIffUnobserved == FlagExact(coordinator)

\* single_flights names exactly the flights that are not cancelling, so the
\* lookup in submit never meets a missing or a cancelling flight, and two live
\* flights never compute the same key.
IndexedIffShareable == IndexExact(coordinator)

\* running_by_resource counts the running flights exactly and never exceeds the
\* configured limit: no path leaks a slot or releases one twice.
SlotsMatchRunningFlights == SlotsExact(coordinator)

\* The work somebody still wants stays within the three admission limits.
AdmissionIsBounded == Bounded(coordinator)

\* The duplicate test in submit keeps an owner from holding two eligible tasks
\* for one key.
OneRequestPerOwner == OneRequest(coordinator)

\* report_progress writes a report to all subscribers or to none: those that
\* have a report all have the same one.
SubscribersSeeTheSameProgress == SameProgress(coordinator)

\* compare_rank leaves no tie: whenever some flight can start, dispatch_next has
\* exactly one to take, so no order of the map decides it.
DispatchIsDecided ==
  Dispatchable(Expired) # {} => Cardinality(Selected(Expired)) = 1

-----------------------------------------------------------------------------
(* Publication authority                                                   *)

Holds(i) == {r \in receipts : r.task = i}

\* A request keeps its authority while its task is eligible and, once it is
\* accepted, while its receipt would still pass validate_for_publication.
IsPending(i) ==
  \/ i \in EligibleTasks(coordinator)
  \/ \E r \in Holds(i) : ValidForPublication(coordinator, r, clock)

Requests == 1 .. MaxTasks

Status == [i \in Requests |-> IF i \in published THEN "published"
                              ELSE IF IsPending(i) THEN "pending"
                              ELSE IF i >= coordinator.next_task THEN "unknown"
                              ELSE "withdrawn"]

Authority == INSTANCE RequestAuthority WITH status <- Status

\* Every step the coordinator, its workers and its adapters take is a step of
\* RequestAuthority: a result is published at most once, only for a request
\* that kept its authority without a gap since it was admitted.
PublicationNeedsAuthority == Authority!Spec

\* dispatch_next starts only work somebody still wants in time, and never a
\* flight whose cancellation flag is already up.
OnlyWantedWorkStarts ==
  [][\A f \in DOMAIN coordinator.flights \cap DOMAIN coordinator'.flights :
       /\ coordinator.flights[f].state = "Queued"
       /\ coordinator'.flights[f].state = "Running"
       => /\ ~coordinator.flights[f].cancelled
          /\ \E t \in EligibleSubscribers(coordinator, f) :
               ~Elapsed(coordinator.tasks[t].deadline, clock)]_vars

-----------------------------------------------------------------------------
(* Liveness                                                                *)

\* No request stays pending for ever: its flight is dispatched, completed and
\* its receipt handled, or its authority is withdrawn.
EveryRequestIsResolved == \A i \in Requests : IsPending(i) ~> ~IsPending(i)

\* Work that everybody abandoned releases its slot and its queue entry.
CancelledFlightsAreRemoved ==
  \A f \in 1 .. MaxTasks :
    (f \in DOMAIN coordinator.flights /\ ~Observed(coordinator, f))
      ~> f \notin DOMAIN coordinator.flights

=============================================================================
