------------------------ MODULE CoordinatorInvariants ------------------------
(***************************************************************************)
(* What holds of a coordinator whenever its lock is free, as predicates of *)
(* the coordinator, so that every module that owns one can state them of   *)
(* its own.                                                                *)
(***************************************************************************)
EXTENDS CoordinatorState

-----------------------------------------------------------------------------
(* Type                                                                    *)

IsStruct(c) ==
     c = [sessions |-> c.sessions, tasks |-> c.tasks, flights |-> c.flights,
          single_flights |-> c.single_flights,
          running_by_resource |-> c.running_by_resource, terminal |-> c.terminal,
          next_task |-> c.next_task, next_flight |-> c.next_flight]

\* The fields of the struct hold what their Rust types say.
CoordinatorType(c) ==
  /\ IsStruct(c)
  /\ IsMap(c.sessions, Sessions, Nat)
  /\ IsMap(c.tasks, Nat, TaskRecord)
  /\ IsMap(c.flights, Nat, FlightRecord)
  /\ IsMap(c.single_flights, Keys, Nat)
  /\ c.running_by_resource \in [Resources -> Nat]
  /\ IsMap(c.terminal, Nat, Final)
  /\ c.next_task \in Nat \ {0}
  /\ c.next_flight \in Nat \ {0}

-----------------------------------------------------------------------------
(* What holds of the coordinator between two calls                         *)

\* Every admitted task is either live or retired, exactly once, and ids are
\* never reused.
Accounted(c) ==
  /\ DOMAIN c.tasks \cap DOMAIN c.terminal = {}
  /\ DOMAIN c.tasks \cup DOMAIN c.terminal = 1 .. c.next_task - 1

\* A live task is a subscriber of exactly the flight it names, and a flight
\* has only live subscribers: neither can outlive the other.
Mutual(c) ==
  /\ \A t \in DOMAIN c.tasks :
       /\ c.tasks[t].flight \in DOMAIN c.flights
       /\ t \in c.flights[c.tasks[t].flight].subscribers
  /\ \A f \in DOMAIN c.flights : \A t \in c.flights[f].subscribers :
       t \in DOMAIN c.tasks /\ c.tasks[t].flight = f
  /\ \A f \in DOMAIN c.flights : f < c.next_flight

\* A task whose captured generation is no longer its session's has been told
\* so already: an eligible task is always current.
EligibleCurrent(c) ==
  \A t \in EligibleTasks(c) :
    SessionIs(c, SessionOf[c.tasks[t].owner], c.tasks[t].generation)

\* An eligible task is queued or running with its flight.
StatesAgree(c) ==
  \A t \in EligibleTasks(c) : c.tasks[t].state = c.flights[c.tasks[t].flight].state

\* The cancellation flag a worker polls is up exactly when nobody wants the
\* result: one cancelled subscriber does not stop shared work, and work that
\* lost them all is told.
FlagExact(c) ==
  \A f \in DOMAIN c.flights : c.flights[f].cancelled <=> ~Observed(c, f)

\* At most one flight per key is worth joining, and the index finds it: the
\* lookup never meets a flight that is gone or cancelling.
IndexExact(c) ==
  /\ \A k \in DOMAIN c.single_flights :
       /\ c.single_flights[k] \in DOMAIN c.flights
       /\ c.flights[c.single_flights[k]].key = k
       /\ ~c.flights[c.single_flights[k]].cancelled
  /\ \A f \in DOMAIN c.flights : ~c.flights[f].cancelled =>
       /\ c.flights[f].key \in DOMAIN c.single_flights
       /\ c.single_flights[c.flights[f].key] = f

\* The slot counters neither leak nor free a slot twice, and no resource runs
\* more flights than its limit.
SlotsExact(c) ==
  \A r \in Resources :
    /\ c.running_by_resource[r] = Cardinality(RunningFlights(c, r))
    /\ r \in DOMAIN ResourceLimits => c.running_by_resource[r] <= ResourceLimits[r]
    /\ r \notin DOMAIN ResourceLimits => c.running_by_resource[r] = 0

\* The admission limits bound what is still wanted.  Tasks of older
\* generations do not count against a requester, so DOMAIN tasks itself may
\* exceed maximum_active_tasks.
Bounded(c) ==
  /\ Cardinality(EligibleTasks(c)) <= MaximumActiveTasks
  /\ Cardinality({f \in QueuedFlights(c) : Observed(c, f)}) <= MaximumQueuedFlights
  /\ \A f \in DOMAIN c.flights :
       Cardinality(c.flights[f].subscribers) <= MaximumSubscribers

\* An owner never holds two live subscriptions for the same recipe and
\* generation that could both be published.
OneRequest(c) ==
  \A t, u \in EligibleTasks(c) :
    /\ c.tasks[t].owner = c.tasks[u].owner
    /\ c.flights[c.tasks[t].flight].key = c.flights[c.tasks[u].flight].key
    => t = u

\* report_progress is all or nothing: the subscribers that have seen a report
\* have all seen the same one.
SameProgress(c) ==
  \A f \in DOMAIN c.flights : \A t, u \in c.flights[f].subscribers :
    \/ c.tasks[t].progress = NoProgress
    \/ c.tasks[u].progress = NoProgress
    \/ c.tasks[t].progress = c.tasks[u].progress

=============================================================================
