----------------------- MODULE ComparisonExecutorProofs -----------------------
(***************************************************************************)
(* The comparison executor for every set of panes, comparisons and bounds, *)
(* and every configuration of its coordinator: no flight that a background *)
(* job computes is taken away from it, no follower waits on a cell nobody  *)
(* fills, and a pane is given the result of its newest selection only.     *)
(***************************************************************************)
EXTENDS ComparisonExecutor, AdmissionProofs

-----------------------------------------------------------------------------
(* What a capture or a report does to the flights of others                *)

\* Running flights go on running with the subscribers they have, and ids are
\* not handed out twice.
Carries(c, d) ==
  /\ \A f : IsRunning(c, f) =>
       IsRunning(d, f) /\ c.flights[f].subscribers \subseteq d.flights[f].subscribers
  /\ c.next_task \in Nat /\ d.next_task \in Nat /\ c.next_task <= d.next_task
  /\ c.next_flight \in Nat /\ d.next_flight \in Nat /\ c.next_flight <= d.next_flight
  /\ \A f \in DOMAIN d.flights :
       f \in DOMAIN c.flights \/ (f \in Nat /\ c.next_flight <= f)

\* One after the other.
LEMMA CarriesOn ==
  ASSUME NEW c, NEW d, NEW e, Carries(c, d), Carries(d, e)
  PROVE  Carries(c, e)
<1>1. /\ c.next_task \in Nat /\ d.next_task \in Nat /\ e.next_task \in Nat
      /\ c.next_flight \in Nat /\ d.next_flight \in Nat /\ e.next_flight \in Nat
      /\ c.next_task <= d.next_task /\ d.next_task <= e.next_task
      /\ c.next_flight <= d.next_flight /\ d.next_flight <= e.next_flight
  BY DEF Carries
<1>2. ASSUME NEW f \in DOMAIN e.flights
      PROVE  f \in DOMAIN c.flights \/ (f \in Nat /\ c.next_flight <= f)
  BY <1>1 DEF Carries
<1>3. ASSUME NEW f, IsRunning(c, f)
      PROVE  IsRunning(e, f) /\ c.flights[f].subscribers \subseteq e.flights[f].subscribers
  BY <1>3 DEF Carries
<1> QED BY <1>1, <1>2, <1>3 DEF Carries

\* Cancelling tasks and retiring queued flights does.
LEMMA LeavesCarries ==
  ASSUME NEW c, Sound(c), NEW d, NEW F \in SUBSET QueuedFlights(c), Leaves(c, d, F)
  PROVE  Carries(c, d)
<1>1. c.next_task \in Nat /\ c.next_flight \in Nat
  BY DEF Sound, Consistent, CoordinatorType
<1>2. \A f \in F : c.flights[f].state # "Running"
  BY DEF QueuedFlights
<1> QED BY <1>1, <1>2 DEF Leaves, Carries, IsRunning

\* Admitting a request does.
LEMMA AdmitsCarries ==
  ASSUME NEW c, Sound(c), NEW d, NEW spec, NEW f, Admits(c, d, spec, f)
  PROVE  Carries(c, d)
<1>1. c.next_task \in Nat /\ c.next_flight \in Nat
  BY DEF Sound, Consistent, CoordinatorType
<1>2. Adds(c, d, spec, f)
  BY DEF Admits
<1>3. /\ d.next_task = c.next_task + 1
      /\ d.next_flight = c.next_flight \/ d.next_flight = c.next_flight + 1
      /\ \A g \in DOMAIN d.flights : g \in DOMAIN c.flights \/ g = c.next_flight
  BY <1>2 DEF Adds
<1>4. ASSUME NEW g, IsRunning(c, g)
      PROVE  IsRunning(d, g) /\ c.flights[g].subscribers \subseteq d.flights[g].subscribers
  BY <1>2, <1>4 DEF Adds, IsRunning
<1> QED BY <1>1, <1>3, <1>4 DEF Carries

\* Starting a flight does.
LEMMA StartsCarries ==
  ASSUME NEW c, Sound(c), NEW d, NEW f, Starts(c, d, f)
  PROVE  Carries(c, d)
<1>1. c.next_task \in Nat /\ c.next_flight \in Nat
  BY DEF Sound, Consistent, CoordinatorType
<1> QED BY <1>1 DEF Starts, SameRequests, Carries, IsRunning

\* A pane's older job is cancelled: its task, nothing else.
LEMMA OwnerCancelledLeaves ==
  ASSUME Sound(coordinator), NEW o
  PROVE  /\ Sound(OwnerCancelled(o)) /\ Leaves(coordinator, OwnerCancelled(o), {})
         /\ GrantsNothing(coordinator, OwnerCancelled(o))
<1>1. CASE o \in DOMAIN active
  <2> DEFINE S == {active[o].task} \cap DOMAIN coordinator.tasks
  <2>1. OwnerCancelled(o) = Cancel(coordinator, S, "Requested")
    BY <1>1 DEF OwnerCancelled
  <2> HIDE DEF S
  <2> QED BY <2>1, CancelLeaves, CancelSound DEF Reasons, Sound, Consistent
<1>2. CASE o \notin DOMAIN active
  BY <1>2 DEF OwnerCancelled, Leaves, GrantsNothing
<1> QED BY <1>1, <1>2

\* No pane's session is ahead of the pane's selections.
SessionsFollow(c) == \A o \in Owners \cap DOMAIN c.sessions : c.sessions[o] <= selected[o]

\* Until the submission is decided a capture only cancels and retires, and then
\* the pane's session is at the generation of the request.
LEMMA AdmittingLeaves ==
  ASSUME Sound(coordinator), EligibleCurrent(coordinator), SessionsFollow(coordinator),
         NEW o \in Owners, selected[o] \in Nat
  PROVE  /\ Sound(Admitting(o)) /\ EligibleCurrent(Admitting(o))
         /\ \E F \in SUBSET QueuedFlights(coordinator) :
              Leaves(coordinator, Admitting(o), F)
         /\ SessionIs(Admitting(o), o, selected[o] + 1)
         /\ \A p \in Owners \cap DOMAIN Admitting(o).sessions :
              p # o => Admitting(o).sessions[p] <= selected[p]
<1> DEFINE g == selected[o] + 1
           a == OwnerCancelled(o)
           b == ObserveSession(a, o, g)
           d == Expire(b, 0)
<1>1. /\ Sound(a) /\ EligibleCurrent(a) /\ a.sessions = coordinator.sessions
      /\ Leaves(coordinator, a, {})
  BY OwnerCancelledLeaves, CurrentIfNothingGranted DEF GrantsNothing
<1>2. o \in Sessions /\ g \in Nat
  BY ComparisonAssumption
<1>3. AdvancesSession(a, o, g)
  <2>1. o \in DOMAIN a.sessions => a.sessions[o] \in Nat /\ a.sessions[o] <= selected[o]
    BY <1>1 DEF SessionsFollow, Sound, Consistent, CoordinatorType, IsMap
  <2> QED BY <2>1 DEF AdvancesSession
<1>4. Admitting(o) = d
  BY DEF Admitting
<1> HIDE DEF a, g
<1>5. /\ Sound(b) /\ EligibleCurrent(b) /\ Leaves(a, b, {})
      /\ SessionIs(b, o, g) /\ DOMAIN b.sessions = DOMAIN a.sessions \cup {o}
      /\ \A x \in DOMAIN a.sessions \ {o} : b.sessions[x] = a.sessions[x]
  BY <1>1, <1>2, <1>3, ObserveSessionLeaves, ObserveSessionSound, ObserveSessionMoves
     DEF SessionIs
<1> HIDE DEF b
<1>6. Sound(d) /\ GrantsNothing(b, d) /\ \E F \in SUBSET QueuedFlights(b) : Leaves(b, d, F)
  BY <1>5, ExpireSound, ExpireLeaves DEF Sound
<1> HIDE DEF d
<1>7. EligibleCurrent(d) /\ d.sessions = b.sessions
  BY <1>5, <1>6, CurrentIfNothingGranted DEF GrantsNothing
<1>8. PICK F \in SUBSET QueuedFlights(b) : Leaves(b, d, F)
  BY <1>6
<1>9. Leaves(coordinator, b, {})
  BY <1>1, <1>5, CancelsThenLeaves
<1>10. QueuedFlights(b) \subseteq QueuedFlights(coordinator)
  BY <1>9 DEF Leaves, QueuedFlights
<1>11. Leaves(coordinator, d, F)
  BY <1>8, <1>9, CancelsThenLeaves
<1>12. SessionIs(d, o, selected[o] + 1)
  BY <1>5, <1>7 DEF SessionIs, g
<1>13. \A p \in Owners \cap DOMAIN d.sessions : p # o => d.sessions[p] <= selected[p]
  BY <1>1, <1>5, <1>7 DEF SessionsFollow
<1> QED BY <1>4, <1>6, <1>7, <1>8, <1>10, <1>11, <1>12, <1>13

\* The request of a capture is a task the coordinator takes.
LEMMA RequestAdmissible ==
  ASSUME TypeOK, NEW o \in Owners, selected[o] < MaxSelections[o],
         NEW comparison \in Comparisons, NEW c, SessionIs(c, o, selected[o] + 1)
  PROVE  /\ selected[o] + 1 \in 1 .. MaxGeneration
         /\ Request(o, comparison) \in TaskSpec
         /\ Admissible(c, Request(o, comparison), 0)
<1> DEFINE g == selected[o] + 1
           k == [comparison |-> comparison, generation |-> g, revision |-> revision]
           spec == Request(o, comparison)
<1>1. /\ MaxSelections[o] \in 0 .. MaxGeneration /\ MaxGeneration \in Nat
      /\ selected[o] \in 0 .. MaxGeneration /\ revision \in 0 .. MaxRevision
  BY ComparisonAssumption DEF TypeOK
<1>2. g \in 1 .. MaxGeneration
  BY <1>1
<1>3. k \in Keys /\ ResourceOf[k] \in DOMAIN ResourceLimits /\ SessionOf[o] = o
  BY <1>1, <1>2, ComparisonAssumption
<1>4. spec = [owner |-> o, generation |-> g, key |-> k, priority |-> 0,
              deadline |-> NoDeadline]
  BY DEF Request
<1> HIDE DEF spec, k
<1>5. spec \in TaskSpec
  BY <1>2, <1>3, <1>4 DEF TaskSpec, Deadline
<1>6. Admissible(c, spec, 0)
  BY <1>3, <1>4 DEF Admissible, Elapsed
<1> QED BY <1>2, <1>5, <1>6 DEF spec

\* What every capture leaves: a sound coordinator with the running flights of
\* the one before, and no session ahead of its pane.
Captured(c, o) ==
  /\ Sound(c) /\ EligibleCurrent(c) /\ Carries(coordinator, c)
  /\ \A p \in Owners \cap DOMAIN c.sessions :
       c.sessions[p] <= IF p = o THEN selected[p] + 1 ELSE selected[p]

\* A capture that goes no further than the decision.
LEMMA AdmittingCaptured ==
  ASSUME Sound(coordinator), EligibleCurrent(coordinator), SessionsFollow(coordinator),
         NEW o \in Owners, selected[o] \in Nat
  PROVE  Captured(Admitting(o), o)
<1> DEFINE c == Admitting(o)
<1>1. /\ Sound(c) /\ EligibleCurrent(c) /\ SessionIs(c, o, selected[o] + 1)
      /\ \A p \in Owners \cap DOMAIN c.sessions : p # o => c.sessions[p] <= selected[p]
      /\ \E F \in SUBSET QueuedFlights(coordinator) : Leaves(coordinator, c, F)
  BY AdmittingLeaves
<1> HIDE DEF c
<1>2. Carries(coordinator, c)
  BY <1>1, LeavesCarries
<1>3. \A p \in Owners \cap DOMAIN c.sessions :
        c.sessions[p] <= IF p = o THEN selected[p] + 1 ELSE selected[p]
  BY <1>1 DEF SessionIs
<1> QED BY <1>1, <1>2, <1>3 DEF Captured, c

\* A later call in the same capture that moves no session keeps it.
LEMMA CapturedOn ==
  ASSUME NEW c, NEW d, NEW o, Captured(c, o), Sound(d), EligibleCurrent(d),
         Carries(c, d), d.sessions = c.sessions
  PROVE  Captured(d, o)
BY CarriesOn DEF Captured

\* expire, called again by dispatch_next, keeps it.
LEMMA ExpireCaptured ==
  ASSUME NEW c, NEW o, Captured(c, o)
  PROVE  Captured(Expire(c, 0), o)
<1> DEFINE d == Expire(c, 0)
<1>1. Sound(c) /\ EligibleCurrent(c)
  BY DEF Captured
<1>2. Sound(d) /\ GrantsNothing(c, d) /\ \E F \in SUBSET QueuedFlights(c) : Leaves(c, d, F)
  BY <1>1, ExpireSound, ExpireLeaves DEF Sound
<1> HIDE DEF d
<1>3. Carries(c, d) /\ EligibleCurrent(d) /\ d.sessions = c.sessions
  BY <1>1, <1>2, LeavesCarries, CurrentIfNothingGranted DEF GrantsNothing
<1> QED BY <1>2, <1>3, CapturedOn DEF d

\* A capture that joins a flight.
LEMMA JoinCaptured ==
  ASSUME NEW c, NEW o, Captured(c, o), NEW spec \in TaskSpec, Admissible(c, spec, 0),
         NEW f \in DOMAIN c.flights, MayJoin(c, spec, f)
  PROVE  /\ Captured(JoinFlight(c, spec, f), o)
         /\ Admits(c, JoinFlight(c, spec, f), spec, f)
<1> DEFINE d == JoinFlight(c, spec, f)
<1>1. Sound(c) /\ EligibleCurrent(c)
  BY DEF Captured
<1>2. Sound(d) /\ EligibleCurrent(d) /\ Admits(c, d, spec, f)
  BY <1>1, JoinFlightSound, JoinFlightAdmits
<1> HIDE DEF d
<1>3. Carries(c, d)
  BY <1>1, <1>2, AdmitsCarries
<1>4. d.sessions = c.sessions
  BY <1>2 DEF Admits, Adds
<1> QED BY <1>2, <1>3, <1>4, CapturedOn DEF d

\* A capture that opens a flight.
LEMMA OpenCaptured ==
  ASSUME NEW c, NEW o, Captured(c, o), NEW spec \in TaskSpec, Admissible(c, spec, 0),
         MayOpen(c, spec)
  PROVE  /\ Captured(OpenFlight(c, spec, 0), o)
         /\ c.next_flight \notin DOMAIN c.flights
         /\ Admits(c, OpenFlight(c, spec, 0), spec, c.next_flight)
<1> DEFINE d == OpenFlight(c, spec, 0)
<1>1. Sound(c) /\ EligibleCurrent(c)
  BY DEF Captured
<1>2. /\ Sound(d) /\ EligibleCurrent(d) /\ c.next_flight \notin DOMAIN c.flights
      /\ Admits(c, d, spec, c.next_flight)
  BY <1>1, OpenFlightSound, OpenFlightAdmits
<1> HIDE DEF d
<1>3. Carries(c, d)
  BY <1>1, <1>2, AdmitsCarries
<1>4. d.sessions = c.sessions
  BY <1>2 DEF Admits, Adds
<1> QED BY <1>2, <1>3, <1>4, CapturedOn DEF d

\* dispatch_next at the end of a capture.
LEMMA DispatchCaptured ==
  ASSUME NEW c, NEW o, Captured(c, o), NEW f \in Selected(c)
  PROVE  /\ Captured(DispatchFlight(c, f), o)
         /\ f \in DOMAIN c.flights /\ IsRunning(DispatchFlight(c, f), f)
<1> DEFINE d == DispatchFlight(c, f)
<1>1. Sound(c) /\ EligibleCurrent(c) /\ f \in DOMAIN c.flights
  BY DEF Captured, Selected, Dispatchable, QueuedFlights
<1>2. Sound(d) /\ GrantsNothing(c, d) /\ Starts(c, d, f)
  BY <1>1, DispatchFlightSound, DispatchFlightStarts
<1> HIDE DEF d
<1>3. Carries(c, d) /\ EligibleCurrent(d) /\ d.sessions = c.sessions
  BY <1>1, <1>2, StartsCarries, CurrentIfNothingGranted DEF GrantsNothing
<1>4. IsRunning(d, f)
  BY <1>1, <1>2 DEF Starts, IsRunning
<1> QED BY <1>1, <1>2, <1>3, <1>4, CapturedOn DEF d

-----------------------------------------------------------------------------
(* The background jobs                                                     *)

\* A follower has something to wait for: a runner that is still to report on a
\* flight the follower's task subscribes to, or an outcome with the follower's
\* gate in it that is stored or about to be.
Answered(c, J, O, j) ==
  \/ \E k \in J : /\ k.runner /\ ~k.reported /\ k.flight = j.flight
                  /\ j.task \in c.flights[j.flight].subscribers
  \/ /\ j.flight \in DOMAIN O /\ j.task \in DOMAIN O[j.flight].gates
     /\ O[j.flight].stored \/ \E k \in J : k.runner /\ k.flight = j.flight

\* What ties the jobs J, the outcomes O and the cells C to the coordinator c: a
\* runner's flight is running until it reports and has an outcome afterwards,
\* a cell has a runner, and an outcome belongs to a flight that is gone.
JobsHold(c, J, O, C) ==
  /\ \A j \in J : j.flight \in Nat /\ j.flight < c.next_flight
  /\ \A j \in J : j.runner =>
       IF j.reported THEN j.flight \in DOMAIN O ELSE IsRunning(c, j.flight)
  /\ \A j, k \in J : j.runner /\ k.runner /\ j.flight = k.flight => j = k
  /\ \A f \in C : f \in Nat /\ \E j \in J : j.runner /\ j.flight = f
  /\ \A f \in DOMAIN O :
       /\ f \in Nat /\ f < c.next_flight /\ f \notin DOMAIN c.flights
       /\ O[f] = [ok |-> O[f].ok, stored |-> O[f].stored, gates |-> O[f].gates]
  /\ \A j \in J : ~j.runner => Answered(c, J, O, j)

\* The jobs are not touched by calls that carry the running flights on.
LEMMA JobsCarried ==
  ASSUME NEW c, NEW d, NEW J, NEW O, NEW C, JobsHold(c, J, O, C), Carries(c, d)
  PROVE  JobsHold(d, J, O, C)
<1>1. c.next_flight \in Nat /\ d.next_flight \in Nat /\ c.next_flight <= d.next_flight
  BY DEF Carries
<1>2. \A f \in Nat : f < c.next_flight => f < d.next_flight
  BY <1>1
<1>3. \A j \in J : j.runner /\ ~j.reported =>
        /\ IsRunning(d, j.flight)
        /\ c.flights[j.flight].subscribers \subseteq d.flights[j.flight].subscribers
  BY DEF JobsHold, Carries
<1>4. \A f \in DOMAIN O : f \notin DOMAIN d.flights
  BY <1>1 DEF JobsHold, Carries
<1>5. \A j \in J : ~j.runner => Answered(d, J, O, j)
  <2> TAKE j \in J
  <2> HAVE ~j.runner
  <2>1. Answered(c, J, O, j)
    BY DEF JobsHold
  <2> QED BY <1>3, <2>1 DEF Answered
<1>6. \A j \in J : /\ j.flight \in Nat /\ j.flight < d.next_flight
                   /\ j.runner => IF j.reported THEN j.flight \in DOMAIN O
                                                ELSE IsRunning(d, j.flight)
  BY <1>2, <1>3 DEF JobsHold
<1>7. \A f \in DOMAIN O :
       /\ f \in Nat /\ f < d.next_flight
       /\ O[f] = [ok |-> O[f].ok, stored |-> O[f].stored, gates |-> O[f].gates]
  BY <1>2 DEF JobsHold
<1> QED BY <1>4, <1>5, <1>6, <1>7 DEF JobsHold

\* A runner is spawned for a flight no other job knows.
LEMMA RunnerSpawned ==
  ASSUME NEW c, NEW J, NEW O, NEW C, JobsHold(c, J, O, C), NEW j,
         j.runner, ~j.reported, IsRunning(c, j.flight),
         j.flight \in Nat, j.flight < c.next_flight,
         \A k \in J : k.flight # j.flight
  PROVE  JobsHold(c, J \cup {j}, O, C \cup {j.flight})
<1>1. \A k \in J : ~k.runner => Answered(c, J, O, k)
  BY DEF JobsHold
<1>2. \A k \in J \cup {j} : ~k.runner => Answered(c, J \cup {j}, O, k)
  BY <1>1 DEF Answered
<1> QED BY <1>2 DEF JobsHold

\* A follower is spawned on a flight that has a cell.
LEMMA FollowerSpawned ==
  ASSUME NEW c, NEW J, NEW O, NEW C, JobsHold(c, J, O, C), NEW j,
         j.runner = FALSE, j.flight \in C, j.flight \in DOMAIN c.flights,
         j.flight < c.next_flight, j.task \in c.flights[j.flight].subscribers
  PROVE  JobsHold(c, J \cup {j}, O, C)
<1>1. \A k \in J : ~k.runner => Answered(c, J, O, k)
  BY DEF JobsHold
<1>2. \A k \in J : ~k.runner => Answered(c, J \cup {j}, O, k)
  BY <1>1 DEF Answered
<1>3. PICK k \in J : k.runner /\ k.flight = j.flight
  BY DEF JobsHold
<1>4. ~k.reported
  BY <1>3 DEF JobsHold
<1>5. Answered(c, J \cup {j}, O, j)
  BY <1>3, <1>4 DEF Answered
<1> QED BY <1>2, <1>5 DEF JobsHold

\* A runner reports: its flight is gone, and the gates of all its subscribers
\* are in the outcome it will store.
LEMMA RunnerReported ==
  ASSUME NEW c, NEW d, NEW J, NEW O, NEW C, JobsHold(c, J, O, C),
         NEW j \in J, j.runner, ~j.reported, NEW i, i.runner, i.reported,
         i.flight = j.flight,
         d.next_flight = c.next_flight, DOMAIN d.flights = DOMAIN c.flights \ {j.flight},
         \A f : f # j.flight /\ IsRunning(c, f) =>
           /\ IsRunning(d, f)
           /\ c.flights[f].subscribers \subseteq d.flights[f].subscribers,
         NEW P, DOMAIN P = DOMAIN O \cup {j.flight},
         \A f \in DOMAIN O : f # j.flight => P[f] = O[f],
         P[j.flight] = [ok |-> P[j.flight].ok, stored |-> P[j.flight].stored,
                        gates |-> P[j.flight].gates],
         DOMAIN P[j.flight].gates = c.flights[j.flight].subscribers
  PROVE  JobsHold(d, (J \ {j}) \cup {i}, P, C)
<1> DEFINE K == (J \ {j}) \cup {i}
<1>1. \A k \in K : k = i \/ (k \in J /\ k # j)
  OBVIOUS
<1>2. \A k \in J : k.runner /\ k # j => k.flight # j.flight
  BY DEF JobsHold
<1>3. j.flight \in Nat /\ j.flight < c.next_flight
  BY DEF JobsHold
<1>4. \A k \in K : k.flight \in Nat /\ k.flight < d.next_flight
  BY <1>1, <1>3 DEF JobsHold
<1>5. ASSUME NEW k \in K, k.runner
      PROVE  IF k.reported THEN k.flight \in DOMAIN P ELSE IsRunning(d, k.flight)
  BY <1>1, <1>2, <1>5 DEF JobsHold
<1>6. \A k, l \in K : k.runner /\ l.runner /\ k.flight = l.flight => k = l
  BY <1>1, <1>2 DEF JobsHold
<1>7. ASSUME NEW f \in C
      PROVE  f \in Nat /\ \E k \in K : k.runner /\ k.flight = f
  <2>1. PICK k \in J : k.runner /\ k.flight = f
    BY DEF JobsHold
  <2>2. CASE k = j
    BY <2>1, <2>2 DEF JobsHold
  <2>3. CASE k # j
    BY <2>1, <2>3 DEF JobsHold
  <2> QED BY <2>2, <2>3
<1>8. ASSUME NEW f \in DOMAIN P
      PROVE  /\ f \in Nat /\ f < d.next_flight /\ f \notin DOMAIN d.flights
             /\ P[f] = [ok |-> P[f].ok, stored |-> P[f].stored, gates |-> P[f].gates]
  <2>1. CASE f = j.flight
    BY <1>3, <2>1
  <2>2. CASE f # j.flight
    BY <2>2 DEF JobsHold
  <2> QED BY <2>1, <2>2
<1>9. ASSUME NEW k \in K, ~k.runner
      PROVE  Answered(d, K, P, k)
  <2>1. k \in J /\ k # j /\ Answered(c, J, O, k)
    BY <1>1, <1>9 DEF JobsHold
  <2>2. CASE \E l \in J : /\ l.runner /\ ~l.reported /\ l.flight = k.flight
                          /\ k.task \in c.flights[k.flight].subscribers
    <3>1. PICK l \in J : /\ l.runner /\ ~l.reported /\ l.flight = k.flight
                         /\ k.task \in c.flights[k.flight].subscribers
      BY <2>2
    <3>2. CASE l = j
      BY <3>1, <3>2 DEF Answered
    <3>3. CASE l # j
      <4>1. l.flight # j.flight /\ IsRunning(c, l.flight) /\ l \in K
        BY <1>2, <3>1, <3>3 DEF JobsHold
      <4> QED BY <3>1, <4>1 DEF Answered
    <3> QED BY <3>2, <3>3
  <2>3. CASE /\ k.flight \in DOMAIN O /\ k.task \in DOMAIN O[k.flight].gates
             /\ O[k.flight].stored \/ \E l \in J : l.runner /\ l.flight = k.flight
    <3>1. k.flight # j.flight
      BY <2>3 DEF JobsHold, IsRunning
    <3>2. /\ k.flight \in DOMAIN P /\ P[k.flight] = O[k.flight]
          /\ \A l \in J : l.flight = k.flight => l \in K
      BY <2>3, <3>1
    <3> QED BY <2>3, <3>2 DEF Answered
  <2> QED BY <2>1, <2>2, <2>3 DEF Answered
<1> HIDE DEF K
<1>10. JobsHold(d, K, P, C)
  BY <1>4, <1>5, <1>6, <1>7, <1>8, <1>9 DEF JobsHold
<1> QED BY <1>10 DEF K

\* Storing an outcome leaves its other fields alone.
LEMMA StoreField ==
  ASSUME NEW x, x = [ok |-> x.ok, stored |-> x.stored, gates |-> x.gates], NEW v
  PROVE  [x EXCEPT !.stored = v] = [ok |-> x.ok, stored |-> v, gates |-> x.gates]
OBVIOUS

\* A runner stores the outcome and returns.
LEMMA RunnerReturned ==
  ASSUME NEW c, NEW J, NEW O, NEW C, JobsHold(c, J, O, C),
         NEW j \in J, j.runner, j.reported
  PROVE  JobsHold(c, J \ {j}, [O EXCEPT ![j.flight].stored = TRUE], C \ {j.flight})
<1> DEFINE f == j.flight
           P == [O EXCEPT ![f].stored = TRUE]
           K == J \ {j}
<1>1. /\ f \in DOMAIN O
      /\ O[f] = [ok |-> O[f].ok, stored |-> O[f].stored, gates |-> O[f].gates]
  BY DEF JobsHold
<1>2. /\ DOMAIN P = DOMAIN O /\ \A g \in DOMAIN O : g # f => P[g] = O[g]
      /\ P[f] = [O[f] EXCEPT !.stored = TRUE]
  BY <1>1
<1>3. P[f] = [ok |-> O[f].ok, stored |-> TRUE, gates |-> O[f].gates]
  BY <1>1, <1>2, StoreField
<1>4. P[f].stored /\ P[f].gates = O[f].gates
  BY <1>3
<1>5. \A k \in J : k.runner /\ k.flight = f => k = j
  BY DEF JobsHold
<1>6. \A g \in DOMAIN P :
        P[g] = [ok |-> P[g].ok, stored |-> P[g].stored, gates |-> P[g].gates]
  BY <1>2, <1>3 DEF JobsHold
<1> HIDE DEF P
<1>7. ASSUME NEW k \in K, ~k.runner
      PROVE  Answered(c, K, P, k)
  <2>1. Answered(c, J, O, k)
    BY <1>7 DEF JobsHold
  <2>2. CASE k.flight = f
    BY <1>1, <1>2, <1>4, <1>5, <2>1, <2>2 DEF Answered
  <2>3. CASE k.flight # f
    BY <1>2, <2>1, <2>3 DEF Answered
  <2> QED BY <2>2, <2>3
<1>8. ASSUME NEW g \in C \ {f}
      PROVE  g \in Nat /\ \E k \in K : k.runner /\ k.flight = g
  BY DEF JobsHold
<1>9. JobsHold(c, K, P, C \ {f})
  BY <1>2, <1>6, <1>7, <1>8 DEF JobsHold
<1> QED BY <1>9 DEF P

\* A follower returns.
LEMMA FollowerReturned ==
  ASSUME NEW c, NEW J, NEW O, NEW C, JobsHold(c, J, O, C), NEW j \in J, ~j.runner
  PROVE  JobsHold(c, J \ {j}, O, C)
<1>1. \A k \in J \ {j} : ~k.runner => Answered(c, J \ {j}, O, k)
  BY DEF JobsHold, Answered
<1>2. \A f \in C : \E k \in J \ {j} : k.runner /\ k.flight = f
  BY DEF JobsHold
<1> QED BY <1>1, <1>2 DEF JobsHold

-----------------------------------------------------------------------------
(* The inductive invariant                                                 *)

\* A pane waits for its newest selection, which it has not been given yet.
PanesAgree ==
  \A o \in Owners :
    /\ delivered[o] <= selected[o]
    /\ o \in DOMAIN active => /\ active[o].generation = selected[o]
                              /\ delivered[o] < selected[o]

Inv == /\ Sound(coordinator)
       /\ EligibleCurrent(coordinator)
       /\ SessionsFollow(coordinator)
       /\ TypeOK
       /\ PanesAgree
       /\ JobsHold(coordinator, jobs, outcomes, cells)

\* A new executor has no jobs.
LEMMA InitInv == Init => Inv
<1> SUFFICES ASSUME Init PROVE Inv
  OBVIOUS
<1>1. Sound(coordinator) /\ EligibleCurrent(coordinator) /\ CoordinatorType(coordinator)
  BY NewCoordinatorSound DEF Init, Sound, Consistent
<1>2. coordinator.sessions = NoEntries /\ DOMAIN NoEntries = {}
  BY DEF Init, NewCoordinator, NoEntries
<1>3. SessionsFollow(coordinator)
  BY <1>2 DEF SessionsFollow
<1>4. /\ MaxGeneration \in Nat /\ MaxRevision \in Nat
      /\ 0 \in 0 .. MaxGeneration /\ 0 \in 0 .. MaxRevision
  BY ComparisonAssumption
<1>5. TypeOK
  BY <1>1, <1>2, <1>4 DEF Init, TypeOK, IsMap, NoEntries
<1>6. PanesAgree
  BY <1>2 DEF Init, PanesAgree
<1>7. JobsHold(coordinator, jobs, outcomes, cells)
  BY <1>2 DEF Init, JobsHold
<1> QED BY <1>1, <1>3, <1>5, <1>6, <1>7 DEF Inv

\* The types of what a pane counts.
LEMMA Counts ==
  ASSUME TypeOK, NEW o \in Owners
  PROVE  /\ selected[o] \in Nat /\ delivered[o] \in Nat /\ revision \in 0 .. MaxRevision
         /\ selected[o] \in 0 .. MaxGeneration /\ delivered[o] \in 0 .. MaxGeneration
BY ComparisonAssumption DEF TypeOK

\* A pane that stops waiting leaves the other panes' requests as they are.
LEMMA WithoutActiveType ==
  ASSUME TypeOK, NEW o
  PROVE  /\ IsMap(WithoutActive(o), Owners,
                  [generation : 1 .. MaxGeneration, revision : 0 .. MaxRevision, task : Nat])
         /\ \A p \in Owners \cap DOMAIN WithoutActive(o) :
              p # o /\ p \in DOMAIN active /\ WithoutActive(o)[p] = active[p]
BY DEF TypeOK, WithoutActive, Restrict, IsMap

\* What every capture leaves of the panes' counters.
LEMMA SelectionMoves ==
  ASSUME Inv, NEW o \in Owners, Selects(o), Captured(coordinator', o)
  PROVE  /\ Sound(coordinator') /\ EligibleCurrent(coordinator')
         /\ SessionsFollow(coordinator)'
         /\ CoordinatorType(coordinator')
         /\ JobsHold(coordinator', jobs, outcomes, cells)
         /\ selected' \in [Owners -> 0 .. MaxGeneration]
         /\ selected'[o] = selected[o] + 1
         /\ \A p \in Owners \ {o} : selected'[p] = selected[p]
<1>1. /\ selected \in [Owners -> 0 .. MaxGeneration] /\ selected[o] < MaxSelections[o]
      /\ selected' = [selected EXCEPT ![o] = @ + 1]
      /\ MaxSelections[o] \in 0 .. MaxGeneration /\ MaxGeneration \in Nat
  BY ComparisonAssumption DEF Inv, TypeOK, Selects
<1>2. /\ selected' \in [Owners -> 0 .. MaxGeneration]
      /\ selected'[o] = selected[o] + 1
      /\ \A p \in Owners \ {o} : selected'[p] = selected[p]
  BY <1>1
<1>3. /\ Sound(coordinator') /\ EligibleCurrent(coordinator')
      /\ Carries(coordinator, coordinator')
  BY DEF Captured
<1>4. SessionsFollow(coordinator)'
  BY <1>2 DEF SessionsFollow, Captured
<1>5. JobsHold(coordinator', jobs, outcomes, cells)
  BY <1>3, JobsCarried DEF Inv
<1> QED BY <1>2, <1>3, <1>4, <1>5 DEF Sound, Consistent

\* A capture that fails leaves the pane without a request.
LEMMA FailsInv ==
  ASSUME Inv, NEW o \in Owners, Selects(o), Captured(coordinator', o), Fails(o),
         UNCHANGED <<outcomes, revision, completions, delivered>>
  PROVE  Inv'
<1>1. active' = WithoutActive(o) /\ cells' = cells /\ jobs' = jobs
  BY DEF Fails
<1>2. TypeOK'
  BY <1>1, SelectionMoves, WithoutActiveType DEF Inv, TypeOK
<1>3. PanesAgree'
  <2> SUFFICES ASSUME NEW p \in Owners
               PROVE  /\ delivered[p] <= selected'[p]
                      /\ p \in DOMAIN active' => /\ active'[p].generation = selected'[p]
                                                 /\ delivered[p] < selected'[p]
    BY DEF PanesAgree
  <2>1. /\ delivered[p] <= selected[p] /\ delivered[p] \in Nat /\ selected[p] \in Nat
        /\ p \in DOMAIN active => /\ active[p].generation = selected[p]
                                  /\ delivered[p] < selected[p]
    BY Counts DEF Inv, PanesAgree
  <2>2. selected'[p] = IF p = o THEN selected[p] + 1 ELSE selected[p]
    BY SelectionMoves
  <2>3. p \in DOMAIN active' => /\ p # o /\ p \in DOMAIN active
                                /\ active'[p] = active[p]
    BY <1>1, WithoutActiveType DEF Inv
  <2> QED BY <2>1, <2>2, <2>3
<1> QED BY <1>1, <1>2, <1>3, SelectionMoves DEF Inv

\* A capture that succeeds makes the pane wait for the job it spawns.
LEMMA SucceedsInv ==
  ASSUME Inv, NEW o \in Owners, Selects(o), Captured(coordinator', o),
         NEW spec, spec.owner = o, spec.generation = selected[o] + 1,
         NEW task \in Nat, NEW flight \in Nat, NEW runner \in BOOLEAN,
         Succeeds(spec, task, flight, runner),
         JobsHold(coordinator', jobs', outcomes, cells'),
         UNCHANGED <<outcomes, revision, completions, delivered>>
  PROVE  Inv'
<1> DEFINE g == selected[o] + 1
           request == [generation |-> g, revision |-> revision, task |-> task]
           job == [owner |-> o, generation |-> g, revision |-> revision, task |-> task,
                   flight |-> flight, runner |-> runner, reported |-> FALSE]
<1>1. /\ g \in 1 .. MaxGeneration /\ revision \in 0 .. MaxRevision
  <2>1. g \in 0 .. MaxGeneration /\ selected[o] \in Nat
    BY SelectionMoves, Counts DEF Inv
  <2> QED BY <2>1, Counts DEF Inv
<1>2. /\ DOMAIN active' = DOMAIN active \cup {o}
      /\ active' = [p \in DOMAIN active' |-> active'[p]]
      /\ active'[o] = request
      /\ \A p \in DOMAIN active : p # o => active'[p] = active[p]
  BY DEF Succeeds
<1>3. jobs' = jobs \cup {job} /\ job \in JobRecord
  BY <1>1 DEF Succeeds, JobRecord
<1>4. request \in [generation : 1 .. MaxGeneration, revision : 0 .. MaxRevision, task : Nat]
  BY <1>1
<1>5. request.generation = g
  OBVIOUS
<1> HIDE DEF request, job
<1>6. IsMap(active', Owners,
            [generation : 1 .. MaxGeneration, revision : 0 .. MaxRevision, task : Nat])
  BY <1>2, <1>4 DEF Inv, TypeOK, IsMap
<1>7. cells' \subseteq Nat
  BY DEF JobsHold
<1>8. TypeOK'
  BY <1>3, <1>6, <1>7, SelectionMoves DEF Inv, TypeOK
<1>9. PanesAgree'
  <2> SUFFICES ASSUME NEW p \in Owners
               PROVE  /\ delivered[p] <= selected'[p]
                      /\ p \in DOMAIN active' => /\ active'[p].generation = selected'[p]
                                                 /\ delivered[p] < selected'[p]
    BY DEF PanesAgree
  <2>1. /\ delivered[p] <= selected[p] /\ delivered[p] \in Nat /\ selected[p] \in Nat
        /\ p \in DOMAIN active => /\ active[p].generation = selected[p]
                                  /\ delivered[p] < selected[p]
    BY Counts DEF Inv, PanesAgree
  <2>2. selected'[p] = IF p = o THEN selected[p] + 1 ELSE selected[p]
    BY SelectionMoves
  <2>3. CASE p = o
    BY <1>2, <1>5, <2>1, <2>2, <2>3
  <2>4. CASE p # o
    BY <1>2, <2>1, <2>2, <2>4
  <2> QED BY <2>3, <2>4
<1> QED BY <1>8, <1>9, SelectionMoves DEF Inv

\* Cancelling the pane's request carries the running flights on.
LEMMA OwnerCancelledCaptured ==
  ASSUME Inv, NEW o \in Owners
  PROVE  /\ Sound(OwnerCancelled(o)) /\ EligibleCurrent(OwnerCancelled(o))
         /\ Carries(coordinator, OwnerCancelled(o))
         /\ OwnerCancelled(o).sessions = coordinator.sessions
         /\ Captured(OwnerCancelled(o), o)
<1> DEFINE d == OwnerCancelled(o)
<1>1. /\ Sound(d) /\ GrantsNothing(coordinator, d) /\ Leaves(coordinator, d, {})
  BY OwnerCancelledLeaves DEF Inv
<1> HIDE DEF d
<1>2. EligibleCurrent(d) /\ d.sessions = coordinator.sessions
  BY <1>1, CurrentIfNothingGranted DEF Inv, GrantsNothing
<1>3. Carries(coordinator, d)
  <2>1. {} \in SUBSET QueuedFlights(coordinator)
    OBVIOUS
  <2> QED BY <1>1, <2>1, LeavesCarries DEF Inv
<1>4. \A p \in Owners \cap DOMAIN d.sessions :
        d.sessions[p] <= IF p = o THEN selected[p] + 1 ELSE selected[p]
  <2> TAKE p \in Owners \cap DOMAIN d.sessions
  <2>1. coordinator.sessions[p] \in Nat /\ coordinator.sessions[p] <= selected[p]
    BY <1>2 DEF Inv, SessionsFollow, Sound, Consistent, CoordinatorType, IsMap
  <2>2. selected[p] \in Nat
    BY Counts DEF Inv
  <2> QED BY <1>2, <2>1, <2>2
<1> QED BY <1>1, <1>2, <1>3, <1>4 DEF Captured, d

\* A capture that is refused at once.
LEMMA RefusedInv ==
  ASSUME Inv, NEW o \in Owners, CaptureRefused(o)
  PROVE  Inv'
BY OwnerCancelledCaptured, FailsInv DEF CaptureRefused

\* A capture for which there is no room.
LEMMA NotAdmittedInv ==
  ASSUME Inv, NEW o \in Owners, CaptureNotAdmitted(o)
  PROVE  Inv'
<1>1. coordinator' = Admitting(o) /\ Selects(o) /\ Fails(o)
  BY DEF CaptureNotAdmitted
<1>2. Captured(coordinator', o)
  BY <1>1, AdmittingCaptured, Counts DEF Inv
<1> QED BY <1>1, <1>2, FailsInv DEF CaptureNotAdmitted

\* A capture that joins a flight follows the flight's runner, if it has one.
LEMMA JoinsInv ==
  ASSUME Inv, NEW o \in Owners, CaptureJoins(o)
  PROVE  Inv'
<1> DEFINE c == Admitting(o)
<1>1. PICK comparison \in Comparisons, f \in DOMAIN c.flights :
        /\ MayJoin(c, Request(o, comparison), f)
        /\ coordinator' = JoinFlight(c, Request(o, comparison), f)
        /\ IF f \in cells THEN Succeeds(Request(o, comparison), c.next_task, f, FALSE)
                          ELSE Fails(o)
  BY DEF CaptureJoins
<1>2. Selects(o) /\ selected[o] < MaxSelections[o]
      /\ UNCHANGED <<outcomes, revision, completions, delivered>>
  BY DEF CaptureJoins, Selects
<1>3. Captured(c, o) /\ SessionIs(c, o, selected[o] + 1) /\ Sound(c)
  BY AdmittingCaptured, AdmittingLeaves, Counts DEF Inv
<1> DEFINE spec == Request(o, comparison)
<1>4. /\ spec \in TaskSpec /\ Admissible(c, spec, 0)
      /\ spec.owner = o /\ spec.generation = selected[o] + 1
  BY <1>2, <1>3, RequestAdmissible DEF Inv, Request
<1>5. c.next_task \in Nat /\ f \in Nat
  BY <1>3 DEF Sound, Consistent, CoordinatorType, IsMap
<1> HIDE DEF c, spec
<1>6. Captured(coordinator', o) /\ Admits(c, coordinator', spec, f)
  BY <1>1, <1>3, <1>4, JoinCaptured DEF spec
<1>7. CASE f \notin cells
  BY <1>1, <1>2, <1>6, <1>7, FailsInv
<1>8. CASE f \in cells
  <2>1. Succeeds(spec, c.next_task, f, FALSE)
    BY <1>1, <1>8 DEF spec
  <2> DEFINE job == [owner |-> spec.owner, generation |-> spec.generation,
                     revision |-> revision, task |-> c.next_task, flight |-> f,
                     runner |-> FALSE, reported |-> FALSE]
  <2>2. jobs' = jobs \cup {job} /\ cells' = cells
    BY <2>1 DEF Succeeds
  <2>3. job.runner = FALSE /\ job.flight = f /\ job.task = c.next_task
    OBVIOUS
  <2> HIDE DEF job
  <2>4. JobsHold(coordinator', jobs, outcomes, cells) /\ Sound(coordinator')
    BY <1>2, <1>6, SelectionMoves
  <2>5. f \in DOMAIN coordinator'.flights /\ f < coordinator'.next_flight
    BY <1>6, <2>4 DEF Admits, Adds, Sound, Consistent, Mutual
  <2>6. c.next_task \in coordinator'.flights[f].subscribers
    BY <1>1, <1>6 DEF Admits, Adds
  <2>7. JobsHold(coordinator', jobs \cup {job}, outcomes, cells)
    BY <1>8, <2>3, <2>4, <2>5, <2>6, FollowerSpawned
  <2> QED BY <1>2, <1>4, <1>5, <1>6, <2>1, <2>2, <2>7, SucceedsInv
<1> QED BY <1>7, <1>8

\* A capture that opens a flight runs it, unless dispatch_next starts another
\* one or none.
LEMMA OpensInv ==
  ASSUME Inv, NEW o \in Owners, CaptureOpens(o)
  PROVE  Inv'
<1> DEFINE c == Admitting(o)
           Opening(comparison) == OpenFlight(c, Request(o, comparison), 0)
<1>1. PICK comparison \in Comparisons :
        /\ MayOpen(c, Request(o, comparison))
        /\ \E opened \in {Expire(Opening(comparison), 0)} :
             \/ /\ Dispatchable(opened) = {}
                /\ coordinator' = opened
                /\ Fails(o)
             \/ \E f \in Selected(opened) :
                  /\ coordinator' = DispatchFlight(opened, f)
                  /\ IF f = c.next_flight
                     THEN Succeeds(Request(o, comparison), c.next_task, f, TRUE)
                     ELSE Fails(o)
  BY DEF CaptureOpens
<1>2. Selects(o) /\ selected[o] < MaxSelections[o]
      /\ UNCHANGED <<outcomes, revision, completions, delivered>>
  BY DEF CaptureOpens, Selects
<1>3. Captured(c, o) /\ SessionIs(c, o, selected[o] + 1) /\ Sound(c)
  BY AdmittingCaptured, AdmittingLeaves, Counts DEF Inv
<1> DEFINE spec == Request(o, comparison)
           a == OpenFlight(c, spec, 0)
           b == Expire(a, 0)
<1>4. /\ spec \in TaskSpec /\ Admissible(c, spec, 0)
      /\ spec.owner = o /\ spec.generation = selected[o] + 1
  BY <1>2, <1>3, RequestAdmissible DEF Inv, Request
<1>5. c.next_task \in Nat /\ c.next_flight \in Nat
  BY <1>3 DEF Sound, Consistent, CoordinatorType
<1>6. \/ coordinator' = b /\ Fails(o)
      \/ \E f \in Selected(b) :
           /\ coordinator' = DispatchFlight(b, f)
           /\ IF f = c.next_flight THEN Succeeds(spec, c.next_task, f, TRUE)
                                   ELSE Fails(o)
  BY <1>1
<1>7. MayOpen(c, spec)
  BY <1>1
<1> HIDE DEF c, spec
<1>8. Captured(b, o)
  BY <1>3, <1>4, <1>7, OpenCaptured, ExpireCaptured
<1> HIDE DEF b, a
<1>9. CASE coordinator' = b /\ Fails(o)
  BY <1>2, <1>8, <1>9, FailsInv
<1>10. ASSUME NEW f \in Selected(b), coordinator' = DispatchFlight(b, f)
       PROVE  Captured(coordinator', o) /\ IsRunning(coordinator', f)
  BY <1>8, <1>10, DispatchCaptured
<1>11. ASSUME NEW f \in Selected(b), coordinator' = DispatchFlight(b, f), Fails(o)
       PROVE  Inv'
  BY <1>2, <1>10, <1>11, FailsInv
<1>12. ASSUME NEW f \in Selected(b), coordinator' = DispatchFlight(b, f),
              f = c.next_flight, Succeeds(spec, c.next_task, f, TRUE)
       PROVE  Inv'
  <2> DEFINE job == [owner |-> spec.owner, generation |-> spec.generation,
                     revision |-> revision, task |-> c.next_task, flight |-> f,
                     runner |-> TRUE, reported |-> FALSE]
  <2>1. jobs' = jobs \cup {job} /\ cells' = cells \cup {f}
    BY <1>12 DEF Succeeds
  <2>2. job.runner = TRUE /\ job.reported = FALSE /\ job.flight = f
    OBVIOUS
  <2> HIDE DEF job
  <2>3. Captured(coordinator', o) /\ IsRunning(coordinator', f)
    BY <1>10, <1>12
  <2>4. JobsHold(coordinator', jobs, outcomes, cells) /\ Sound(coordinator')
    BY <1>2, <2>3, SelectionMoves
  <2>5. f \in Nat /\ f < coordinator'.next_flight
    BY <1>5, <1>12, <2>3, <2>4 DEF Sound, Consistent, Mutual, IsRunning
  <2>6. \A k \in jobs : k.flight # f
    <3>1. coordinator.next_flight <= c.next_flight /\ coordinator.next_flight \in Nat
      BY <1>3 DEF Captured, Carries
    <3>2. \A k \in jobs : k.flight \in Nat /\ k.flight < coordinator.next_flight
      BY DEF Inv, JobsHold
    <3> QED BY <1>5, <1>12, <3>1, <3>2
  <2>7. JobsHold(coordinator', jobs', outcomes, cells')
    BY <2>1, <2>2, <2>3, <2>4, <2>5, <2>6, RunnerSpawned
  <2> QED BY <1>2, <1>4, <1>5, <1>12, <2>3, <2>5, <2>7, SucceedsInv
<1> QED BY <1>6, <1>9, <1>11, <1>12

\* A pane that closes leaves its job to finish alone.
LEMMA CancelOwnerInv ==
  ASSUME Inv, NEW o \in Owners, CancelOwner(o)
  PROVE  Inv'
<1>1. /\ coordinator' = OwnerCancelled(o) /\ active' = WithoutActive(o)
      /\ UNCHANGED <<cells, outcomes, selected, revision, jobs, completions, delivered>>
  BY DEF CancelOwner
<1>2. /\ Sound(coordinator') /\ EligibleCurrent(coordinator')
      /\ Carries(coordinator, coordinator')
      /\ coordinator'.sessions = coordinator.sessions
  BY <1>1, OwnerCancelledCaptured
<1>3. SessionsFollow(coordinator)'
  BY <1>1, <1>2 DEF Inv, SessionsFollow
<1>4. TypeOK'
  BY <1>1, <1>2, WithoutActiveType DEF Inv, TypeOK, Sound, Consistent
<1>5. PanesAgree'
  BY <1>1, WithoutActiveType DEF Inv, PanesAgree
<1>6. JobsHold(coordinator', jobs, outcomes, cells)
  BY <1>2, JobsCarried DEF Inv
<1> QED BY <1>1, <1>2, <1>3, <1>4, <1>5, <1>6 DEF Inv

\* A runner always finds its flight running, and what it stores answers all the
\* followers.
LEMMA ReportsInv ==
  ASSUME Inv, NEW j, RunnerReports(j)
  PROVE  Inv'
<1> DEFINE c == Expire(coordinator, 0)
           f == j.flight
           i == [j EXCEPT !.reported = TRUE]
<1>1. PICK outcome \in Outcomes :
        /\ IsRunning(c, f)
        /\ coordinator' = CompleteFlight(c, f, outcome, 0)
        /\ outcomes' = [g \in DOMAIN outcomes \cup {f} |->
             IF g = f
             THEN [ok |-> outcome = "Succeeded", stored |-> FALSE, gates |-> Gates(c, g)]
             ELSE outcomes[g]]
  BY DEF RunnerReports
<1>2. /\ j \in jobs /\ j.runner /\ ~j.reported /\ jobs' = (jobs \ {j}) \cup {i}
      /\ UNCHANGED <<cells, active, selected, revision, completions, delivered>>
  BY DEF RunnerReports
<1>3. j \in JobRecord
  BY <1>2 DEF Inv, TypeOK
<1>4. i.runner /\ i.reported /\ i.flight = f /\ i \in JobRecord
  BY <1>2, <1>3 DEF JobRecord
<1>5. /\ Sound(c) /\ GrantsNothing(coordinator, c)
      /\ \E F \in SUBSET QueuedFlights(coordinator) : Leaves(coordinator, c, F)
  BY ExpireSound, ExpireLeaves DEF Inv, Sound
<1> HIDE DEF c, i
<1>6. Carries(coordinator, c) /\ EligibleCurrent(c)
  BY <1>5, LeavesCarries, CurrentIfNothingGranted DEF Inv
<1>7. f \in DOMAIN c.flights
  BY <1>1 DEF IsRunning
<1>8. /\ Sound(coordinator') /\ GrantsNothing(c, coordinator')
      /\ Leaves(c, coordinator', {f})
  BY <1>1, <1>5, <1>7, CompleteFlightSound, CompleteFlightLeaves
<1>9. EligibleCurrent(coordinator') /\ coordinator'.sessions = coordinator.sessions
  BY <1>5, <1>6, <1>8, CurrentIfNothingGranted DEF GrantsNothing
<1>10. JobsHold(c, jobs, outcomes, cells)
  BY <1>6, JobsCarried DEF Inv
<1>11. JobsHold(coordinator', jobs', outcomes', cells)
  <2> DEFINE out == [ok |-> outcome = "Succeeded", stored |-> FALSE, gates |-> Gates(c, f)]
  <2>1. /\ out = [ok |-> out.ok, stored |-> out.stored, gates |-> out.gates]
        /\ out.gates = Gates(c, f)
    OBVIOUS
  <2>2. DOMAIN Gates(c, f) = c.flights[f].subscribers
    BY DEF Gates
  <2>3. /\ DOMAIN outcomes' = DOMAIN outcomes \cup {f} /\ outcomes'[f] = out
        /\ \A g \in DOMAIN outcomes : g # f => outcomes'[g] = outcomes[g]
    BY <1>1
  <2> HIDE DEF out
  <2>4. /\ outcomes'[f] = [ok |-> outcomes'[f].ok, stored |-> outcomes'[f].stored,
                           gates |-> outcomes'[f].gates]
        /\ DOMAIN outcomes'[f].gates = c.flights[f].subscribers
    BY <2>1, <2>2, <2>3
  <2>5. /\ coordinator'.next_flight = c.next_flight
        /\ DOMAIN coordinator'.flights = DOMAIN c.flights \ {f}
        /\ \A g : g # f /\ IsRunning(c, g) =>
             /\ IsRunning(coordinator', g)
             /\ c.flights[g].subscribers \subseteq coordinator'.flights[g].subscribers
    BY <1>8 DEF Leaves, IsRunning
  <2>6. JobsHold(coordinator', (jobs \ {j}) \cup {i}, outcomes', cells)
    BY <1>2, <1>4, <1>10, <2>3, <2>4, <2>5, RunnerReported
  <2> QED BY <1>2, <2>6
<1>12. TypeOK'
  BY <1>2, <1>4, <1>8 DEF Inv, TypeOK, Sound, Consistent
<1>13. PanesAgree' /\ SessionsFollow(coordinator)'
  BY <1>2, <1>9 DEF Inv, PanesAgree, SessionsFollow
<1> QED BY <1>2, <1>8, <1>9, <1>11, <1>12, <1>13 DEF Inv

\* A runner that has stored its outcome is not waited for any longer.
LEMMA ReturnsInv ==
  ASSUME Inv, NEW j, RunnerReturns(j) \/ FollowerReturns(j)
  PROVE  Inv'
<1>1. /\ j \in jobs /\ jobs' = jobs \ {j}
      /\ UNCHANGED <<coordinator, active, selected, revision, delivered>>
  BY DEF RunnerReturns, FollowerReturns
<1>2. JobsHold(coordinator, jobs', outcomes', cells') /\ cells' \subseteq cells
  <2>1. CASE RunnerReturns(j)
    BY <2>1, RunnerReturned DEF RunnerReturns, Store, Inv
  <2>2. CASE FollowerReturns(j)
    BY <2>2, FollowerReturned DEF FollowerReturns, Inv
  <2> QED BY <2>1, <2>2
<1>3. TypeOK'
  BY <1>1, <1>2 DEF Inv, TypeOK
<1>4. PanesAgree' /\ SessionsFollow(coordinator)'
  BY <1>1 DEF Inv, PanesAgree, SessionsFollow
<1> QED BY <1>1, <1>2, <1>3, <1>4 DEF Inv

\* A pane is given the result it waits for, once.
LEMMA PublishInv ==
  ASSUME Inv, NEW d, Publish(d)
  PROVE  /\ Inv'
         /\ d.owner \in Owners /\ delivered' = [delivered EXCEPT ![d.owner] = selected[d.owner]]
         /\ delivered[d.owner] < selected[d.owner]
<1> DEFINE o == d.owner
<1>1. /\ o \in DOMAIN active /\ active[o].generation = d.generation
      /\ delivered' = [delivered EXCEPT ![o] = d.generation]
      /\ active' = WithoutActive(o)
      /\ UNCHANGED <<coordinator, cells, outcomes, selected, revision, jobs>>
  BY DEF Publish, MayPublish
<1>2. o \in Owners /\ active[o].generation \in 1 .. MaxGeneration
  BY <1>1 DEF Inv, TypeOK, IsMap
<1>3. d.generation = selected[o] /\ delivered[o] < selected[o]
  BY <1>1, <1>2 DEF Inv, PanesAgree
<1>4. /\ selected[o] \in 0 .. MaxGeneration
      /\ delivered \in [Owners -> 0 .. MaxGeneration]
      /\ delivered' = [delivered EXCEPT ![o] = selected[o]]
  BY <1>1, <1>2, <1>3, Counts DEF Inv, TypeOK
<1>5. TypeOK'
  BY <1>1, <1>2, <1>4, WithoutActiveType DEF Inv, TypeOK
<1>6. PanesAgree'
  <2> SUFFICES ASSUME NEW p \in Owners
               PROVE  /\ delivered'[p] <= selected[p]
                      /\ p \in DOMAIN active' => /\ active'[p].generation = selected[p]
                                                 /\ delivered'[p] < selected[p]
    BY <1>1 DEF PanesAgree
  <2>1. CASE p = o
    BY <1>1, <1>2, <1>4, <2>1, WithoutActiveType, Counts DEF Inv
  <2>2. CASE p # o
    BY <1>1, <1>4, <2>2, WithoutActiveType DEF Inv, PanesAgree
  <2> QED BY <2>1, <2>2
<1>7. JobsHold(coordinator, jobs, outcomes, cells)' /\ SessionsFollow(coordinator)'
  BY <1>1 DEF Inv, SessionsFollow
<1> QED BY <1>1, <1>2, <1>3, <1>4, <1>5, <1>6, <1>7 DEF Inv

\* Every step preserves the inductive invariant.
LEMMA NextInv == Inv /\ [Next]_vars => Inv'
<1> SUFFICES ASSUME Inv, [Next]_vars PROVE Inv'
  OBVIOUS
<1>1. ASSUME UNCHANGED <<coordinator, cells, outcomes, active, selected, jobs, delivered>>,
             revision' \in 0 .. MaxRevision
      PROVE  Inv'
  BY <1>1 DEF Inv, TypeOK, PanesAgree, SessionsFollow
<1>2. revision \in 0 .. MaxRevision
  BY DEF Inv, TypeOK
<1>3. CASE Edit
  BY <1>1, <1>2, <1>3, ComparisonAssumption DEF Edit
<1>4. CASE UNCHANGED vars
  BY <1>1, <1>2, <1>4 DEF vars
<1>5. ASSUME NEW d \in completions, PublishRefused(d)
      PROVE  Inv'
  BY <1>1, <1>2, <1>5 DEF PublishRefused
<1> QED BY <1>3, <1>4, <1>5, RefusedInv, NotAdmittedInv, JoinsInv, OpensInv, CancelOwnerInv,
           ReportsInv, ReturnsInv, PublishInv DEF Next

\* It holds in every reachable state.
LEMMA SpecInv == Spec => []Inv
BY InitInv, NextInv, PTL DEF Spec

-----------------------------------------------------------------------------
(* The theorems                                                            *)

\* The executor's maps hold what their Rust types say, whatever the panes select,
\* cancel and close while the jobs run.
THEOREM TypeCorrect == Spec => []TypeOK
<1>1. Inv => TypeOK
  BY DEF Inv
<1> QED BY <1>1, SpecInv, PTL

\* No capture, cancellation or expiry takes a dispatched flight from the thread
\* that computes it, so `complete` never answers UnknownFlight.
THEOREM RunnersHold == Spec => []RunnersHoldTheirFlights
<1>1. Inv => RunnersHoldTheirFlights
  BY DEF Inv, JobsHold, RunnersHoldTheirFlights
<1> QED BY <1>1, SpecInv, PTL

\* A follower never waits on a result cell that no thread will fill, and finds
\* its own gate in the outcome: a join only succeeds while the runner is still
\* to report, and the report holds a gate for every subscriber.
THEOREM FollowersAnswered == Spec => []FollowersAreAnswered
<1>1. Inv => FollowersAreAnswered
  <2> SUFFICES ASSUME Inv, NEW j \in jobs, ~j.runner
               PROVE  IF Stored(j.flight) THEN j.task \in DOMAIN outcomes[j.flight].gates
                      ELSE \E k \in jobs : k.runner /\ k.flight = j.flight
    BY DEF FollowersAreAnswered
  <2>1. Answered(coordinator, jobs, outcomes, j)
    BY DEF Inv, JobsHold
  <2>2. CASE \E k \in jobs : k.runner /\ ~k.reported /\ k.flight = j.flight
    BY <2>2 DEF Inv, JobsHold, IsRunning, Stored
  <2>3. CASE /\ j.flight \in DOMAIN outcomes /\ j.task \in DOMAIN outcomes[j.flight].gates
             /\ \/ outcomes[j.flight].stored
                \/ \E k \in jobs : k.runner /\ k.flight = j.flight
    BY <2>3 DEF Stored
  <2> QED BY <2>1, <2>2, <2>3 DEF Answered
<1> QED BY <1>1, SpecInv, PTL

\* However late the jobs of a pane's older selections end, the pane is given the
\* result of its newest selection and nothing else, and no result twice.
THEOREM NewestIsPublished == Spec => OnlyTheNewestSelectionIsPublished
<1> DEFINE Newest == \A o \in Owners : delivered'[o] # delivered[o] =>
                       delivered'[o] = selected[o] /\ delivered'[o] > delivered[o]
<1>1. Inv /\ [Next]_vars => Newest
  <2> SUFFICES ASSUME Inv, [Next]_vars PROVE Newest
    OBVIOUS
  <2>1. CASE delivered' = delivered
    BY <2>1
  <2>2. ASSUME NEW d \in completions, Publish(d)
        PROVE  Newest
    <3>1. /\ d.owner \in Owners
          /\ delivered' = [delivered EXCEPT ![d.owner] = selected[d.owner]]
          /\ delivered[d.owner] < selected[d.owner]
      BY <2>2, PublishInv
    <3>2. /\ delivered \in [Owners -> 0 .. MaxGeneration]
          /\ delivered[d.owner] \in Nat /\ selected[d.owner] \in Nat
      BY <3>1, Counts DEF Inv, TypeOK
    <3> QED BY <3>1, <3>2
  <2> QED BY <2>1, <2>2 DEF Next, vars, CaptureRefused, CaptureNotAdmitted, CaptureJoins,
           CaptureOpens, CancelOwner, RunnerReports, RunnerReturns, FollowerReturns,
           PublishRefused, Edit
<1> QED BY <1>1, SpecInv, PTL DEF Spec, OnlyTheNewestSelectionIsPublished

=============================================================================
