--------------------------- MODULE AdmissionProofs ---------------------------
(***************************************************************************)
(* Who a method of the coordinator concerns: which tasks, subscriptions    *)
(* and flights it adds, changes and removes, for every value of the        *)
(* constants.  From this follow the admission limits, the rule of one      *)
(* request per owner and recipe, the progress that subscribers share, and  *)
(* the order in which dispatch_next takes flights.                         *)
(***************************************************************************)
EXTENDS CoordinatorProofs, OrderProofs

-----------------------------------------------------------------------------
(* Removing work                                                           *)

\* What a method that only cancels and retires does: the flights in F are gone,
\* perhaps with some tasks, perhaps fewer tasks are eligible, and of what is
\* left nothing a requester asked for and nothing a worker reported has changed.
Leaves(c, d, F) ==
  /\ DOMAIN d.flights = DOMAIN c.flights \ F
  /\ \A f \in DOMAIN d.flights :
       /\ d.flights[f].key = c.flights[f].key
       /\ d.flights[f].state = c.flights[f].state
       /\ d.flights[f].submitted_at = c.flights[f].submitted_at
       /\ d.flights[f].subscribers = c.flights[f].subscribers
  /\ DOMAIN d.tasks \subseteq DOMAIN c.tasks
  /\ \A t \in DOMAIN d.tasks :
       /\ d.tasks[t].owner = c.tasks[t].owner
       /\ d.tasks[t].generation = c.tasks[t].generation
       /\ d.tasks[t].flight = c.tasks[t].flight
       /\ d.tasks[t].priority = c.tasks[t].priority
       /\ d.tasks[t].deadline = c.tasks[t].deadline
       /\ d.tasks[t].progress = c.tasks[t].progress
  /\ EligibleTasks(d) \subseteq EligibleTasks(c)
  /\ d.next_task = c.next_task /\ d.next_flight = c.next_flight

\* Cancelling and then retiring is still only cancelling and retiring.
LEMMA LeavesThenLeaves ==
  ASSUME NEW c, NEW d, NEW e, NEW F, NEW G, Leaves(c, d, F), Leaves(d, e, G)
  PROVE  Leaves(c, e, F \cup G)
BY DEF Leaves

\* Cancelling takes no flight with it.
LEMMA CancelsThenLeaves ==
  ASSUME NEW c, NEW d, NEW e, NEW F, Leaves(c, d, {}), Leaves(d, e, F)
  PROVE  Leaves(c, e, F)
BY DEF Leaves

\* mark_cancelling writes a state and a reason, nothing else.
LEMMA MarkCancellingLeaves ==
  ASSUME NEW c, CoordinatorType(c), NEW S, NEW reason \in Reasons
  PROVE  LET d == MarkCancelling(c, S, reason) IN
         /\ Leaves(c, d, {}) /\ DOMAIN d.tasks = DOMAIN c.tasks
         /\ d.sessions = c.sessions
         /\ EligibleTasks(d) = EligibleTasks(c) \ S
         /\ CoordinatorType(d)
<1> DEFINE v == [t \in DOMAIN c.tasks |->
                  IF t \in S /\ IsEligible(c.tasks[t])
                  THEN [c.tasks[t] EXCEPT !.state = "Cancelling", !.reason = reason]
                  ELSE c.tasks[t]]
           d == MarkCancelling(c, S, reason)
<1>1. IsStruct(c)
  BY DEF CoordinatorType
<1>2. d = [c EXCEPT !.tasks = v]
  BY DEF MarkCancelling
<1>3. /\ DOMAIN v = DOMAIN c.tasks /\ v = [t \in DOMAIN v |-> v[t]]
      /\ \A t \in DOMAIN c.tasks :
           v[t] = IF t \in S /\ IsEligible(c.tasks[t])
                  THEN [c.tasks[t] EXCEPT !.state = "Cancelling", !.reason = reason]
                  ELSE c.tasks[t]
  OBVIOUS
<1> HIDE DEF v, d
<1>4. /\ IsStruct(d) /\ d.flights = c.flights /\ d.tasks = v
      /\ d.sessions = c.sessions /\ d.single_flights = c.single_flights
      /\ d.running_by_resource = c.running_by_resource /\ d.terminal = c.terminal
      /\ d.next_task = c.next_task /\ d.next_flight = c.next_flight
  <2>1. d = Struct(c.sessions, v, c.flights, c.single_flights,
                   c.running_by_resource, c.terminal,
                   c.next_task, c.next_flight)
    BY <1>1, <1>2, PutTasks
  <2> QED BY <2>1, StructFields
<1>5. \A t \in DOMAIN c.tasks :
        /\ v[t].owner = c.tasks[t].owner
        /\ v[t].generation = c.tasks[t].generation
        /\ v[t].flight = c.tasks[t].flight
        /\ v[t].priority = c.tasks[t].priority
        /\ v[t].deadline = c.tasks[t].deadline
        /\ v[t].progress = c.tasks[t].progress
        /\ IsEligible(v[t]) <=> IsEligible(c.tasks[t]) /\ t \notin S
        /\ v[t] \in TaskRecord
  <2> TAKE t \in DOMAIN c.tasks
  <2>1. c.tasks[t] \in TaskRecord
    BY DEF CoordinatorType, IsMap
  <2>2. CASE t \in S /\ IsEligible(c.tasks[t])
    <3>1. v[t] = [c.tasks[t] EXCEPT !.state = "Cancelling", !.reason = reason]
      BY <1>3, <2>2
    <3> QED BY <2>1, <2>2, <3>1 DEF TaskRecord, IsEligible
  <2>3. CASE ~(t \in S /\ IsEligible(c.tasks[t]))
    BY <1>3, <2>1, <2>3
  <2> QED BY <2>2, <2>3
<1>6. EligibleTasks(d) = EligibleTasks(c) \ S
  BY <1>3, <1>4, <1>5 DEF EligibleTasks
<1>7. CoordinatorType(d)
  <2>1. IsMap(v, Nat, TaskRecord)
    BY <1>3, <1>5 DEF CoordinatorType, IsMap
  <2> QED BY <1>4, <2>1 DEF CoordinatorType
<1>8. Leaves(c, d, {})
  <2>1. DOMAIN d.flights = DOMAIN c.flights \ {}
    BY <1>4
  <2>2. EligibleTasks(d) \subseteq EligibleTasks(c) /\ DOMAIN d.tasks \subseteq DOMAIN c.tasks
    BY <1>3, <1>4, <1>6
  <2> QED BY <1>3, <1>4, <1>5, <2>1, <2>2 DEF Leaves
<1> QED BY <1>3, <1>4, <1>6, <1>7, <1>8 DEF d

\* cancel_unobserved_flights raises flags and drops index entries.
LEMMA CancelUnobservedLeaves ==
  ASSUME NEW c, CoordinatorType(c)
  PROVE  LET d == CancelUnobserved(c) IN
         /\ Leaves(c, d, {}) /\ d.tasks = c.tasks /\ d.sessions = c.sessions
         /\ EligibleTasks(d) = EligibleTasks(c)
<1> DEFINE lost == {f \in DOMAIN c.flights : ~Observed(c, f)}
           v == [f \in DOMAIN c.flights |->
                  IF f \in lost THEN [c.flights[f] EXCEPT !.cancelled = TRUE]
                                ELSE c.flights[f]]
           i == IndexWithout(c, lost)
           d == CancelUnobserved(c)
<1>1. IsStruct(c)
  BY DEF CoordinatorType
<1>2. d = [c EXCEPT !.flights = v, !.single_flights = i]
  BY DEF CancelUnobserved
<1>3. /\ DOMAIN v = DOMAIN c.flights
      /\ \A f \in DOMAIN c.flights :
           v[f] = IF f \in lost THEN [c.flights[f] EXCEPT !.cancelled = TRUE]
                                ELSE c.flights[f]
  OBVIOUS
<1> HIDE DEF v, i, d, lost
<1>4. /\ d.flights = v /\ d.tasks = c.tasks /\ d.sessions = c.sessions
      /\ d.next_task = c.next_task /\ d.next_flight = c.next_flight
  <2>1. d = Struct(c.sessions, c.tasks, v, i, c.running_by_resource, c.terminal,
                   c.next_task, c.next_flight)
    BY <1>1, <1>2, PutIndexedFlights
  <2> QED BY <2>1, StructFields
<1>5. \A f \in DOMAIN c.flights :
        /\ v[f].key = c.flights[f].key /\ v[f].state = c.flights[f].state
        /\ v[f].submitted_at = c.flights[f].submitted_at
        /\ v[f].subscribers = c.flights[f].subscribers
  <2> TAKE f \in DOMAIN c.flights
  <2>1. c.flights[f] \in FlightRecord
    BY DEF CoordinatorType, IsMap
  <2>2. CASE f \in lost
    <3>1. v[f] = [c.flights[f] EXCEPT !.cancelled = TRUE]
      BY <1>3, <2>2
    <3> QED BY <2>1, <3>1 DEF FlightRecord
  <2>3. CASE f \notin lost
    BY <1>3, <2>3
  <2> QED BY <2>2, <2>3
<1>6. EligibleTasks(d) = EligibleTasks(c)
  BY <1>4 DEF EligibleTasks
<1> QED BY <1>3, <1>4, <1>5, <1>6 DEF Leaves, d

\* Every cancelling method only cancels.
LEMMA CancelLeaves ==
  ASSUME NEW c, CoordinatorType(c), NEW S, NEW reason \in Reasons
  PROVE  LET d == Cancel(c, S, reason) IN
         /\ Leaves(c, d, {}) /\ DOMAIN d.tasks = DOMAIN c.tasks
         /\ d.sessions = c.sessions
         /\ EligibleTasks(d) = EligibleTasks(c) \ S
<1> DEFINE e == MarkCancelling(c, S, reason)
           d == CancelUnobserved(e)
<1>1. /\ Leaves(c, e, {}) /\ DOMAIN e.tasks = DOMAIN c.tasks
      /\ e.sessions = c.sessions
      /\ EligibleTasks(e) = EligibleTasks(c) \ S /\ CoordinatorType(e)
  BY MarkCancellingLeaves
<1> HIDE DEF e
<1>2. /\ Leaves(e, d, {}) /\ d.tasks = e.tasks /\ d.sessions = e.sessions
      /\ EligibleTasks(d) = EligibleTasks(e)
  BY <1>1, CancelUnobservedLeaves
<1>3. Cancel(c, S, reason) = d
  BY DEF Cancel, e
<1> HIDE DEF d
<1> QED BY <1>1, <1>2, <1>3, CancelsThenLeaves

\* Retiring flights removes them and nothing of the others.
LEMMA RetireFlightsLeaves ==
  ASSUME NEW c, CoordinatorType(c), NEW F, NEW final
  PROVE  Leaves(c, RetireFlights(c, F, final), F)
<1> DEFINE gone == SubscribersOf(c, F)
           t1 == Restrict(c.tasks, DOMAIN c.tasks \ gone)
           m1 == [t \in DOMAIN c.terminal \cup gone |->
                    IF t \in gone THEN final[t] ELSE c.terminal[t]]
           f1 == Restrict(c.flights, DOMAIN c.flights \ F)
           i1 == IndexWithout(c, F)
           d == RetireFlights(c, F, final)
<1>1. IsStruct(c)
  BY DEF CoordinatorType
<1>2. d = Retired(c, t1, m1, f1, i1)
  BY DEF RetireFlights, Retired
<1>3. /\ DOMAIN t1 = DOMAIN c.tasks \ gone /\ \A t \in DOMAIN t1 : t1[t] = c.tasks[t]
      /\ DOMAIN f1 = DOMAIN c.flights \ F
      /\ \A f \in DOMAIN f1 : f1[f] = c.flights[f]
  BY DEF Restrict
<1> HIDE DEF t1, m1, f1, i1, d, gone
<1>4. /\ d.flights = f1 /\ d.tasks = t1
      /\ d.next_task = c.next_task /\ d.next_flight = c.next_flight
  <2>1. d = Struct(c.sessions, t1, f1, i1, c.running_by_resource, m1,
                   c.next_task, c.next_flight)
    BY <1>1, <1>2, PutRetired
  <2> QED BY <2>1, StructFields
<1>5. EligibleTasks(d) \subseteq EligibleTasks(c)
  BY <1>3, <1>4 DEF EligibleTasks
<1> QED BY <1>3, <1>4, <1>5 DEF Leaves, d

\* expire takes queued flights only, and leaves nothing overdue eligible.
LEMMA ExpireLeaves ==
  ASSUME NEW c, Consistent(c), NEW now
  PROVE  LET d == Expire(c, now) IN
         /\ \E F \in SUBSET QueuedFlights(c) : Leaves(c, d, F)
         /\ EligibleTasks(d) \subseteq EligibleTasks(c) \ Overdue(c, now)
<1> DEFINE e == Cancel(c, Overdue(c, now), "DeadlineExceeded")
           final == [t \in DOMAIN e.tasks |->
                      IF /\ e.tasks[t].state = "Cancelling"
                         /\ e.tasks[t].reason = "DeadlineExceeded"
                      THEN "Rejected" ELSE "Cancelled"]
           d == RetireFlights(e, Abandoned(e), final)
<1>1. /\ Leaves(c, e, {}) /\ EligibleTasks(e) = EligibleTasks(c) \ Overdue(c, now)
      /\ CoordinatorType(e)
  BY CancelLeaves, CancelSound DEF Reasons, Sound, Consistent
<1>2. Expire(c, now) = d
  BY DEF Expire, RetireAbandoned
<1> HIDE DEF e, final
<1>3. Leaves(e, d, Abandoned(e))
  BY <1>1, RetireFlightsLeaves
<1> HIDE DEF d
<1>4. Leaves(c, d, Abandoned(e))
  BY <1>1, <1>3, CancelsThenLeaves
<1>5. Abandoned(e) \in SUBSET QueuedFlights(c)
  BY <1>1 DEF Abandoned, QueuedFlights, Leaves
<1>6. EligibleTasks(d) \subseteq EligibleTasks(e)
  BY <1>3 DEF Leaves
<1> QED BY <1>1, <1>2, <1>4, <1>5, <1>6

\* Writing the session map alone leaves the work as it is.
LEMMA SessionsLeaves ==
  ASSUME NEW c, IsStruct(c), NEW v
  PROVE  Leaves(c, [c EXCEPT !.sessions = v], {})
<1> DEFINE d == [c EXCEPT !.sessions = v]
<1>1. d = Struct(v, c.tasks, c.flights, c.single_flights, c.running_by_resource,
                 c.terminal, c.next_task, c.next_flight)
  BY PutSessions
<1> HIDE DEF d
<1>2. /\ d.tasks = c.tasks /\ d.flights = c.flights
      /\ d.next_task = c.next_task /\ d.next_flight = c.next_flight
  BY <1>1, StructFields
<1> QED BY <1>2 DEF Leaves, EligibleTasks, d

\* observe_session only cancels.
LEMMA ObserveSessionLeaves ==
  ASSUME NEW c, Sound(c), NEW s \in Sessions, NEW generation \in Nat
  PROVE  Leaves(c, ObserveSession(c, s, generation), {})
<1>1. CASE ~AdvancesSession(c, s, generation)
  BY <1>1 DEF ObserveSession, Leaves
<1>2. CASE AdvancesSession(c, s, generation)
  <2> DEFINE v == [x \in DOMAIN c.sessions \cup {s} |->
                    IF x = s THEN generation ELSE c.sessions[x]]
             S == {t \in TasksOfSession(c, s) : c.tasks[t].generation # generation}
             e == [c EXCEPT !.sessions = v]
             d == Cancel(e, S, "SessionAdvanced")
  <2>1. ObserveSession(c, s, generation) = d
    BY <1>2 DEF ObserveSession
  <2>2. IsMap(v, Sessions, Nat) /\ IsStruct(c)
    BY DEF Sound, Consistent, CoordinatorType, IsMap
  <2> HIDE DEF v, S
  <2>3. Consistent(e) /\ Leaves(c, e, {})
    BY <2>2, SessionsConsistent, SessionsLeaves
  <2> HIDE DEF e
  <2>4. Leaves(e, d, {})
    BY <2>3, CancelLeaves DEF Reasons, Consistent
  <2> HIDE DEF d
  <2> QED BY <2>1, <2>3, <2>4, CancelsThenLeaves
<1> QED BY <1>1, <1>2

\* observe_session writes the generation of one session, unless that is no
\* advance.
LEMMA ObserveSessionMoves ==
  ASSUME NEW c, Sound(c), NEW s \in Sessions, NEW generation \in Nat,
         AdvancesSession(c, s, generation)
  PROVE  LET d == ObserveSession(c, s, generation) IN
         /\ DOMAIN d.sessions = DOMAIN c.sessions \cup {s}
         /\ d.sessions[s] = generation
         /\ \A x \in DOMAIN c.sessions \ {s} : d.sessions[x] = c.sessions[x]
<1> DEFINE v == [x \in DOMAIN c.sessions \cup {s} |->
                  IF x = s THEN generation ELSE c.sessions[x]]
           S == {t \in TasksOfSession(c, s) : c.tasks[t].generation # generation}
           e == [c EXCEPT !.sessions = v]
<1>1. ObserveSession(c, s, generation) = Cancel(e, S, "SessionAdvanced")
  BY DEF ObserveSession
<1>2. IsMap(v, Sessions, Nat)
  BY DEF Sound, Consistent, CoordinatorType, IsMap
<1>3. /\ DOMAIN v = DOMAIN c.sessions \cup {s} /\ v[s] = generation
      /\ \A x \in DOMAIN c.sessions \ {s} : v[x] = c.sessions[x]
  OBVIOUS
<1> HIDE DEF v, S
<1>4. Consistent(e) /\ e.sessions = v
  BY <1>2, SessionsConsistent
<1> HIDE DEF e
<1>5. Cancel(e, S, "SessionAdvanced").sessions = v
  BY <1>4, CancelSound DEF Reasons, GrantsNothing
<1> QED BY <1>1, <1>3, <1>5

\* close_session only cancels.
LEMMA CloseSessionLeaves ==
  ASSUME NEW c, Sound(c), NEW s
  PROVE  Leaves(c, CloseSession(c, s), {})
<1> DEFINE v == Restrict(c.sessions, DOMAIN c.sessions \ {s})
           S == TasksOfSession(c, s)
           e == [c EXCEPT !.sessions = v]
           d == Cancel(e, S, "SessionAdvanced")
<1>1. CloseSession(c, s) = d
  BY DEF CloseSession
<1>2. /\ v = [x \in DOMAIN v |-> v[x]] /\ DOMAIN v = DOMAIN c.sessions \ {s}
      /\ \A x \in DOMAIN v : v[x] = c.sessions[x]
  BY DEF Restrict
<1> HIDE DEF v, S
<1>3. IsMap(v, Sessions, Nat) /\ IsStruct(c)
  BY <1>2 DEF Sound, Consistent, CoordinatorType, IsMap
<1>4. Consistent(e) /\ Leaves(c, e, {})
  BY <1>3, SessionsConsistent, SessionsLeaves
<1> HIDE DEF e
<1>5. Leaves(e, d, {})
  BY <1>4, CancelLeaves DEF Reasons, Consistent
<1> HIDE DEF d
<1> QED BY <1>1, <1>4, <1>5, CancelsThenLeaves

\* complete removes the flight it is called for.
LEMMA CompleteFlightLeaves ==
  ASSUME NEW c, Sound(c), NEW f \in DOMAIN c.flights, NEW outcome \in Outcomes, NEW now
  PROVE  Leaves(c, CompleteFlight(c, f, outcome, now), {f})
<1> DEFINE F == {f}
           final == [t \in DOMAIN c.tasks |->
                      IF t \in Accepted(c, f, now) THEN outcome ELSE "Rejected"]
           e == RetireFlights(c, F, final)
           r1 == [x \in Resources |->
                    IF x = ResourceOf[c.flights[f].key] /\ e.running_by_resource[x] > 0
                    THEN e.running_by_resource[x] - 1 ELSE e.running_by_resource[x]]
           d == CompleteFlight(c, f, outcome, now)
<1>1. d = [e EXCEPT !.running_by_resource = r1]
  BY DEF CompleteFlight, ReleaseSlot
<1>2. \A t \in DOMAIN c.tasks : final[t] \in Final
  BY DEF Final
<1>3. F \subseteq DOMAIN c.flights
  OBVIOUS
<1> HIDE DEF final, F
<1>4. Leaves(c, e, F) /\ IsStruct(e)
  BY <1>2, <1>3, RetireFlightsLeaves, RetireFlightsSound
     DEF Sound, Consistent, CoordinatorType
<1> HIDE DEF e, r1, d
<1>5. /\ d.tasks = e.tasks /\ d.flights = e.flights
      /\ d.next_task = e.next_task /\ d.next_flight = e.next_flight
  <2>1. d = Struct(e.sessions, e.tasks, e.flights, e.single_flights, r1,
                   e.terminal, e.next_task, e.next_flight)
    BY <1>1, <1>4, PutSlots
  <2> QED BY <2>1, StructFields
<1>6. EligibleTasks(d) = EligibleTasks(e)
  BY <1>5 DEF EligibleTasks
<1>7. Leaves(c, d, F)
  BY <1>4, <1>5, <1>6 DEF Leaves
<1> QED BY <1>7 DEF F, d

-----------------------------------------------------------------------------
(* Starting and reporting                                                  *)

\* What a requester asked for is as it was.
SameRequests(c, d) ==
  /\ DOMAIN d.tasks = DOMAIN c.tasks
  /\ EligibleTasks(d) = EligibleTasks(c)
  /\ \A t \in DOMAIN c.tasks :
       /\ d.tasks[t].owner = c.tasks[t].owner
       /\ d.tasks[t].generation = c.tasks[t].generation
       /\ d.tasks[t].flight = c.tasks[t].flight
       /\ d.tasks[t].priority = c.tasks[t].priority
       /\ d.tasks[t].deadline = c.tasks[t].deadline
  /\ d.next_task = c.next_task /\ d.next_flight = c.next_flight

\* What dispatch_next does: the flight f is running.
Starts(c, d, f) ==
  /\ SameRequests(c, d)
  /\ \A t \in DOMAIN c.tasks : d.tasks[t].progress = c.tasks[t].progress
  /\ DOMAIN d.flights = DOMAIN c.flights
  /\ \A g \in DOMAIN c.flights :
       /\ d.flights[g].key = c.flights[g].key
       /\ d.flights[g].state = IF g = f THEN "Running" ELSE c.flights[g].state
       /\ d.flights[g].subscribers = c.flights[g].subscribers

\* The subscribers that have seen a report the new one would take back.
Regressed(c, f, p) ==
  {t \in c.flights[f].subscribers \cap DOMAIN c.tasks :
     c.tasks[t].progress # NoProgress /\ ~Follows(p, c.tasks[t].progress)}

\* What report_progress does: the subscribers before the first regressed one
\* have the report.
Reports(c, d, f, p) ==
  /\ SameRequests(c, d)
  /\ d.flights = c.flights
  /\ \A t \in DOMAIN c.tasks :
       d.tasks[t].progress =
         IF /\ t \in c.flights[f].subscribers
            /\ \A r \in Regressed(c, f, p) : t < r
         THEN p ELSE c.tasks[t].progress

\* dispatch_next changes the state of one flight and of its subscribers.
LEMMA DispatchFlightStarts ==
  ASSUME NEW c, Sound(c), NEW f \in DOMAIN c.flights
  PROVE  Starts(c, DispatchFlight(c, f), f)
<1> DEFINE v == [g \in DOMAIN c.flights |->
                   IF g = f THEN [c.flights[g] EXCEPT !.state = "Running"]
                   ELSE c.flights[g]]
           r1 == [r \in Resources |->
                   IF r = ResourceOf[c.flights[f].key] THEN c.running_by_resource[r] + 1
                                                       ELSE c.running_by_resource[r]]
           t1 == [t \in DOMAIN c.tasks |->
                   IF t \in EligibleSubscribers(c, f)
                   THEN [c.tasks[t] EXCEPT !.state = "Running"] ELSE c.tasks[t]]
           d == DispatchFlight(c, f)
<1>1. IsStruct(c) /\ CoordinatorType(c)
  BY DEF Sound, Consistent, CoordinatorType
<1>2. d = Dispatched(c, v, r1, t1)
  BY DEF DispatchFlight, Dispatched
<1>3. /\ DOMAIN v = DOMAIN c.flights
      /\ \A g \in DOMAIN c.flights :
           v[g] = IF g = f THEN [c.flights[g] EXCEPT !.state = "Running"]
                  ELSE c.flights[g]
      /\ DOMAIN t1 = DOMAIN c.tasks
      /\ \A t \in DOMAIN c.tasks :
           t1[t] = IF t \in EligibleSubscribers(c, f)
                   THEN [c.tasks[t] EXCEPT !.state = "Running"] ELSE c.tasks[t]
  OBVIOUS
<1> HIDE DEF v, r1, t1, d
<1>4. /\ d.flights = v /\ d.tasks = t1
      /\ d.next_task = c.next_task /\ d.next_flight = c.next_flight
  <2>1. d = Struct(c.sessions, t1, v, c.single_flights, r1, c.terminal,
                   c.next_task, c.next_flight)
    BY <1>1, <1>2, PutDispatched
  <2> QED BY <2>1, StructFields
<1>5. \A g \in DOMAIN c.flights :
        /\ v[g].key = c.flights[g].key
        /\ v[g].subscribers = c.flights[g].subscribers
        /\ v[g].state = IF g = f THEN "Running" ELSE c.flights[g].state
  <2> TAKE g \in DOMAIN c.flights
  <2>1. c.flights[g] \in FlightRecord
    BY <1>1 DEF CoordinatorType, IsMap
  <2>2. CASE g = f
    <3>1. v[g] = [c.flights[g] EXCEPT !.state = "Running"]
      BY <1>3, <2>2
    <3> QED BY <2>1, <2>2, <3>1 DEF FlightRecord
  <2>3. CASE g # f
    BY <1>3, <2>3
  <2> QED BY <2>2, <2>3
<1>6. \A t \in DOMAIN c.tasks :
        /\ t1[t].owner = c.tasks[t].owner
        /\ t1[t].generation = c.tasks[t].generation
        /\ t1[t].flight = c.tasks[t].flight
        /\ t1[t].priority = c.tasks[t].priority
        /\ t1[t].deadline = c.tasks[t].deadline
        /\ t1[t].progress = c.tasks[t].progress
        /\ IsEligible(t1[t]) <=> IsEligible(c.tasks[t])
  <2> TAKE t \in DOMAIN c.tasks
  <2>1. c.tasks[t] \in TaskRecord
    BY <1>1 DEF CoordinatorType, IsMap
  <2>2. CASE t \in EligibleSubscribers(c, f)
    <3>1. t1[t] = [c.tasks[t] EXCEPT !.state = "Running"]
      BY <1>3, <2>2
    <3>2. IsEligible(c.tasks[t])
      BY <2>2 DEF EligibleSubscribers, EligibleTasks
    <3> QED BY <2>1, <3>1, <3>2 DEF TaskRecord, IsEligible
  <2>3. CASE t \notin EligibleSubscribers(c, f)
    BY <1>3, <2>3
  <2> QED BY <2>2, <2>3
<1>7. EligibleTasks(d) = EligibleTasks(c)
  BY <1>3, <1>4, <1>6 DEF EligibleTasks
<1> QED BY <1>3, <1>4, <1>5, <1>6, <1>7 DEF Starts, SameRequests, d

\* report_progress changes the progress of a flight's subscribers.
LEMMA ReportProgressReports ==
  ASSUME NEW c, Sound(c), NEW f, NEW p \in Progress
  PROVE  Reports(c, ReportProgress(c, f, p), f, p)
<1> DEFINE subscribers == c.flights[f].subscribers \cap DOMAIN c.tasks
           written == {t \in subscribers : \A r \in Regressed(c, f, p) : t < r}
           t1 == [t \in DOMAIN c.tasks |->
                   IF t \in written THEN [c.tasks[t] EXCEPT !.progress = p]
                   ELSE c.tasks[t]]
           d == ReportProgress(c, f, p)
<1>1. IsStruct(c) /\ CoordinatorType(c)
  BY DEF Sound, Consistent, CoordinatorType
<1>2. d = [c EXCEPT !.tasks = t1]
  BY DEF ReportProgress, Regressed
<1>3. \A t \in DOMAIN c.tasks :
        t \in written <=> /\ t \in c.flights[f].subscribers
                          /\ \A r \in Regressed(c, f, p) : t < r
  OBVIOUS
<1> HIDE DEF written
<1>4. /\ DOMAIN t1 = DOMAIN c.tasks
      /\ \A t \in DOMAIN c.tasks :
           t1[t] = IF t \in written THEN [c.tasks[t] EXCEPT !.progress = p]
                   ELSE c.tasks[t]
  OBVIOUS
<1> HIDE DEF t1, d
<1>5. /\ d.tasks = t1 /\ d.flights = c.flights
      /\ d.next_task = c.next_task /\ d.next_flight = c.next_flight
  <2>1. d = Struct(c.sessions, t1, c.flights, c.single_flights,
                   c.running_by_resource, c.terminal,
                   c.next_task, c.next_flight)
    BY <1>1, <1>2, PutTasks
  <2> QED BY <2>1, StructFields
<1>6. \A t \in DOMAIN c.tasks :
        /\ t1[t].owner = c.tasks[t].owner
        /\ t1[t].generation = c.tasks[t].generation
        /\ t1[t].flight = c.tasks[t].flight
        /\ t1[t].priority = c.tasks[t].priority
        /\ t1[t].deadline = c.tasks[t].deadline
        /\ t1[t].state = c.tasks[t].state
        /\ t1[t].progress = IF t \in written THEN p ELSE c.tasks[t].progress
  <2> TAKE t \in DOMAIN c.tasks
  <2>1. c.tasks[t] \in TaskRecord
    BY <1>1 DEF CoordinatorType, IsMap
  <2>2. CASE t \in written
    <3>1. t1[t] = [c.tasks[t] EXCEPT !.progress = p]
      BY <1>4, <2>2
    <3> QED BY <2>1, <2>2, <3>1 DEF TaskRecord
  <2>3. CASE t \notin written
    BY <1>4, <2>3
  <2> QED BY <2>2, <2>3
<1>7. EligibleTasks(d) = EligibleTasks(c)
  BY <1>4, <1>5, <1>6 DEF EligibleTasks, IsEligible
<1> QED BY <1>3, <1>4, <1>5, <1>6, <1>7 DEF Reports, SameRequests, d

-----------------------------------------------------------------------------
(* Admitting                                                               *)

\* What inserting a request does: a task with the next id subscribes to the
\* flight f, which may be new.
Adds(c, d, spec, f) ==
  LET n == c.next_task IN
  /\ n \notin DOMAIN c.tasks /\ n \in Nat /\ d.next_task = n + 1
  /\ d.sessions = c.sessions
  /\ DOMAIN d.tasks = DOMAIN c.tasks \cup {n}
  /\ d.tasks[n].owner = spec.owner /\ d.tasks[n].generation = spec.generation
  /\ d.tasks[n].flight = f /\ d.tasks[n].progress = NoProgress
  /\ d.tasks[n].deadline = spec.deadline
  /\ \A t \in DOMAIN c.tasks :
       /\ d.tasks[t].owner = c.tasks[t].owner
       /\ d.tasks[t].generation = c.tasks[t].generation
       /\ d.tasks[t].flight = c.tasks[t].flight
       /\ d.tasks[t].deadline = c.tasks[t].deadline
       /\ d.tasks[t].progress = c.tasks[t].progress
  /\ DOMAIN d.flights = DOMAIN c.flights \cup {f}
  /\ \A g \in DOMAIN c.flights :
       /\ d.flights[g].key = c.flights[g].key
       /\ d.flights[g].state = c.flights[g].state
       /\ d.flights[g].subscribers =
            c.flights[g].subscribers \cup (IF g = f THEN {n} ELSE {})
  /\ d.flights[f].key = spec.key
  /\ f \notin DOMAIN c.flights => /\ f = c.next_flight
                                  /\ d.flights[f].state = "Queued"
                                  /\ d.flights[f].subscribers = {n}
  /\ d.next_flight = IF f \in DOMAIN c.flights THEN c.next_flight
                                               ELSE c.next_flight + 1

\* An accepted submission also supersedes the requester's older tasks, and not
\* the one it inserts.
Admits(c, d, spec, f) ==
  /\ Adds(c, d, spec, f)
  /\ c.next_task \in EligibleTasks(d)
  /\ EligibleTasks(d) \subseteq
       (EligibleTasks(c) \ Supersedable(c, spec)) \cup {c.next_task}

\* Inserting a request and superseding the older ones is admitting it.
LEMMA SupersedeAdmits ==
  ASSUME NEW c, NEW e, NEW spec, NEW f, CoordinatorType(e), Adds(c, e, spec, f),
         EligibleTasks(e) = EligibleTasks(c) \cup {c.next_task}
  PROVE  Admits(c, SupersedeOlder(e, spec, c.next_task), spec, f)
<1> DEFINE S == Supersedable(e, spec) \ {c.next_task}
           d == SupersedeOlder(e, spec, c.next_task)
<1>1. \A t \in Supersedable(c, spec) : t \in S
  BY DEF Adds, Supersedable
<1>2. c.next_task \notin S
  OBVIOUS
<1>3. d = Cancel(e, S, "Superseded")
  BY DEF SupersedeOlder
<1> HIDE DEF S, d
<1>4. /\ Leaves(e, d, {}) /\ DOMAIN d.tasks = DOMAIN e.tasks
      /\ d.sessions = e.sessions
      /\ EligibleTasks(d) = EligibleTasks(e) \ S
  BY <1>3, CancelLeaves DEF Reasons
<1>5. Adds(c, d, spec, f)
  BY <1>4 DEF Adds, Leaves
<1>6. c.next_task \in EligibleTasks(d)
  BY <1>2, <1>4
<1>7. EligibleTasks(d) \subseteq
        (EligibleTasks(c) \ Supersedable(c, spec)) \cup {c.next_task}
  BY <1>1, <1>4
<1> QED BY <1>5, <1>6, <1>7 DEF Admits, d

\* The record submit inserts is what the requester asked for.
LEMMA NewTaskFields ==
  ASSUME NEW spec, NEW f, NEW state
  PROVE  LET task == NewTask(spec, f, state) IN
         /\ task.owner = spec.owner /\ task.generation = spec.generation
         /\ task.flight = f /\ task.deadline = spec.deadline
         /\ task.progress = NoProgress
BY DEF NewTask

\* submit, when it joins a flight.
LEMMA JoinFlightAdmits ==
  ASSUME NEW c, Sound(c), NEW spec \in TaskSpec,
         NEW f \in DOMAIN c.flights, MayJoin(c, spec, f)
  PROVE  Admits(c, JoinFlight(c, spec, f), spec, f)
<1> DEFINE n == c.next_task
           task == NewTask(spec, f, c.flights[f].state)
           a == WithTask(c, task)
           v == [g \in DOMAIN c.flights |->
                   IF g = f THEN [c.flights[g] EXCEPT !.subscribers = @ \cup {n}]
                   ELSE c.flights[g]]
           e == [a EXCEPT !.flights = v]
<1>1. Consistent(c) /\ CoordinatorType(c) /\ IndexExact(c) /\ n \in Nat
  BY DEF Sound, Consistent, CoordinatorType
<1>2. JoinFlight(c, spec, f) = SupersedeOlder(e, spec, c.next_task)
  BY DEF JoinFlight
<1>3. f \in Nat /\ c.flights[f] \in FlightRecord /\ c.flights[f].key = spec.key
  BY <1>1 DEF CoordinatorType, IsMap, MayJoin, Shares, IndexExact
<1>4. task \in TaskRecord /\ IsEligible(task)
  BY <1>3, NewTaskRecord DEF FlightRecord
<1>5. /\ task.owner = spec.owner /\ task.generation = spec.generation
      /\ task.flight = f /\ task.deadline = spec.deadline
      /\ task.progress = NoProgress
  BY NewTaskFields
<1> HIDE DEF task
<1>6. /\ DOMAIN v = DOMAIN c.flights /\ v = [g \in DOMAIN v |-> v[g]]
      /\ \A g \in DOMAIN c.flights :
           v[g] = IF g = f THEN [c.flights[g] EXCEPT !.subscribers = @ \cup {n}]
                  ELSE c.flights[g]
  OBVIOUS
<1> HIDE DEF v
<1>7. \A g \in DOMAIN c.flights :
        /\ v[g] \in FlightRecord
        /\ v[g].key = c.flights[g].key /\ v[g].state = c.flights[g].state
        /\ v[g].subscribers =
             c.flights[g].subscribers \cup (IF g = f THEN {n} ELSE {})
  <2> TAKE g \in DOMAIN c.flights
  <2>1. c.flights[g] \in FlightRecord
    BY <1>1 DEF CoordinatorType, IsMap
  <2>2. CASE g = f
    <3>1. v[g] = [c.flights[g] EXCEPT !.subscribers = @ \cup {n}]
      BY <1>6, <2>2
    <3> QED BY <1>1, <2>1, <2>2, <3>1 DEF FlightRecord
  <2>3. CASE g # f
    BY <1>6, <2>1, <2>3
  <2> QED BY <2>2, <2>3
<1>8. /\ IsStruct(a) /\ a.sessions = c.sessions /\ a.flights = c.flights
      /\ a.single_flights = c.single_flights
      /\ a.running_by_resource = c.running_by_resource /\ a.terminal = c.terminal
      /\ a.next_task = n + 1 /\ a.next_flight = c.next_flight
      /\ n \notin DOMAIN c.tasks
      /\ DOMAIN a.tasks = DOMAIN c.tasks \cup {n}
      /\ a.tasks[n] = task /\ \A t \in DOMAIN c.tasks : a.tasks[t] = c.tasks[t]
      /\ IsMap(a.tasks, Nat, TaskRecord)
      /\ EligibleTasks(a) = EligibleTasks(c) \cup {n}
  BY <1>1, <1>4, WithTaskFields
<1> HIDE DEF a
<1>9. /\ IsStruct(e) /\ e.sessions = c.sessions /\ e.flights = v /\ e.tasks = a.tasks
      /\ e.single_flights = c.single_flights
      /\ e.running_by_resource = c.running_by_resource /\ e.terminal = c.terminal
      /\ e.next_task = n + 1 /\ e.next_flight = c.next_flight
  <2>1. e = Struct(a.sessions, a.tasks, v, a.single_flights,
                   a.running_by_resource, a.terminal,
                   a.next_task, a.next_flight)
    BY <1>8, PutFlights
  <2> QED BY <1>8, <2>1, StructFields
<1> HIDE DEF e
<1>10. EligibleTasks(e) = EligibleTasks(c) \cup {n}
  BY <1>8, <1>9 DEF EligibleTasks
<1>11. CoordinatorType(e)
  <2>1. IsMap(v, Nat, FlightRecord)
    BY <1>1, <1>6, <1>7 DEF CoordinatorType, IsMap
  <2> QED BY <1>1, <1>8, <1>9, <2>1 DEF CoordinatorType
<1>12. Adds(c, e, spec, f)
  BY <1>1, <1>3, <1>5, <1>6, <1>7, <1>8, <1>9 DEF Adds
<1> QED BY <1>2, <1>10, <1>11, <1>12, SupersedeAdmits

\* submit, when it opens a flight.
LEMMA OpenFlightAdmits ==
  ASSUME NEW c, Sound(c), NEW spec \in TaskSpec, NEW now \in Nat, MayOpen(c, spec)
  PROVE  /\ c.next_flight \notin DOMAIN c.flights
         /\ Admits(c, OpenFlight(c, spec, now), spec, c.next_flight)
<1> DEFINE n == c.next_task
           f == c.next_flight
           task == NewTask(spec, f, "Queued")
           flight == [key |-> spec.key, state |-> "Queued", submitted_at |-> now,
                      subscribers |-> {n}, cancelled |-> FALSE]
           a == WithTask(c, task)
           v == [g \in DOMAIN c.flights \cup {f} |->
                   IF g = f THEN flight ELSE c.flights[g]]
           i == [k \in DOMAIN c.single_flights \cup {spec.key} |->
                   IF k = spec.key THEN f ELSE c.single_flights[k]]
           e == Opened(a, v, i, a.next_flight + 1)
<1>1. /\ Consistent(c) /\ CoordinatorType(c) /\ Mutual(c)
      /\ n \in Nat /\ f \in Nat \ {0}
  BY DEF Sound, Consistent, CoordinatorType
<1>2. OpenFlight(c, spec, now) = SupersedeOlder(e, spec, c.next_task)
  BY DEF OpenFlight, Opened
<1>3. f \notin DOMAIN c.flights
  BY <1>1 DEF Mutual
<1>4. task \in TaskRecord /\ IsEligible(task)
  BY <1>1, NewTaskRecord
<1>5. /\ task.owner = spec.owner /\ task.generation = spec.generation
      /\ task.flight = f /\ task.deadline = spec.deadline
      /\ task.progress = NoProgress
  BY NewTaskFields
<1>6. /\ flight \in FlightRecord /\ flight.key = spec.key /\ flight.state = "Queued"
      /\ flight.subscribers = {n}
  BY <1>1 DEF FlightRecord, TaskSpec
<1> HIDE DEF flight, task
<1>7. /\ v = [g \in DOMAIN v |-> v[g]] /\ DOMAIN v = DOMAIN c.flights \cup {f}
      /\ v[f] = flight /\ \A g \in DOMAIN c.flights : v[g] = c.flights[g]
  BY <1>3
<1>8. /\ i = [k \in DOMAIN i |-> i[k]]
      /\ DOMAIN i = DOMAIN c.single_flights \cup {spec.key}
      /\ \A k \in DOMAIN i : i[k] \in {f, c.single_flights[k]}
      /\ \A k \in DOMAIN c.single_flights : k # spec.key /\ i[k] = c.single_flights[k]
      /\ i[spec.key] = f
  BY DEF MayOpen
<1> HIDE DEF v, i
<1>9. /\ IsStruct(a) /\ a.sessions = c.sessions /\ a.flights = c.flights
      /\ a.running_by_resource = c.running_by_resource /\ a.terminal = c.terminal
      /\ a.next_task = n + 1 /\ a.next_flight = f
      /\ n \notin DOMAIN c.tasks
      /\ DOMAIN a.tasks = DOMAIN c.tasks \cup {n}
      /\ a.tasks[n] = task /\ \A t \in DOMAIN c.tasks : a.tasks[t] = c.tasks[t]
      /\ IsMap(a.tasks, Nat, TaskRecord)
      /\ EligibleTasks(a) = EligibleTasks(c) \cup {n}
  BY <1>1, <1>4, WithTaskFields
<1> HIDE DEF a
<1>10. /\ IsStruct(e) /\ e.sessions = c.sessions /\ e.flights = v /\ e.tasks = a.tasks
       /\ e.single_flights = i
       /\ e.running_by_resource = c.running_by_resource /\ e.terminal = c.terminal
       /\ e.next_task = n + 1 /\ e.next_flight = f + 1
  <2>1. e = Struct(a.sessions, a.tasks, v, i, a.running_by_resource, a.terminal,
                   a.next_task, a.next_flight + 1)
    BY <1>9, PutNewFlight
  <2> HIDE DEF e
  <2> QED BY <1>9, <2>1, StructFields
<1> HIDE DEF e
<1>11. EligibleTasks(e) = EligibleTasks(c) \cup {n}
  BY <1>9, <1>10 DEF EligibleTasks
<1>12. CoordinatorType(e)
  <2>1. IsMap(v, Nat, FlightRecord)
    BY <1>1, <1>6, <1>7 DEF CoordinatorType, IsMap
  <2>2. IsMap(i, Keys, Nat)
    BY <1>1, <1>8 DEF CoordinatorType, IsMap, TaskSpec
  <2> QED BY <1>1, <1>9, <1>10, <2>1, <2>2 DEF CoordinatorType
<1>13. \A g \in DOMAIN c.flights : g # f /\ c.flights[g].subscribers \cup {}
                                              = c.flights[g].subscribers
  BY <1>3
<1>14. Adds(c, e, spec, f)
  BY <1>1, <1>3, <1>5, <1>6, <1>7, <1>9, <1>10, <1>13 DEF Adds
<1> QED BY <1>2, <1>3, <1>11, <1>12, <1>14, SupersedeAdmits

-----------------------------------------------------------------------------
(* Limits, duplicates and reports                                          *)

\* report_progress meets subscribers in id order, and whoever joins later has a
\* larger id: those that have seen a report come before those that have not.
\* Without this a regressing report could reach the subscribers before the one
\* it regresses.
EarlierHaveSeen(c) ==
  \A f \in DOMAIN c.flights : \A t, u \in c.flights[f].subscribers :
    c.tasks[t].progress = NoProgress /\ c.tasks[u].progress # NoProgress => u < t

\* What the methods maintain besides Sound.
Shared(c) == Bounded(c) /\ OneRequest(c) /\ SameProgress(c) /\ EarlierHaveSeen(c)

\* A coordinator has handed out finitely many ids.
LEMMA FinitelyMuch ==
  ASSUME NEW c, Sound(c)
  PROVE  /\ IsFiniteSet(DOMAIN c.tasks) /\ IsFiniteSet(EligibleTasks(c))
         /\ IsFiniteSet(DOMAIN c.flights) /\ IsFiniteSet(QueuedFlights(c))
         /\ \A f \in DOMAIN c.flights : IsFiniteSet(c.flights[f].subscribers)
<1>1. CoordinatorType(c) /\ Accounted(c) /\ Mutual(c)
  BY DEF Sound, Consistent
<1>2. IsFiniteSet(DOMAIN c.tasks)
  <2>1. DOMAIN c.tasks \subseteq 1 .. c.next_task - 1 /\ c.next_task \in Nat
    BY <1>1 DEF Accounted, CoordinatorType
  <2>2. IsFiniteSet(1 .. c.next_task - 1)
    BY <2>1, FS_Interval
  <2> QED BY <2>1, <2>2, FS_Subset
<1>3. IsFiniteSet(DOMAIN c.flights)
  <2>1. DOMAIN c.flights \in SUBSET Nat /\ c.next_flight \in Nat
    BY <1>1 DEF CoordinatorType, IsMap
  <2>2. \A f \in DOMAIN c.flights : f <= c.next_flight
    BY <1>1, <2>1 DEF Mutual
  <2> QED BY <2>1, <2>2, FS_BoundedSetOfNaturals
<1>4. IsFiniteSet(EligibleTasks(c))
  <2>1. EligibleTasks(c) \subseteq DOMAIN c.tasks
    BY DEF EligibleTasks
  <2> QED BY <1>2, <2>1, FS_Subset
<1>5. IsFiniteSet(QueuedFlights(c))
  <2>1. QueuedFlights(c) \subseteq DOMAIN c.flights
    BY DEF QueuedFlights
  <2> QED BY <1>3, <2>1, FS_Subset
<1>6. \A f \in DOMAIN c.flights : IsFiniteSet(c.flights[f].subscribers)
  <2> TAKE f \in DOMAIN c.flights
  <2>1. c.flights[f].subscribers \subseteq DOMAIN c.tasks
    BY <1>1 DEF Mutual
  <2> QED BY <1>2, <2>1, FS_Subset
<1> QED BY <1>2, <1>3, <1>4, <1>5, <1>6

\* What is counted against the limit of queued flights.
AwaitedFlights(c) == {f \in QueuedFlights(c) : Observed(c, f)}

\* Whatever only cancels and retires keeps all of it.
LEMMA LeavesShared ==
  ASSUME NEW c, Sound(c), Shared(c), NEW d, Sound(d), NEW F, Leaves(c, d, F)
  PROVE  Shared(d)
<1>1. Mutual(d) /\ Mutual(c)
  BY DEF Sound, Consistent
<1>2. \A t \in EligibleTasks(d) : t \in DOMAIN d.tasks /\ t \in EligibleTasks(c)
  BY DEF EligibleTasks, Leaves
<1>3. Bounded(d)
  <2>1. /\ EligibleTasks(d) \in SUBSET EligibleTasks(c)
        /\ AwaitedFlights(d) \in SUBSET AwaitedFlights(c)
        /\ \A f \in DOMAIN d.flights :
             f \in DOMAIN c.flights /\ d.flights[f].subscribers = c.flights[f].subscribers
    BY <1>2 DEF Leaves, AwaitedFlights, QueuedFlights, Observed
  <2>2. IsFiniteSet(EligibleTasks(c)) /\ IsFiniteSet(QueuedFlights(c))
    BY FinitelyMuch
  <2>3. IsFiniteSet(AwaitedFlights(c))
    <3>1. AwaitedFlights(c) \subseteq QueuedFlights(c)
      BY DEF AwaitedFlights
    <3> QED BY <2>2, <3>1, FS_Subset
  <2>4. /\ Cardinality(EligibleTasks(d)) <= Cardinality(EligibleTasks(c))
        /\ Cardinality(AwaitedFlights(d)) <= Cardinality(AwaitedFlights(c))
    BY <2>1, <2>2, <2>3, FS_Subset
  <2>5. /\ Cardinality(EligibleTasks(c)) \in Nat /\ Cardinality(EligibleTasks(d)) \in Nat
        /\ Cardinality(AwaitedFlights(c)) \in Nat /\ Cardinality(AwaitedFlights(d)) \in Nat
    BY <2>1, <2>2, <2>3, FS_Subset, FS_CardinalityType
  <2>6. /\ Cardinality(EligibleTasks(c)) <= MaximumActiveTasks
        /\ Cardinality(AwaitedFlights(c)) <= MaximumQueuedFlights
        /\ \A f \in DOMAIN c.flights :
             Cardinality(c.flights[f].subscribers) <= MaximumSubscribers
    BY DEF Shared, Bounded, AwaitedFlights
  <2>7. /\ Cardinality(EligibleTasks(d)) <= MaximumActiveTasks
        /\ Cardinality(AwaitedFlights(d)) <= MaximumQueuedFlights
    BY <2>4, <2>5, <2>6, ConfigAssumption
  <2> QED BY <2>1, <2>6, <2>7 DEF Bounded, AwaitedFlights
<1>4. OneRequest(d)
  <2>1. \A t \in EligibleTasks(d) :
          /\ d.tasks[t].owner = c.tasks[t].owner
          /\ d.flights[d.tasks[t].flight].key = c.flights[c.tasks[t].flight].key
    BY <1>1, <1>2 DEF Leaves, Mutual
  <2> QED BY <1>2, <2>1 DEF Shared, OneRequest
<1>5. \A f \in DOMAIN d.flights :
        /\ f \in DOMAIN c.flights /\ d.flights[f].subscribers = c.flights[f].subscribers
        /\ \A t \in c.flights[f].subscribers : d.tasks[t].progress = c.tasks[t].progress
  BY <1>1 DEF Leaves, Mutual
<1>6. SameProgress(d)
  BY <1>5 DEF Shared, SameProgress
<1>7. EarlierHaveSeen(d)
  BY <1>5 DEF Shared, EarlierHaveSeen
<1> QED BY <1>3, <1>4, <1>6, <1>7 DEF Shared

\* Starting a flight keeps all of it: the flight leaves the queue.
LEMMA StartsShared ==
  ASSUME NEW c, Sound(c), Shared(c), NEW d, Sound(d),
         NEW f \in DOMAIN c.flights, Starts(c, d, f)
  PROVE  Shared(d)
<1>1. Mutual(d) /\ Mutual(c)
  BY DEF Sound, Consistent
<1>2. Bounded(d)
  <2>1. /\ EligibleTasks(d) = EligibleTasks(c)
        /\ AwaitedFlights(d) \in SUBSET AwaitedFlights(c)
        /\ DOMAIN d.flights = DOMAIN c.flights
        /\ \A g \in DOMAIN c.flights :
             d.flights[g].subscribers = c.flights[g].subscribers
    BY DEF Starts, SameRequests, AwaitedFlights, QueuedFlights, Observed
  <2>2. IsFiniteSet(AwaitedFlights(c))
    <3>1. AwaitedFlights(c) \subseteq QueuedFlights(c) /\ IsFiniteSet(QueuedFlights(c))
      BY FinitelyMuch DEF AwaitedFlights
    <3> QED BY <3>1, FS_Subset
  <2>3. /\ Cardinality(AwaitedFlights(d)) <= Cardinality(AwaitedFlights(c))
        /\ Cardinality(AwaitedFlights(c)) \in Nat /\ Cardinality(AwaitedFlights(d)) \in Nat
    BY <2>1, <2>2, FS_Subset, FS_CardinalityType
  <2>4. /\ Cardinality(EligibleTasks(c)) <= MaximumActiveTasks
        /\ Cardinality(AwaitedFlights(c)) <= MaximumQueuedFlights
        /\ \A g \in DOMAIN c.flights :
             Cardinality(c.flights[g].subscribers) <= MaximumSubscribers
    BY DEF Shared, Bounded, AwaitedFlights
  <2>5. Cardinality(AwaitedFlights(d)) <= MaximumQueuedFlights
    BY <2>3, <2>4, ConfigAssumption
  <2> QED BY <2>1, <2>4, <2>5 DEF Bounded, AwaitedFlights
<1>3. \A t \in EligibleTasks(c) : t \in DOMAIN c.tasks
                                  /\ c.tasks[t].flight \in DOMAIN c.flights
  BY <1>1 DEF EligibleTasks, Mutual
<1>4. OneRequest(d)
  BY <1>3 DEF Shared, OneRequest, Starts, SameRequests
<1>5. \A g \in DOMAIN c.flights : \A t \in c.flights[g].subscribers : t \in DOMAIN c.tasks
  BY <1>1 DEF Mutual
<1>6. SameProgress(d)
  BY <1>5 DEF Shared, SameProgress, Starts, SameRequests
<1>7. EarlierHaveSeen(d)
  BY <1>5 DEF Shared, EarlierHaveSeen, Starts, SameRequests
<1> QED BY <1>2, <1>4, <1>6, <1>7 DEF Shared

\* A report reaches all the subscribers of its flight, or only some that had
\* seen none although an earlier one had, of which there are none.
LEMMA ReportsShared ==
  ASSUME NEW c, Sound(c), Shared(c), NEW d, Sound(d), NEW f \in DOMAIN c.flights,
         NEW p \in Progress, Reports(c, d, f, p), NoProgress \notin Progress
  PROVE  Shared(d)
<1>1. Mutual(d) /\ Mutual(c) /\ CoordinatorType(c)
  BY DEF Sound, Consistent
<1>2. Bounded(d)
  BY DEF Shared, Bounded, Reports, SameRequests, QueuedFlights, Observed
<1>3. \A t \in EligibleTasks(c) : t \in DOMAIN c.tasks
  BY DEF EligibleTasks
<1>4. OneRequest(d)
  BY <1>3 DEF Shared, OneRequest, Reports, SameRequests
<1>5. \A g \in DOMAIN c.flights : \A t \in c.flights[g].subscribers :
        t \in DOMAIN c.tasks /\ c.tasks[t].flight = g /\ t \in Nat
  BY <1>1 DEF Mutual, CoordinatorType, IsMap
<1> DEFINE S == c.flights[f].subscribers
<1>6. CASE Regressed(c, f, p) = {}
  <2>1. \A t \in S : d.tasks[t].progress = p
    BY <1>5, <1>6 DEF Reports
  <2>2. \A g \in DOMAIN c.flights : g # f =>
          \A t \in c.flights[g].subscribers : d.tasks[t].progress = c.tasks[t].progress
    BY <1>5 DEF Reports
  <2>3. SameProgress(d)
    BY <2>1, <2>2 DEF Shared, SameProgress, Reports
  <2>4. EarlierHaveSeen(d)
    BY <2>1, <2>2 DEF Shared, EarlierHaveSeen, Reports
  <2> QED BY <1>2, <1>4, <2>3, <2>4 DEF Shared
<1>7. CASE Regressed(c, f, p) # {}
  <2>1. PICK r \in Regressed(c, f, p) : TRUE
    BY <1>7
  <2>2. /\ r \in S /\ r \in DOMAIN c.tasks /\ c.tasks[r].progress # NoProgress
        /\ ~Follows(p, c.tasks[r].progress)
    BY <2>1 DEF Regressed
  <2>3. ASSUME NEW t \in S, \A q \in Regressed(c, f, p) : t < q
        PROVE  FALSE
    <3>1. t < r /\ t \in Nat /\ r \in Nat
      BY <1>5, <2>1, <2>2, <2>3
    <3>2. c.tasks[t].progress # NoProgress
      BY <2>2, <3>1 DEF Shared, EarlierHaveSeen
    <3>3. c.tasks[t].progress = c.tasks[r].progress
      BY <2>2, <3>2 DEF Shared, SameProgress
    <3>4. t \in Regressed(c, f, p)
      BY <1>5, <2>2, <3>2, <3>3 DEF Regressed
    <3>5. t < t
      BY <2>3, <3>4
    <3> QED BY <3>1, <3>5
  <2>4. \A t \in DOMAIN c.tasks : d.tasks[t].progress = c.tasks[t].progress
    BY <2>3 DEF Reports
  <2>5. SameProgress(d) /\ EarlierHaveSeen(d)
    BY <1>5, <2>4 DEF Shared, SameProgress, EarlierHaveSeen, Reports
  <2> QED BY <1>2, <1>4, <2>5 DEF Shared
<1> QED BY <1>6, <1>7

\* An admitted request counts once against each limit, and the requester's older
\* tasks do not count.
LEMMA AdmitsBounded ==
  ASSUME NEW c, Sound(c), Bounded(c), NEW d, NEW spec \in TaskSpec, NEW f,
         Admits(c, d, spec, f), HasActiveCapacity(c, spec),
         \/ /\ f \in DOMAIN c.flights /\ Observed(c, f)
            /\ Cardinality(c.flights[f].subscribers) < MaximumSubscribers
         \/ /\ f \notin DOMAIN c.flights
            /\ Cardinality(QueuedFlights(c)) < MaximumQueuedFlights
  PROVE  Bounded(d)
<1> DEFINE n == c.next_task
           S == Supersedable(c, spec)
           T == DOMAIN c.tasks
<1>1. /\ IsFiniteSet(T) /\ IsFiniteSet(EligibleTasks(c))
      /\ IsFiniteSet(DOMAIN c.flights) /\ IsFiniteSet(QueuedFlights(c))
      /\ \A g \in DOMAIN c.flights : IsFiniteSet(c.flights[g].subscribers)
  BY FinitelyMuch
<1>2. /\ n \notin T
      /\ EligibleTasks(d) \subseteq (EligibleTasks(c) \ S) \cup {n}
      /\ EligibleTasks(c) \subseteq T
  BY DEF Admits, Adds, EligibleTasks
<1>3. Cardinality(EligibleTasks(d)) <= MaximumActiveTasks
  <2>1. /\ IsFiniteSet(T \ S)
        /\ Cardinality(T \ S) = Cardinality(T) - Cardinality(T \cap S)
    BY <1>1, FS_Difference
  <2>2. T \cap S = S /\ n \notin T \ S
    BY <1>2 DEF Supersedable
  <2>3. /\ IsFiniteSet((T \ S) \cup {n})
        /\ Cardinality((T \ S) \cup {n}) = Cardinality(T \ S) + 1
    BY <2>1, <2>2, FS_AddElement
  <2>4. EligibleTasks(d) \in SUBSET ((T \ S) \cup {n})
    BY <1>2
  <2>5. /\ Cardinality(EligibleTasks(d)) <= Cardinality((T \ S) \cup {n})
        /\ IsFiniteSet(EligibleTasks(d))
    BY <2>3, <2>4, FS_Subset
  <2>6. Cardinality(T) - Cardinality(S) < MaximumActiveTasks
    BY DEF HasActiveCapacity
  <2>7. /\ Cardinality(EligibleTasks(d)) \in Nat
        /\ Cardinality((T \ S) \cup {n}) \in Nat /\ Cardinality(T \ S) \in Nat
    BY <2>1, <2>3, <2>5, FS_CardinalityType
  <2>8. Cardinality(T) - Cardinality(S) = Cardinality(T \ S)
    BY <2>1, <2>2
  <2> HIDE DEF S, T, n
  <2>9. Cardinality(T \ S) + 1 <= MaximumActiveTasks
    BY <2>6, <2>7, <2>8, ConfigAssumption
  <2> QED BY <2>3, <2>5, <2>7, <2>9, ConfigAssumption
<1>4. n \notin UNION {c.flights[g].subscribers : g \in DOMAIN c.flights}
  BY <1>2 DEF Sound, Consistent, Mutual
<1>5. \A g \in DOMAIN c.flights : Observed(d, g) /\ g # f => Observed(c, g)
  BY <1>2, <1>4 DEF Observed, Admits, Adds
<1>6. IsFiniteSet(AwaitedFlights(c)) /\ AwaitedFlights(c) \subseteq QueuedFlights(c)
  <2>1. AwaitedFlights(c) \subseteq QueuedFlights(c)
    BY DEF AwaitedFlights
  <2> QED BY <1>1, <2>1, FS_Subset
<1>7. Cardinality(AwaitedFlights(d)) <= MaximumQueuedFlights
  <2>1. CASE f \in DOMAIN c.flights
    <3>1. AwaitedFlights(d) \in SUBSET AwaitedFlights(c)
      BY <1>5, <2>1 DEF Admits, Adds, AwaitedFlights, QueuedFlights
    <3>2. /\ Cardinality(AwaitedFlights(d)) <= Cardinality(AwaitedFlights(c))
          /\ Cardinality(AwaitedFlights(d)) \in Nat /\ Cardinality(AwaitedFlights(c)) \in Nat
      BY <1>6, <3>1, FS_Subset, FS_CardinalityType
    <3>3. Cardinality(AwaitedFlights(c)) <= MaximumQueuedFlights
      BY DEF Bounded, AwaitedFlights
    <3> QED BY <3>2, <3>3, ConfigAssumption
  <2>2. CASE f \notin DOMAIN c.flights
    <3>1. AwaitedFlights(d) \in SUBSET (QueuedFlights(c) \cup {f})
      BY <2>2 DEF Admits, Adds, AwaitedFlights, QueuedFlights
    <3>2. /\ IsFiniteSet(QueuedFlights(c) \cup {f})
          /\ Cardinality(QueuedFlights(c) \cup {f}) = Cardinality(QueuedFlights(c)) + 1
      <4>1. f \notin QueuedFlights(c)
        BY <2>2 DEF QueuedFlights
      <4> QED BY <1>1, <4>1, FS_AddElement
    <3>3. /\ Cardinality(AwaitedFlights(d)) <= Cardinality(QueuedFlights(c)) + 1
          /\ Cardinality(AwaitedFlights(d)) \in Nat /\ Cardinality(QueuedFlights(c)) \in Nat
      BY <1>1, <3>1, <3>2, FS_Subset, FS_CardinalityType
    <3>4. Cardinality(QueuedFlights(c)) < MaximumQueuedFlights
      BY <2>2
    <3> QED BY <3>3, <3>4, ConfigAssumption
  <2> QED BY <2>1, <2>2
<1>8. ASSUME NEW g \in DOMAIN d.flights
      PROVE  Cardinality(d.flights[g].subscribers) <= MaximumSubscribers
  <2>1. CASE g \in DOMAIN c.flights /\ g # f
    <3>1. d.flights[g].subscribers = c.flights[g].subscribers \cup {}
      BY <2>1 DEF Admits, Adds
    <3>2. c.flights[g].subscribers \cup {} = c.flights[g].subscribers
      OBVIOUS
    <3>3. Cardinality(c.flights[g].subscribers) <= MaximumSubscribers
      BY <2>1 DEF Bounded
    <3> QED BY <3>1, <3>2, <3>3
  <2>2. CASE g = f /\ f \in DOMAIN c.flights
    <3>1. d.flights[f].subscribers = c.flights[f].subscribers \cup {n}
      BY <2>2 DEF Admits, Adds
    <3>2. /\ Cardinality(c.flights[f].subscribers \cup {n})
               = Cardinality(c.flights[f].subscribers) + 1
          /\ Cardinality(c.flights[f].subscribers) \in Nat
      <4> DEFINE W == c.flights[f].subscribers
      <4>1. IsFiniteSet(W) /\ n \notin W
        BY <1>1, <1>4, <2>2
      <4> HIDE DEF W
      <4>2. Cardinality(W \cup {n}) = Cardinality(W) + 1 /\ Cardinality(W) \in Nat
        BY <4>1, FS_AddElement, FS_CardinalityType
      <4> QED BY <4>2 DEF W
    <3>3. Cardinality(c.flights[f].subscribers) < MaximumSubscribers
      BY <2>2
    <3> QED BY <2>2, <3>1, <3>2, <3>3, ConfigAssumption
  <2>3. CASE g \notin DOMAIN c.flights
    <3>1. g = f /\ d.flights[g].subscribers = {n}
      BY <2>3 DEF Admits, Adds
    <3>2. Cardinality({n}) = 1
      BY FS_Singleton
    <3>3. 1 <= MaximumSubscribers
      BY ConfigAssumption
    <3> QED BY <3>1, <3>2, <3>3
  <2> QED BY <2>1, <2>2, <2>3
<1> QED BY <1>3, <1>7, <1>8 DEF Bounded, AwaitedFlights

\* The two ways a submission is accepted.
MayAdmit(c, spec, f) ==
  \/ f \in DOMAIN c.flights /\ MayJoin(c, spec, f)
  \/ f \notin DOMAIN c.flights /\ MayOpen(c, spec)

\* The duplicate test looks at one flight and at the requester's generation
\* only; because the index is exact and eligible tasks are current, there is no
\* other flight and no other generation to look at.
LEMMA NoDuplicate ==
  ASSUME NEW c, Sound(c), EligibleCurrent(c), NEW spec \in TaskSpec, NEW now,
         Admissible(c, spec, now), NEW f, MayAdmit(c, spec, f),
         NEW u \in EligibleTasks(c), c.tasks[u].owner = spec.owner,
         c.flights[c.tasks[u].flight].key = spec.key
  PROVE  FALSE
<1> DEFINE g == c.tasks[u].flight
<1>1. /\ u \in DOMAIN c.tasks /\ g \in DOMAIN c.flights
      /\ u \in c.flights[g].subscribers
  BY DEF Sound, Consistent, Mutual, EligibleTasks
<1>2. Observed(c, g)
  BY <1>1 DEF Observed
<1>3. ~c.flights[g].cancelled
  BY <1>1, <1>2 DEF Sound, FlagExact
<1>4. spec.key \in DOMAIN c.single_flights /\ c.single_flights[spec.key] = g
  BY <1>1, <1>3 DEF Sound, Consistent, IndexExact
<1>5. f = g /\ Subscriptions(c, spec, f) = {}
  BY <1>4 DEF MayAdmit, MayJoin, MayOpen, Shares
<1>6. c.tasks[u].generation = spec.generation
  BY <1>1 DEF EligibleCurrent, Admissible, SessionIs
<1> QED BY <1>1, <1>5, <1>6 DEF Subscriptions

\* An accepted submission keeps all of it.
LEMMA AdmitsShared ==
  ASSUME NEW c, Sound(c), EligibleCurrent(c), Shared(c), NEW spec \in TaskSpec, NEW now,
         Admissible(c, spec, now), NEW f, MayAdmit(c, spec, f),
         NEW d, Admits(c, d, spec, f), Mutual(d)
  PROVE  Shared(d)
<1> DEFINE n == c.next_task
<1>1. Mutual(c) /\ n \notin DOMAIN c.tasks
  BY DEF Sound, Consistent, Admits, Adds
<1>2. Bounded(d)
  BY AdmitsBounded DEF MayAdmit, MayJoin, MayOpen, Shares, Shared
<1>3. OneRequest(d)
  <2>1. \A t \in EligibleTasks(d) : t = n \/ t \in EligibleTasks(c)
    BY DEF Admits
  <2>2. /\ d.tasks[n].owner = spec.owner /\ d.tasks[n].flight = f
        /\ d.flights[f].key = spec.key
    BY DEF Admits, Adds
  <2>3. ASSUME NEW t \in EligibleTasks(c)
        PROVE  /\ d.tasks[t].owner = c.tasks[t].owner
               /\ d.flights[d.tasks[t].flight].key = c.flights[c.tasks[t].flight].key
    <3>1. t \in DOMAIN c.tasks /\ c.tasks[t].flight \in DOMAIN c.flights
      BY <1>1 DEF EligibleTasks, Mutual
    <3>2. Adds(c, d, spec, f)
      BY DEF Admits
    <3>3. /\ d.tasks[t].owner = c.tasks[t].owner
          /\ d.tasks[t].flight = c.tasks[t].flight
      BY <3>1, <3>2 DEF Adds
    <3>4. \A g \in DOMAIN c.flights : d.flights[g].key = c.flights[g].key
      BY <3>2 DEF Adds
    <3> QED BY <3>1, <3>3, <3>4
  <2>4. \A t \in EligibleTasks(c) :
          ~(/\ c.tasks[t].owner = spec.owner
            /\ c.flights[c.tasks[t].flight].key = spec.key)
    BY NoDuplicate
  <2>5. ASSUME NEW t \in EligibleTasks(d), NEW u \in EligibleTasks(d),
               d.tasks[t].owner = d.tasks[u].owner,
               d.flights[d.tasks[t].flight].key = d.flights[d.tasks[u].flight].key
        PROVE  t = u
    <3>1. CASE t = n /\ u = n
      BY <3>1
    <3>2. CASE t = n /\ u # n
      BY <2>1, <2>2, <2>3, <2>4, <2>5, <3>2
    <3>3. CASE t # n /\ u = n
      BY <2>1, <2>2, <2>3, <2>4, <2>5, <3>3
    <3>4. CASE t # n /\ u # n
      BY <2>1, <2>3, <2>5, <3>4 DEF OneRequest, Shared
    <3> QED BY <3>1, <3>2, <3>3, <3>4
  <2> QED BY <2>5 DEF OneRequest
<1>4. \A g \in DOMAIN d.flights : \A t \in d.flights[g].subscribers :
        \/ t = n
        \/ /\ g \in DOMAIN c.flights /\ t \in c.flights[g].subscribers
           /\ t \in DOMAIN c.tasks
  BY <1>1 DEF Admits, Adds, Mutual
<1>5. /\ d.tasks[n].progress = NoProgress
      /\ \A t \in DOMAIN c.tasks : d.tasks[t].progress = c.tasks[t].progress
  BY DEF Admits, Adds
<1>6. SameProgress(d)
  BY <1>4, <1>5 DEF Shared, SameProgress
<1>7. \A t \in DOMAIN c.tasks : t < n
  <2>1. DOMAIN c.tasks \subseteq 1 .. n - 1 /\ n \in Nat
    BY DEF Sound, Consistent, Accounted, CoordinatorType
  <2> QED BY <2>1
<1>8. EarlierHaveSeen(d)
  BY <1>4, <1>5, <1>7 DEF Shared, EarlierHaveSeen
<1> QED BY <1>2, <1>3, <1>6, <1>8 DEF Shared

\* A new coordinator holds nothing.
LEMMA NewCoordinatorShared == Shared(NewCoordinator)
<1> DEFINE d == NewCoordinator
<1>1. d.tasks = NoEntries /\ d.flights = NoEntries
  BY DEF NewCoordinator
<1> HIDE DEF d
<1>2. DOMAIN NoEntries = {}
  BY DEF NoEntries
<1>3. EligibleTasks(d) = {} /\ QueuedFlights(d) = {}
  BY <1>1, <1>2 DEF EligibleTasks, QueuedFlights
<1>4. {f \in QueuedFlights(d) : Observed(d, f)} = {}
  BY <1>3
<1>5. Bounded(d)
  <2>1. Cardinality({}) = 0 /\ 0 <= MaximumActiveTasks /\ 0 <= MaximumQueuedFlights
    BY FS_EmptySet, ConfigAssumption
  <2> QED BY <1>1, <1>2, <1>3, <1>4, <2>1 DEF Bounded
<1>6. OneRequest(d) /\ SameProgress(d) /\ EarlierHaveSeen(d)
  BY <1>1, <1>2, <1>3 DEF OneRequest, SameProgress, EarlierHaveSeen
<1> QED BY <1>5, <1>6 DEF Shared, d

-----------------------------------------------------------------------------
(* The order of dispatch                                                   *)

\* What compare_rank compares.
Rank == [priority : Nat, deadline : Deadline, submitted_at : Nat, id : Nat]

\* A flight somebody wants has a rank.
LEMMA RankType ==
  ASSUME NEW c, Sound(c), NEW f \in DOMAIN c.flights, Observed(c, f)
  PROVE  FlightRank(c, f) \in Rank /\ FlightRank(c, f).id = f
<1> DEFINE E == EligibleSubscribers(c, f)
           priorities == {c.tasks[t].priority : t \in E}
           deadlines == {c.tasks[t].deadline : t \in E}
<1>1. /\ E # {} /\ E \subseteq DOMAIN c.tasks
      /\ \A t \in DOMAIN c.tasks : c.tasks[t] \in TaskRecord
      /\ c.flights[f] \in FlightRecord /\ f \in Nat
  BY DEF EligibleSubscribers, Observed, EligibleTasks,
         Sound, Consistent, CoordinatorType, IsMap
<1>2. IsFiniteSet(E)
  <2>1. IsFiniteSet(DOMAIN c.tasks)
    BY FinitelyMuch
  <2> QED BY <1>1, <2>1, FS_Subset
<1> HIDE DEF E
<1>3. IsFiniteSet(priorities)
  <2> DEFINE g == [t \in E |-> c.tasks[t].priority]
  <2>1. g \in Surjection(E, priorities)
    BY DEF Surjection
  <2> HIDE DEF g
  <2> QED BY <1>2, <2>1, FS_Surjection
<1>4. IsFiniteSet(deadlines)
  <2> DEFINE g == [t \in E |-> c.tasks[t].deadline]
  <2>1. g \in Surjection(E, deadlines)
    BY DEF Surjection
  <2> HIDE DEF g
  <2> QED BY <1>2, <2>1, FS_Surjection
<1>5. priorities \subseteq Nat /\ priorities # {} /\ deadlines \subseteq Deadline
  BY <1>1 DEF TaskRecord
<1>6. FlightPriority(c, f) \in Nat
  <2>1. FlightPriority(c, f) = Max(priorities)
    BY DEF FlightPriority, E
  <2> HIDE DEF priorities
  <2> QED BY <1>3, <1>5, <2>1, MaxAndMin
<1>7. FlightDeadline(c, f) \in Deadline
  <2> DEFINE given == deadlines \ {NoDeadline}
  <2>1. FlightDeadline(c, f) = IF given = {} THEN NoDeadline ELSE Min(given)
    BY DEF FlightDeadline, E
  <2> HIDE DEF deadlines
  <2>2. IsFiniteSet(given) /\ given \subseteq Nat
    BY <1>4, <1>5, FS_RemoveElement DEF Deadline
  <2> HIDE DEF given
  <2>3. given # {} => Min(given) \in Nat
    BY <2>2, MaxAndMin
  <2> QED BY <2>1, <2>3 DEF Deadline
<1>8. c.flights[f].submitted_at \in Nat
  BY <1>1 DEF FlightRecord
<1> QED BY <1>1, <1>6, <1>7, <1>8 DEF FlightRank, Rank

\* compare_rank orders ranks of different flights totally.
LEMMA OutranksIsTotal ==
  ASSUME NEW q \in Rank, NEW r \in Rank, q.id # r.id
  PROVE  /\ Outranks(q, r) \/ Outranks(r, q)
         /\ ~(Outranks(q, r) /\ Outranks(r, q))
<1>1. /\ q.priority \in Nat /\ q.submitted_at \in Nat /\ q.id \in Nat
      /\ r.priority \in Nat /\ r.submitted_at \in Nat /\ r.id \in Nat
      /\ q.deadline \in Deadline /\ r.deadline \in Deadline
  BY DEF Rank
<1> QED BY <1>1, ConfigAssumption DEF Outranks, Sooner, Deadline

\* and what it puts first is before everything that comes after the second.
LEMMA OutranksIsTransitive ==
  ASSUME NEW q \in Rank, NEW r \in Rank, NEW s \in Rank, Outranks(q, r), Outranks(r, s)
  PROVE  Outranks(q, s)
<1>1. /\ q.priority \in Nat /\ q.submitted_at \in Nat /\ q.id \in Nat
      /\ r.priority \in Nat /\ r.submitted_at \in Nat /\ r.id \in Nat
      /\ s.priority \in Nat /\ s.submitted_at \in Nat /\ s.id \in Nat
      /\ q.deadline \in Deadline /\ r.deadline \in Deadline /\ s.deadline \in Deadline
  BY DEF Rank
<1>2. Sooner(q.deadline, r.deadline) /\ Sooner(r.deadline, s.deadline)
        => Sooner(q.deadline, s.deadline)
  BY <1>1, ConfigAssumption DEF Sooner, Deadline
<1> QED BY <1>1, <1>2, ConfigAssumption DEF Outranks

\* Whatever can start, dispatch_next has exactly one flight to take.
LEMMA OneIsSelected ==
  ASSUME NEW c, Sound(c), Dispatchable(c) # {}
  PROVE  \E f \in Dispatchable(c) : Selected(c) = {f}
<1> DEFINE D == Dispatchable(c)
           R == {p \in D \X D : Outranks(FlightRank(c, p[1]), FlightRank(c, p[2]))}
<1>1. IsFiniteSet(D)
  <2>1. D \subseteq QueuedFlights(c) /\ IsFiniteSet(QueuedFlights(c))
    BY FinitelyMuch DEF Dispatchable
  <2> QED BY <2>1, FS_Subset
<1>2. \A f \in D : FlightRank(c, f) \in Rank /\ FlightRank(c, f).id = f
  BY RankType DEF Dispatchable, QueuedFlights
<1>3. \A f, g \in D : <<f, g>> \in R <=> Outranks(FlightRank(c, f), FlightRank(c, g))
  OBVIOUS
<1>4. Selected(c) = {f \in D : \A g \in D \ {f} :
                       Outranks(FlightRank(c, f), FlightRank(c, g))}
  BY DEF Selected
<1>5. D # {}
  OBVIOUS
<1> HIDE DEF D, R
<1>6. \A f, g \in D : f # g => /\ <<f, g>> \in R \/ <<g, f>> \in R
                               /\ ~(<<f, g>> \in R /\ <<g, f>> \in R)
  BY <1>2, <1>3, OutranksIsTotal
<1>7. \A f, g, h \in D : <<f, g>> \in R /\ <<g, h>> \in R => <<f, h>> \in R
  BY <1>2, <1>3, OutranksIsTransitive
<1>8. PICK f \in D : \A g \in D \ {f} : <<f, g>> \in R
  <2>1. Orders(R, D)
    BY <1>6, <1>7 DEF Orders
  <2>2. PICK f : IsFirst(f, R, D)
    BY <1>1, <1>5, <2>1, FirstExists
  <2> QED BY <2>2 DEF IsFirst
<1>9. ASSUME NEW g \in D
      PROVE  g \in Selected(c) <=> g = f
  <2>1. CASE g = f
    BY <1>3, <1>4, <1>8, <2>1
  <2>2. CASE g # f
    <3>1. <<f, g>> \in R /\ ~(<<g, f>> \in R)
      BY <1>6, <1>8, <2>2
    <3>2. ~Outranks(FlightRank(c, g), FlightRank(c, f)) /\ f \in D \ {g}
      BY <1>3, <2>2, <3>1
    <3> QED BY <1>4, <2>2, <3>2
  <2> QED BY <2>1, <2>2
<1>10. Selected(c) \subseteq D
  BY <1>4
<1>11. Selected(c) = {f}
  BY <1>8, <1>9, <1>10
<1> QED BY <1>8, <1>11 DEF D

=============================================================================
