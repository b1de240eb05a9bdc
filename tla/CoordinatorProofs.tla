-------------------------- MODULE CoordinatorProofs --------------------------
(***************************************************************************)
(* What each method of the coordinator preserves, for every value of the   *)
(* constants.  A method cancels first and repairs the flags and the index  *)
(* afterwards; Consistent is what holds in between, Sound what holds when  *)
(* the lock is released.                                                   *)
(***************************************************************************)
EXTENDS CoordinatorInvariants, FiniteSetTheorems, TLAPS

\* The half of FlagExact that survives a cancellation: no flight is flagged
\* while somebody observes it.
FlagSound(c) == \A f \in DOMAIN c.flights : c.flights[f].cancelled => ~Observed(c, f)

Consistent(c) == /\ CoordinatorType(c)
                 /\ Accounted(c)
                 /\ Mutual(c)
                 /\ StatesAgree(c)
                 /\ FlagSound(c)
                 /\ IndexExact(c)

Sound(c) == Consistent(c) /\ FlagExact(c)

\* No slot is taken or given back, and the same flights are running.
SameSlots(c, d) ==
  /\ d.running_by_resource = c.running_by_resource
  /\ \A r \in Resources : RunningFlights(d, r) = RunningFlights(c, r)

-----------------------------------------------------------------------------
(* Updating some fields of the struct                                      *)

Struct(s, t, f, i, r, m, n, k) ==
  [sessions |-> s, tasks |-> t, flights |-> f, single_flights |-> i,
   running_by_resource |-> r, terminal |-> m, next_task |-> n, next_flight |-> k]

\* A struct built field by field has exactly those fields.
LEMMA StructFields ==
  ASSUME NEW s, NEW t, NEW f, NEW i, NEW r, NEW m, NEW n, NEW k
  PROVE  LET d == Struct(s, t, f, i, r, m, n, k) IN
         /\ IsStruct(d)
         /\ d.sessions = s /\ d.tasks = t /\ d.flights = f /\ d.single_flights = i
         /\ d.running_by_resource = r /\ d.terminal = m
         /\ d.next_task = n /\ d.next_flight = k
BY DEF IsStruct, Struct

\* Assigning the field `sessions` leaves the others alone.
LEMMA PutSessions ==
  ASSUME NEW c, IsStruct(c), NEW s
  PROVE  [c EXCEPT !.sessions = s]
           = Struct(s, c.tasks, c.flights, c.single_flights,
                   c.running_by_resource, c.terminal,
                   c.next_task, c.next_flight)
BY DEF IsStruct, Struct

\* Assigning the field `tasks` leaves the others alone.
LEMMA PutTasks ==
  ASSUME NEW c, IsStruct(c), NEW t
  PROVE  [c EXCEPT !.tasks = t]
           = Struct(c.sessions, t, c.flights, c.single_flights,
                   c.running_by_resource, c.terminal,
                   c.next_task, c.next_flight)
BY DEF IsStruct, Struct

\* Assigning the field `flights` leaves the others alone.
LEMMA PutFlights ==
  ASSUME NEW c, IsStruct(c), NEW f
  PROVE  [c EXCEPT !.flights = f]
           = Struct(c.sessions, c.tasks, f, c.single_flights,
                   c.running_by_resource, c.terminal,
                   c.next_task, c.next_flight)
BY DEF IsStruct, Struct

\* Assigning the field `single_flights` leaves the others alone.
LEMMA PutIndex ==
  ASSUME NEW c, IsStruct(c), NEW i
  PROVE  [c EXCEPT !.single_flights = i]
           = Struct(c.sessions, c.tasks, c.flights, i, c.running_by_resource,
                   c.terminal, c.next_task, c.next_flight)
BY DEF IsStruct, Struct

\* Assigning the field `running_by_resource` leaves the others alone.
LEMMA PutSlots ==
  ASSUME NEW c, IsStruct(c), NEW r
  PROVE  [c EXCEPT !.running_by_resource = r]
           = Struct(c.sessions, c.tasks, c.flights, c.single_flights, r,
                   c.terminal, c.next_task, c.next_flight)
BY DEF IsStruct, Struct

\* Assigning the field `terminal` leaves the others alone.
LEMMA PutTerminal ==
  ASSUME NEW c, IsStruct(c), NEW m
  PROVE  [c EXCEPT !.terminal = m]
           = Struct(c.sessions, c.tasks, c.flights, c.single_flights,
                   c.running_by_resource, m, c.next_task,
                   c.next_flight)
BY DEF IsStruct, Struct

\* Assigning the field `next_task` leaves the others alone.
LEMMA PutNextTask ==
  ASSUME NEW c, IsStruct(c), NEW n
  PROVE  [c EXCEPT !.next_task = n]
           = Struct(c.sessions, c.tasks, c.flights, c.single_flights,
                   c.running_by_resource, c.terminal, n,
                   c.next_flight)
BY DEF IsStruct, Struct

\* Assigning the field `next_flight` leaves the others alone.
LEMMA PutNextFlight ==
  ASSUME NEW c, IsStruct(c), NEW k
  PROVE  [c EXCEPT !.next_flight = k]
           = Struct(c.sessions, c.tasks, c.flights, c.single_flights,
                   c.running_by_resource, c.terminal,
                   c.next_task, k)
BY DEF IsStruct, Struct

\* cancel_unobserved_flights assigns the flights and the index only.
LEMMA PutIndexedFlights ==
  ASSUME NEW c, IsStruct(c), NEW f, NEW i
  PROVE  [c EXCEPT !.flights = f, !.single_flights = i]
           = Struct(c.sessions, c.tasks, f, i, c.running_by_resource,
                   c.terminal, c.next_task, c.next_flight)
<1> DEFINE c1 == [c EXCEPT !.flights = f]
<1> DEFINE c2 == [c1 EXCEPT !.single_flights = i]
<1>0. [c EXCEPT !.flights = f, !.single_flights = i] = c2
  OBVIOUS
<1>1. IsStruct(c1) /\ c1 = Struct(c.sessions, c.tasks, f, c.single_flights,
                   c.running_by_resource, c.terminal,
                   c.next_task, c.next_flight)
  BY PutFlights, StructFields
<1> HIDE DEF c1
<1>2. IsStruct(c2) /\ c2 = Struct(c.sessions, c.tasks, f, i, c.running_by_resource,
                   c.terminal, c.next_task, c.next_flight)
  BY <1>1, PutIndex, StructFields
<1> HIDE DEF c2
<1> QED BY <1>0, <1>2

Retired(c, t, m, f, i) ==
  [c EXCEPT !.tasks = t, !.terminal = m, !.flights = f, !.single_flights = i]

\* retire_task and remove_flight assign four fields only.
LEMMA PutRetired ==
  ASSUME NEW c, IsStruct(c), NEW t, NEW m, NEW f, NEW i
  PROVE  Retired(c, t, m, f, i)
           = Struct(c.sessions, t, f, i, c.running_by_resource, m, c.next_task,
                   c.next_flight)
<1> DEFINE c1 == [c EXCEPT !.tasks = t]
<1> DEFINE c2 == [c1 EXCEPT !.terminal = m]
<1> DEFINE c3 == [c2 EXCEPT !.flights = f]
<1> DEFINE c4 == [c3 EXCEPT !.single_flights = i]
<1>0. Retired(c, t, m, f, i) = c4
  BY DEF Retired
<1>1. IsStruct(c1) /\ c1 = Struct(c.sessions, t, c.flights, c.single_flights,
                   c.running_by_resource, c.terminal,
                   c.next_task, c.next_flight)
  BY PutTasks, StructFields
<1> HIDE DEF c1
<1>2. IsStruct(c2) /\ c2 = Struct(c.sessions, t, c.flights, c.single_flights,
                   c.running_by_resource, m, c.next_task,
                   c.next_flight)
  BY <1>1, PutTerminal, StructFields
<1> HIDE DEF c2
<1>3. IsStruct(c3) /\ c3 = Struct(c.sessions, t, f, c.single_flights, c.running_by_resource,
                   m, c.next_task, c.next_flight)
  BY <1>2, PutFlights, StructFields
<1> HIDE DEF c3
<1>4. IsStruct(c4) /\ c4 = Struct(c.sessions, t, f, i, c.running_by_resource, m, c.next_task,
                   c.next_flight)
  BY <1>3, PutIndex, StructFields
<1> HIDE DEF c4
<1> QED BY <1>0, <1>4

\* Inserting a task assigns the tasks and the task counter only.
LEMMA PutNewTask ==
  ASSUME NEW c, IsStruct(c), NEW t, NEW n
  PROVE  [c EXCEPT !.tasks = t, !.next_task = n]
           = Struct(c.sessions, t, c.flights, c.single_flights,
                   c.running_by_resource, c.terminal, n,
                   c.next_flight)
<1> DEFINE c1 == [c EXCEPT !.tasks = t]
<1> DEFINE c2 == [c1 EXCEPT !.next_task = n]
<1>0. [c EXCEPT !.tasks = t, !.next_task = n] = c2
  OBVIOUS
<1>1. IsStruct(c1) /\ c1 = Struct(c.sessions, t, c.flights, c.single_flights,
                   c.running_by_resource, c.terminal,
                   c.next_task, c.next_flight)
  BY PutTasks, StructFields
<1> HIDE DEF c1
<1>2. IsStruct(c2) /\ c2 = Struct(c.sessions, t, c.flights, c.single_flights,
                   c.running_by_resource, c.terminal, n,
                   c.next_flight)
  BY <1>1, PutNextTask, StructFields
<1> HIDE DEF c2
<1> QED BY <1>0, <1>2

Opened(c, f, i, k) ==
  [c EXCEPT !.flights = f, !.single_flights = i, !.next_flight = k]

\* Inserting a flight assigns the flights, the index and the flight counter only.
LEMMA PutNewFlight ==
  ASSUME NEW c, IsStruct(c), NEW f, NEW i, NEW k
  PROVE  Opened(c, f, i, k)
           = Struct(c.sessions, c.tasks, f, i, c.running_by_resource,
                   c.terminal, c.next_task, k)
<1> DEFINE c1 == [c EXCEPT !.flights = f]
<1> DEFINE c2 == [c1 EXCEPT !.single_flights = i]
<1> DEFINE c3 == [c2 EXCEPT !.next_flight = k]
<1>0. Opened(c, f, i, k) = c3
  BY DEF Opened
<1>1. IsStruct(c1) /\ c1 = Struct(c.sessions, c.tasks, f, c.single_flights,
                   c.running_by_resource, c.terminal,
                   c.next_task, c.next_flight)
  BY PutFlights, StructFields
<1> HIDE DEF c1
<1>2. IsStruct(c2) /\ c2 = Struct(c.sessions, c.tasks, f, i, c.running_by_resource,
                   c.terminal, c.next_task, c.next_flight)
  BY <1>1, PutIndex, StructFields
<1> HIDE DEF c2
<1>3. IsStruct(c3) /\ c3 = Struct(c.sessions, c.tasks, f, i, c.running_by_resource,
                   c.terminal, c.next_task, k)
  BY <1>2, PutNextFlight, StructFields
<1> HIDE DEF c3
<1> QED BY <1>0, <1>3

Dispatched(c, f, r, t) ==
  [c EXCEPT !.flights = f, !.running_by_resource = r, !.tasks = t]

\* dispatch_next assigns the flights, the slots and the tasks only.
LEMMA PutDispatched ==
  ASSUME NEW c, IsStruct(c), NEW f, NEW r, NEW t
  PROVE  Dispatched(c, f, r, t)
           = Struct(c.sessions, t, f, c.single_flights, r, c.terminal,
                   c.next_task, c.next_flight)
<1> DEFINE c1 == [c EXCEPT !.flights = f]
<1> DEFINE c2 == [c1 EXCEPT !.running_by_resource = r]
<1> DEFINE c3 == [c2 EXCEPT !.tasks = t]
<1>0. Dispatched(c, f, r, t) = c3
  BY DEF Dispatched
<1>1. IsStruct(c1) /\ c1 = Struct(c.sessions, c.tasks, f, c.single_flights,
                   c.running_by_resource, c.terminal,
                   c.next_task, c.next_flight)
  BY PutFlights, StructFields
<1> HIDE DEF c1
<1>2. IsStruct(c2) /\ c2 = Struct(c.sessions, c.tasks, f, c.single_flights, r, c.terminal,
                   c.next_task, c.next_flight)
  BY <1>1, PutSlots, StructFields
<1> HIDE DEF c2
<1>3. IsStruct(c3) /\ c3 = Struct(c.sessions, t, f, c.single_flights, r, c.terminal,
                   c.next_task, c.next_flight)
  BY <1>2, PutTasks, StructFields
<1> HIDE DEF c3
<1> QED BY <1>0, <1>3

-----------------------------------------------------------------------------
(* Cancellation                                                            *)

\* mark_cancelling removes tasks from the eligible ones and touches nothing
\* but their state and reason.
LEMMA MarkCancellingConsistent ==
  ASSUME NEW c, Consistent(c), NEW S, NEW reason \in Reasons
  PROVE  LET d == MarkCancelling(c, S, reason) IN
         /\ Consistent(d)
         /\ EligibleTasks(d) = EligibleTasks(c) \ S
         /\ SameSlots(c, d)
         /\ d.sessions = c.sessions /\ DOMAIN d.tasks = DOMAIN c.tasks
         /\ \A t \in DOMAIN c.tasks : /\ d.tasks[t].owner = c.tasks[t].owner
                                      /\ d.tasks[t].generation = c.tasks[t].generation
<1> DEFINE d == MarkCancelling(c, S, reason)
<1>0. IsStruct(c)
  BY DEF Consistent, CoordinatorType
<1> DEFINE v == [t \in DOMAIN c.tasks |->
                  IF t \in S /\ IsEligible(c.tasks[t])
                  THEN [c.tasks[t] EXCEPT !.state = "Cancelling", !.reason = reason]
                  ELSE c.tasks[t]]
<1>a. d = [c EXCEPT !.tasks = v]
  BY DEF MarkCancelling
<1>b. DOMAIN v = DOMAIN c.tasks /\ \A t \in DOMAIN c.tasks :
        v[t] = IF t \in S /\ IsEligible(c.tasks[t])
               THEN [c.tasks[t] EXCEPT !.state = "Cancelling", !.reason = reason]
               ELSE c.tasks[t]
  OBVIOUS
<1>c. v = [t \in DOMAIN v |-> v[t]]
  OBVIOUS
<1> HIDE DEF v, d
<1>1. /\ IsStruct(d)
      /\ d.sessions = c.sessions /\ d.flights = c.flights
      /\ d.single_flights = c.single_flights
      /\ d.running_by_resource = c.running_by_resource
      /\ d.terminal = c.terminal
      /\ d.next_task = c.next_task /\ d.next_flight = c.next_flight
      /\ d.tasks = v
  <2>1. d = Struct(c.sessions, v, c.flights, c.single_flights,
                   c.running_by_resource, c.terminal,
                   c.next_task, c.next_flight)
    BY <1>0, <1>a, PutTasks
  <2> QED BY <2>1, StructFields
<1>2. \A t \in DOMAIN c.tasks :
        d.tasks[t] = IF t \in S /\ IsEligible(c.tasks[t])
                     THEN [c.tasks[t] EXCEPT !.state = "Cancelling", !.reason = reason]
                     ELSE c.tasks[t]
  BY <1>1, <1>b
<1>3. \A t \in DOMAIN c.tasks : c.tasks[t] \in TaskRecord
  BY DEF Consistent, CoordinatorType, IsMap
<1>4. \A t \in DOMAIN c.tasks :
        /\ d.tasks[t] \in TaskRecord
        /\ d.tasks[t].owner = c.tasks[t].owner
        /\ d.tasks[t].generation = c.tasks[t].generation
        /\ d.tasks[t].flight = c.tasks[t].flight
        /\ IsEligible(d.tasks[t]) <=> IsEligible(c.tasks[t]) /\ t \notin S
        /\ IsEligible(d.tasks[t]) => d.tasks[t] = c.tasks[t]
  <2> TAKE t \in DOMAIN c.tasks
  <2>1. c.tasks[t] \in TaskRecord
    BY <1>3
  <2>2. CASE t \in S /\ IsEligible(c.tasks[t])
    <3>1. d.tasks[t] = [c.tasks[t] EXCEPT !.state = "Cancelling", !.reason = reason]
      BY <1>2, <2>2
    <3>2. /\ d.tasks[t] \in TaskRecord /\ d.tasks[t].state = "Cancelling"
          /\ d.tasks[t].owner = c.tasks[t].owner
          /\ d.tasks[t].generation = c.tasks[t].generation
          /\ d.tasks[t].flight = c.tasks[t].flight
      BY <2>1, <3>1 DEF TaskRecord
    <3> QED BY <2>2, <3>2 DEF IsEligible
  <2>3. CASE ~(t \in S /\ IsEligible(c.tasks[t]))
    BY <1>2, <2>1, <2>3
  <2> QED BY <2>2, <2>3
<1>5. EligibleTasks(d) = EligibleTasks(c) \ S
  BY <1>1, <1>b, <1>4 DEF EligibleTasks
<1>6. CoordinatorType(d)
  <2>1. CoordinatorType(c)
    BY DEF Consistent
  <2>2. IsMap(d.tasks, Nat, TaskRecord)
    BY <1>1, <1>b, <1>c, <1>4, <2>1 DEF CoordinatorType, IsMap
  <2> QED BY <1>1, <2>1, <2>2 DEF CoordinatorType
<1>7. Accounted(d)
  BY <1>1, <1>b DEF Consistent, Accounted
<1>7a. Mutual(d)
  BY <1>1, <1>b, <1>4 DEF Consistent, Mutual
<1>7b. StatesAgree(d)
  BY <1>1, <1>b, <1>4, <1>5 DEF Consistent, StatesAgree, EligibleTasks
<1>8. FlagSound(d) /\ IndexExact(d)
  BY <1>1, <1>5 DEF Consistent, FlagSound, Observed, IndexExact
<1>9. DOMAIN d.tasks = DOMAIN c.tasks /\ SameSlots(c, d)
  BY <1>1, <1>b DEF SameSlots, RunningFlights
<1> QED BY <1>1, <1>4, <1>5, <1>6, <1>7, <1>7a, <1>7b, <1>8, <1>9 DEF Consistent, d

\* cancel_unobserved_flights touches no task; afterwards the flags and the
\* index are exact again.
LEMMA CancelUnobservedSound ==
  ASSUME NEW c, Consistent(c)
  PROVE  LET d == CancelUnobserved(c) IN
         /\ Sound(d) /\ SameSlots(c, d)
         /\ d.sessions = c.sessions /\ d.tasks = c.tasks
<1> DEFINE lost == {f \in DOMAIN c.flights : ~Observed(c, f)}
           v == [f \in DOMAIN c.flights |->
                  IF f \in lost THEN [c.flights[f] EXCEPT !.cancelled = TRUE]
                                ELSE c.flights[f]]
           i == Restrict(c.single_flights,
                  {k \in DOMAIN c.single_flights :
                     ~\E f \in lost : /\ c.flights[f].key = k
                                      /\ c.single_flights[k] = f})
           d == CancelUnobserved(c)
<1>1. /\ Consistent(c) /\ IsStruct(c) /\ CoordinatorType(c) /\ Accounted(c)
      /\ Mutual(c) /\ StatesAgree(c) /\ FlagSound(c) /\ IndexExact(c)
  BY DEF Consistent, CoordinatorType
<1>2. d = [c EXCEPT !.flights = v, !.single_flights = i]
  BY DEF CancelUnobserved, IndexWithout
<1>3. /\ DOMAIN v = DOMAIN c.flights /\ v = [f \in DOMAIN v |-> v[f]]
      /\ \A f \in DOMAIN c.flights :
           v[f] = IF f \in lost THEN [c.flights[f] EXCEPT !.cancelled = TRUE]
                                ELSE c.flights[f]
  OBVIOUS
<1>4. /\ i = [k \in DOMAIN i |-> i[k]]
      /\ DOMAIN i = {k \in DOMAIN c.single_flights :
                       ~\E f \in lost : /\ c.flights[f].key = k
                                        /\ c.single_flights[k] = f}
      /\ \A k \in DOMAIN i : i[k] = c.single_flights[k]
  BY DEF Restrict
<1> HIDE DEF v, i, d
<1>5. /\ IsStruct(d) /\ d.flights = v /\ d.single_flights = i
      /\ d.sessions = c.sessions /\ d.tasks = c.tasks
      /\ d.running_by_resource = c.running_by_resource /\ d.terminal = c.terminal
      /\ d.next_task = c.next_task /\ d.next_flight = c.next_flight
  <2>1. d = Struct(c.sessions, c.tasks, v, i, c.running_by_resource, c.terminal,
                   c.next_task, c.next_flight)
    BY <1>1, <1>2, PutIndexedFlights
  <2> QED BY <2>1, StructFields
<1>6. \A f \in DOMAIN c.flights :
        /\ v[f] \in FlightRecord
        /\ v[f].key = c.flights[f].key /\ v[f].state = c.flights[f].state
        /\ v[f].subscribers = c.flights[f].subscribers
        /\ v[f].cancelled <=> c.flights[f].cancelled \/ f \in lost
  <2> TAKE f \in DOMAIN c.flights
  <2>1. c.flights[f] \in FlightRecord
    BY <1>1 DEF CoordinatorType, IsMap
  <2>2. CASE f \in lost
    <3>1. v[f] = [c.flights[f] EXCEPT !.cancelled = TRUE]
      BY <1>3, <2>2
    <3> QED BY <2>1, <2>2, <3>1 DEF FlightRecord
  <2>3. CASE f \notin lost
    BY <1>3, <2>1, <2>3
  <2> QED BY <2>2, <2>3
<1>7. \A f \in DOMAIN c.flights : Observed(d, f) <=> Observed(c, f)
  BY <1>5, <1>6 DEF Observed, EligibleTasks
<1>8. CoordinatorType(d)
  <2>1. IsMap(v, Nat, FlightRecord)
    BY <1>1, <1>3, <1>6 DEF CoordinatorType, IsMap
  <2>2. IsMap(i, Keys, Nat)
    BY <1>1, <1>4 DEF CoordinatorType, IsMap
  <2> QED BY <1>1, <1>5, <2>1, <2>2 DEF CoordinatorType
<1>9. Accounted(d)
  BY <1>1, <1>5 DEF Accounted
<1>10. Mutual(d)
  BY <1>1, <1>3, <1>5, <1>6 DEF Mutual
<1>11. StatesAgree(d)
  <2>1. \A t \in EligibleTasks(c) : c.tasks[t].flight \in DOMAIN c.flights
    BY <1>1 DEF Mutual, EligibleTasks
  <2> QED BY <1>1, <1>5, <1>6, <2>1 DEF StatesAgree, EligibleTasks
<1>12. FlagExact(d)
  BY <1>1, <1>3, <1>5, <1>6, <1>7 DEF FlagExact, FlagSound
<1>13. IndexExact(d)
  <2>1. ASSUME NEW k \in DOMAIN i
        PROVE  /\ i[k] \in DOMAIN v /\ v[i[k]].key = k /\ ~v[i[k]].cancelled
    BY <1>1, <1>3, <1>4, <1>6, <2>1 DEF IndexExact
  <2>2. ASSUME NEW f \in DOMAIN v, ~v[f].cancelled
        PROVE  v[f].key \in DOMAIN i /\ i[v[f].key] = f
    BY <1>1, <1>3, <1>4, <1>6, <2>2 DEF IndexExact
  <2> QED BY <1>5, <2>1, <2>2 DEF IndexExact
<1>14. FlagSound(d)
  BY <1>12 DEF FlagExact, FlagSound
<1>15. SameSlots(c, d)
  BY <1>3, <1>5, <1>6 DEF SameSlots, RunningFlights
<1> QED BY <1>5, <1>8, <1>9, <1>10, <1>11, <1>12, <1>13, <1>14, <1>15
        DEF Sound, Consistent, d

\* d grants nothing that c did not: the sessions are the same, and whatever is
\* eligible was so before, for the same owner and generation.
GrantsNothing(c, d) ==
  /\ d.sessions = c.sessions
  /\ \A t \in EligibleTasks(d) : /\ t \in EligibleTasks(c)
                                 /\ d.tasks[t].owner = c.tasks[t].owner
                                 /\ d.tasks[t].generation = c.tasks[t].generation

\* A step that makes no task eligible and moves no session keeps every eligible
\* task current.
LEMMA CurrentIfNothingGranted ==
  ASSUME NEW c, NEW d, EligibleCurrent(c), GrantsNothing(c, d)
  PROVE  EligibleCurrent(d)
BY DEF EligibleCurrent, GrantsNothing, SessionIs

\* Every cancelling method: mark, then repair.
LEMMA CancelSound ==
  ASSUME NEW c, Consistent(c), NEW S, NEW reason \in Reasons
  PROVE  LET d == Cancel(c, S, reason) IN
         /\ Sound(d)
         /\ GrantsNothing(c, d) /\ SameSlots(c, d)
         /\ EligibleTasks(d) = EligibleTasks(c) \ S
         /\ DOMAIN d.tasks = DOMAIN c.tasks
<1> DEFINE e == MarkCancelling(c, S, reason)
           d == CancelUnobserved(e)
<1>1. /\ Consistent(e) /\ EligibleTasks(e) = EligibleTasks(c) \ S /\ SameSlots(c, e)
      /\ e.sessions = c.sessions /\ DOMAIN e.tasks = DOMAIN c.tasks
      /\ \A t \in DOMAIN c.tasks : /\ e.tasks[t].owner = c.tasks[t].owner
                                   /\ e.tasks[t].generation = c.tasks[t].generation
  BY MarkCancellingConsistent
<1> HIDE DEF e
<1>2. Sound(d) /\ SameSlots(e, d) /\ d.sessions = e.sessions /\ d.tasks = e.tasks
  BY <1>1, CancelUnobservedSound
<1>3. EligibleTasks(d) = EligibleTasks(e)
  BY <1>2 DEF EligibleTasks
<1>4. \A t \in EligibleTasks(c) : t \in DOMAIN c.tasks
  BY DEF EligibleTasks
<1>5. Cancel(c, S, reason) = d
  BY DEF Cancel, e
<1> HIDE DEF d
<1>6. GrantsNothing(c, d)
  BY <1>1, <1>2, <1>3, <1>4 DEF GrantsNothing
<1>7. SameSlots(c, d)
  BY <1>1, <1>2 DEF SameSlots
<1> QED BY <1>1, <1>2, <1>3, <1>5, <1>6, <1>7

-----------------------------------------------------------------------------
(* Retirement                                                              *)

\* Removing flights together with their subscribers leaves the others as they
\* were, and an index entry goes exactly with the flight it names.
LEMMA RetireFlightsSound ==
  ASSUME NEW c, Sound(c), NEW F, F \subseteq DOMAIN c.flights,
         NEW final, \A t \in DOMAIN c.tasks : final[t] \in Final
  PROVE  LET d == RetireFlights(c, F, final) IN
         /\ Sound(d) /\ GrantsNothing(c, d)
         /\ d.running_by_resource = c.running_by_resource
         /\ \A r \in Resources : RunningFlights(d, r) = RunningFlights(c, r) \ F
<1> DEFINE gone == DOMAIN c.tasks \cap UNION {c.flights[f].subscribers : f \in F}
           t1 == Restrict(c.tasks, DOMAIN c.tasks \ gone)
           m1 == [t \in DOMAIN c.terminal \cup gone |->
                    IF t \in gone THEN final[t] ELSE c.terminal[t]]
           f1 == Restrict(c.flights, DOMAIN c.flights \ F)
           i1 == Restrict(c.single_flights,
                   {k \in DOMAIN c.single_flights :
                      ~\E f \in F : /\ c.flights[f].key = k
                                    /\ c.single_flights[k] = f})
           d == RetireFlights(c, F, final)
<1>1. /\ IsStruct(c) /\ CoordinatorType(c) /\ Accounted(c) /\ Mutual(c)
      /\ StatesAgree(c) /\ FlagExact(c) /\ IndexExact(c)
  BY DEF Sound, Consistent, CoordinatorType
<1>2. d = Retired(c, t1, m1, f1, i1)
  BY DEF RetireFlights, Retired, IndexWithout, SubscribersOf
<1>3. /\ t1 = [t \in DOMAIN t1 |-> t1[t]] /\ DOMAIN t1 = DOMAIN c.tasks \ gone
      /\ \A t \in DOMAIN t1 : t1[t] = c.tasks[t]
  BY DEF Restrict
<1>4. /\ m1 = [t \in DOMAIN m1 |-> m1[t]] /\ DOMAIN m1 = DOMAIN c.terminal \cup gone
      /\ \A t \in DOMAIN m1 : m1[t] = IF t \in gone THEN final[t] ELSE c.terminal[t]
  OBVIOUS
<1>5. /\ f1 = [f \in DOMAIN f1 |-> f1[f]] /\ DOMAIN f1 = DOMAIN c.flights \ F
      /\ \A f \in DOMAIN f1 : f1[f] = c.flights[f]
  BY DEF Restrict
<1>6. /\ i1 = [k \in DOMAIN i1 |-> i1[k]]
      /\ DOMAIN i1 = {k \in DOMAIN c.single_flights :
                        ~\E f \in F : /\ c.flights[f].key = k
                                      /\ c.single_flights[k] = f}
      /\ \A k \in DOMAIN i1 : i1[k] = c.single_flights[k]
  BY DEF Restrict
<1>7. \A t \in DOMAIN c.tasks : t \in gone <=> c.tasks[t].flight \in F
  BY <1>1 DEF Mutual
<1>8. gone \subseteq DOMAIN c.tasks
  OBVIOUS
<1> HIDE DEF gone, t1, m1, f1, i1, d
<1>9. /\ IsStruct(d) /\ d.tasks = t1 /\ d.terminal = m1 /\ d.flights = f1
      /\ d.single_flights = i1 /\ d.sessions = c.sessions
      /\ d.running_by_resource = c.running_by_resource
      /\ d.next_task = c.next_task /\ d.next_flight = c.next_flight
  <2>1. d = Struct(c.sessions, t1, f1, i1, c.running_by_resource, m1,
                   c.next_task, c.next_flight)
    BY <1>1, <1>2, PutRetired
  <2> QED BY <2>1, StructFields
<1>10. EligibleTasks(d) = EligibleTasks(c) \ gone
  BY <1>3, <1>9 DEF EligibleTasks
<1>11. \A f \in DOMAIN f1 : Observed(d, f) <=> Observed(c, f)
  <2>1. \A f \in DOMAIN f1 : \A t \in f1[f].subscribers : t \notin gone
    BY <1>1, <1>5, <1>7 DEF Mutual
  <2> QED BY <1>5, <1>9, <1>10, <2>1 DEF Observed
<1>12. CoordinatorType(d)
  <2>1. IsMap(t1, Nat, TaskRecord)
    BY <1>1, <1>3 DEF CoordinatorType, IsMap
  <2>2. IsMap(f1, Nat, FlightRecord)
    BY <1>1, <1>5 DEF CoordinatorType, IsMap
  <2>3. IsMap(i1, Keys, Nat)
    BY <1>1, <1>6 DEF CoordinatorType, IsMap
  <2>4. IsMap(m1, Nat, Final)
    BY <1>1, <1>4, <1>8 DEF CoordinatorType, IsMap
  <2> QED BY <1>1, <1>9, <2>1, <2>2, <2>3, <2>4 DEF CoordinatorType
<1>13. Accounted(d)
  BY <1>1, <1>3, <1>4, <1>8, <1>9 DEF Accounted
<1>14. Mutual(d)
  <2>1. ASSUME NEW t \in DOMAIN t1
        PROVE  t1[t].flight \in DOMAIN f1 /\ t \in f1[t1[t].flight].subscribers
    BY <1>1, <1>3, <1>5, <1>7 DEF Mutual
  <2>2. ASSUME NEW f \in DOMAIN f1, NEW t \in f1[f].subscribers
        PROVE  t \in DOMAIN t1 /\ t1[t].flight = f
    BY <1>1, <1>3, <1>5, <1>7 DEF Mutual
  <2>3. \A f \in DOMAIN f1 : f < c.next_flight
    BY <1>1, <1>5 DEF Mutual
  <2> QED BY <1>9, <2>1, <2>2, <2>3 DEF Mutual
<1>15. StatesAgree(d)
  <2>1. ASSUME NEW t \in EligibleTasks(d)
        PROVE  t1[t].state = f1[t1[t].flight].state
    <3>1. t \in EligibleTasks(c) /\ t \in DOMAIN t1
      BY <1>9, <1>10, <2>1 DEF EligibleTasks
    <3>2. t1[t].flight \in DOMAIN f1
      BY <1>9, <1>14, <3>1 DEF Mutual
    <3> QED BY <1>1, <1>3, <1>5, <3>1, <3>2 DEF StatesAgree
  <2> QED BY <1>9, <2>1 DEF StatesAgree
<1>16. FlagExact(d)
  BY <1>1, <1>5, <1>9, <1>11 DEF FlagExact
<1>17. IndexExact(d)
  <2>1. ASSUME NEW k \in DOMAIN i1
        PROVE  /\ i1[k] \in DOMAIN f1 /\ f1[i1[k]].key = k /\ ~f1[i1[k]].cancelled
    BY <1>1, <1>5, <1>6, <2>1 DEF IndexExact
  <2>2. ASSUME NEW f \in DOMAIN f1, ~f1[f].cancelled
        PROVE  f1[f].key \in DOMAIN i1 /\ i1[f1[f].key] = f
    BY <1>1, <1>5, <1>6, <2>2 DEF IndexExact
  <2> QED BY <1>9, <2>1, <2>2 DEF IndexExact
<1>18. GrantsNothing(c, d)
  BY <1>3, <1>9, <1>10 DEF GrantsNothing, EligibleTasks
<1>19. FlagSound(d)
  BY <1>16 DEF FlagExact, FlagSound
<1>20. \A r \in Resources : RunningFlights(d, r) = RunningFlights(c, r) \ F
  BY <1>5, <1>9 DEF RunningFlights
<1> QED BY <1>9, <1>12, <1>13, <1>14, <1>15, <1>16, <1>17, <1>18, <1>19, <1>20
        DEF Sound, Consistent, d

\* expire keeps the struct sound, makes nothing eligible and touches no slot.
LEMMA ExpireSound ==
  ASSUME NEW c, Sound(c), NEW now
  PROVE  LET d == Expire(c, now) IN
         Sound(d) /\ GrantsNothing(c, d) /\ SameSlots(c, d)
<1> DEFINE e == Cancel(c, Overdue(c, now), "DeadlineExceeded")
           final == [t \in DOMAIN e.tasks |->
                      IF /\ e.tasks[t].state = "Cancelling"
                         /\ e.tasks[t].reason = "DeadlineExceeded"
                      THEN "Rejected" ELSE "Cancelled"]
           d == RetireFlights(e, Abandoned(e), final)
<1>1. Sound(e) /\ GrantsNothing(c, e) /\ SameSlots(c, e)
  BY CancelSound DEF Sound, Reasons
<1>2. Expire(c, now) = d
  BY DEF Expire, RetireAbandoned
<1> HIDE DEF e
<1>3. Abandoned(e) \subseteq DOMAIN e.flights
  BY DEF Abandoned, QueuedFlights
<1>4. \A t \in DOMAIN e.tasks : final[t] \in Final
  BY DEF Final, Outcomes
<1> HIDE DEF final
<1>5. /\ Sound(d) /\ GrantsNothing(e, d)
      /\ d.running_by_resource = e.running_by_resource
      /\ \A r \in Resources : RunningFlights(d, r) = RunningFlights(e, r) \ Abandoned(e)
  BY <1>1, <1>3, <1>4, RetireFlightsSound
<1> HIDE DEF d
<1>6. GrantsNothing(c, d)
  BY <1>1, <1>5 DEF GrantsNothing
<1>7. \A r \in Resources : RunningFlights(e, r) \ Abandoned(e) = RunningFlights(e, r)
  BY DEF RunningFlights, Abandoned, QueuedFlights
<1>8. SameSlots(c, d)
  BY <1>1, <1>5, <1>7 DEF SameSlots
<1> QED BY <1>2, <1>5, <1>6, <1>8

-----------------------------------------------------------------------------
(* Sessions                                                                *)

\* Writing the session map alone disturbs neither tasks, flights nor slots.
LEMMA SessionsConsistent ==
  ASSUME NEW c, Sound(c), NEW v, IsMap(v, Sessions, Nat)
  PROVE  LET d == [c EXCEPT !.sessions = v] IN
         /\ Consistent(d) /\ d.sessions = v /\ d.tasks = c.tasks
         /\ EligibleTasks(d) = EligibleTasks(c) /\ SameSlots(c, d)
<1> DEFINE d == [c EXCEPT !.sessions = v]
<1>1. /\ IsStruct(c) /\ CoordinatorType(c) /\ Accounted(c) /\ Mutual(c)
      /\ StatesAgree(c) /\ FlagSound(c) /\ IndexExact(c)
  BY DEF Sound, Consistent, CoordinatorType
<1>2. d = Struct(v, c.tasks, c.flights, c.single_flights, c.running_by_resource,
                 c.terminal, c.next_task, c.next_flight)
  BY <1>1, PutSessions
<1> HIDE DEF d
<1>3. /\ IsStruct(d) /\ d.sessions = v /\ d.tasks = c.tasks /\ d.flights = c.flights
      /\ d.single_flights = c.single_flights
      /\ d.running_by_resource = c.running_by_resource /\ d.terminal = c.terminal
      /\ d.next_task = c.next_task /\ d.next_flight = c.next_flight
  BY <1>2, StructFields
<1>4. EligibleTasks(d) = EligibleTasks(c)
  BY <1>3 DEF EligibleTasks
<1>5. CoordinatorType(d)
  BY <1>1, <1>3 DEF CoordinatorType
<1>6. Accounted(d) /\ Mutual(d)
  BY <1>1, <1>3 DEF Accounted, Mutual
<1>7. StatesAgree(d) /\ FlagSound(d) /\ IndexExact(d)
  BY <1>1, <1>3, <1>4 DEF StatesAgree, FlagSound, IndexExact, Observed
<1>8. SameSlots(c, d)
  BY <1>3 DEF SameSlots, RunningFlights
<1> QED BY <1>3, <1>4, <1>5, <1>6, <1>7, <1>8 DEF Consistent, d

\* observe_session: the tasks of the generation that is replaced are revoked
\* in the same call.
LEMMA ObserveSessionSound ==
  ASSUME NEW c, Sound(c), EligibleCurrent(c),
         NEW s \in Sessions, NEW generation \in Nat
  PROVE  LET d == ObserveSession(c, s, generation) IN
         Sound(d) /\ EligibleCurrent(d) /\ SameSlots(c, d)
<1>1. CASE ~AdvancesSession(c, s, generation)
  BY <1>1 DEF ObserveSession, SameSlots
<1>2. CASE AdvancesSession(c, s, generation)
  <2> DEFINE v == [x \in DOMAIN c.sessions \cup {s} |->
                    IF x = s THEN generation ELSE c.sessions[x]]
             S == {t \in TasksOfSession(c, s) : c.tasks[t].generation # generation}
             e == [c EXCEPT !.sessions = v]
             d == Cancel(e, S, "SessionAdvanced")
  <2>1. ObserveSession(c, s, generation) = d
    BY <1>2 DEF ObserveSession
  <2>2. IsMap(v, Sessions, Nat)
    BY DEF Sound, Consistent, CoordinatorType, IsMap
  <2>3. DOMAIN v = DOMAIN c.sessions \cup {s} /\ v[s] = generation
        /\ \A x \in DOMAIN c.sessions \ {s} : v[x] = c.sessions[x]
    OBVIOUS
  <2> HIDE DEF v
  <2>4. /\ Consistent(e) /\ e.sessions = v /\ e.tasks = c.tasks
        /\ EligibleTasks(e) = EligibleTasks(c) /\ SameSlots(c, e)
    BY <2>2, SessionsConsistent
  <2> HIDE DEF e
  <2>5. /\ Sound(d) /\ GrantsNothing(e, d) /\ SameSlots(e, d)
        /\ EligibleTasks(d) = EligibleTasks(e) \ S
    BY <2>4, CancelSound DEF Reasons
  <2> HIDE DEF d
  <2>6. ASSUME NEW t \in EligibleTasks(d)
        PROVE  SessionIs(d, SessionOf[d.tasks[t].owner], d.tasks[t].generation)
    <3>1. /\ t \in EligibleTasks(c) /\ t \in DOMAIN c.tasks /\ t \notin S
          /\ d.tasks[t].owner = c.tasks[t].owner
          /\ d.tasks[t].generation = c.tasks[t].generation
          /\ d.sessions = v
      BY <2>4, <2>5, <2>6 DEF GrantsNothing, EligibleTasks
    <3>2. SessionIs(c, SessionOf[c.tasks[t].owner], c.tasks[t].generation)
      BY <3>1 DEF EligibleCurrent
    <3>3. CASE SessionOf[c.tasks[t].owner] = s
      BY <2>3, <3>1, <3>3 DEF SessionIs, TasksOfSession
    <3>4. CASE SessionOf[c.tasks[t].owner] # s
      BY <2>3, <3>1, <3>2, <3>4 DEF SessionIs
    <3> QED BY <3>3, <3>4
  <2>7. SameSlots(c, d)
    BY <2>4, <2>5 DEF SameSlots
  <2> QED BY <2>1, <2>5, <2>6, <2>7 DEF EligibleCurrent
<1> QED BY <1>1, <1>2

\* close_session leaves no eligible task of the session it removed.
LEMMA CloseSessionSound ==
  ASSUME NEW c, Sound(c), EligibleCurrent(c), NEW s
  PROVE  LET d == CloseSession(c, s) IN
         Sound(d) /\ EligibleCurrent(d) /\ SameSlots(c, d)
<1> DEFINE v == Restrict(c.sessions, DOMAIN c.sessions \ {s})
           S == TasksOfSession(c, s)
           e == [c EXCEPT !.sessions = v]
           d == Cancel(e, S, "SessionAdvanced")
<1>1. CloseSession(c, s) = d
  BY DEF CloseSession
<1>2. /\ v = [x \in DOMAIN v |-> v[x]] /\ DOMAIN v = DOMAIN c.sessions \ {s}
      /\ \A x \in DOMAIN v : v[x] = c.sessions[x]
  BY DEF Restrict
<1> HIDE DEF v
<1>3. IsMap(v, Sessions, Nat)
  BY <1>2 DEF Sound, Consistent, CoordinatorType, IsMap
<1>4. /\ Consistent(e) /\ e.sessions = v /\ e.tasks = c.tasks
      /\ EligibleTasks(e) = EligibleTasks(c) /\ SameSlots(c, e)
  BY <1>3, SessionsConsistent
<1> HIDE DEF e
<1>5. /\ Sound(d) /\ GrantsNothing(e, d) /\ SameSlots(e, d)
      /\ EligibleTasks(d) = EligibleTasks(e) \ S
  BY <1>4, CancelSound DEF Reasons
<1> HIDE DEF d
<1>6. ASSUME NEW t \in EligibleTasks(d)
      PROVE  SessionIs(d, SessionOf[d.tasks[t].owner], d.tasks[t].generation)
  <2>1. /\ t \in EligibleTasks(c) /\ t \in DOMAIN c.tasks /\ t \notin S
        /\ d.tasks[t].owner = c.tasks[t].owner
        /\ d.tasks[t].generation = c.tasks[t].generation
        /\ d.sessions = v
    BY <1>4, <1>5, <1>6 DEF GrantsNothing, EligibleTasks
  <2>2. SessionIs(c, SessionOf[c.tasks[t].owner], c.tasks[t].generation)
    BY <2>1 DEF EligibleCurrent
  <2>3. SessionOf[c.tasks[t].owner] # s
    BY <2>1 DEF TasksOfSession
  <2> QED BY <1>2, <2>1, <2>2, <2>3 DEF SessionIs
<1>7. SameSlots(c, d)
  BY <1>4, <1>5 DEF SameSlots
<1> QED BY <1>1, <1>5, <1>6, <1>7 DEF EligibleCurrent

-----------------------------------------------------------------------------
(* Submission                                                              *)

\* The record submit inserts is well typed, eligible and in its flight's state.
LEMMA NewTaskRecord ==
  ASSUME NEW spec \in TaskSpec, NEW f \in Nat, NEW state \in {"Queued", "Running"}
  PROVE  LET task == NewTask(spec, f, state) IN
         /\ task \in TaskRecord /\ task.flight = f /\ task.state = state
         /\ task.owner = spec.owner /\ task.generation = spec.generation
         /\ IsEligible(task)
BY DEF TaskSpec, TaskRecord, NewTask, IsEligible

\* The id of a new task is fresh, and adding it keeps the ids accounted for.
LEMMA WithTaskFields ==
  ASSUME NEW c, Consistent(c), NEW task \in TaskRecord, IsEligible(task)
  PROVE  LET d == WithTask(c, task)
             n == c.next_task IN
         /\ IsStruct(d) /\ d.sessions = c.sessions /\ d.flights = c.flights
         /\ d.single_flights = c.single_flights
         /\ d.running_by_resource = c.running_by_resource /\ d.terminal = c.terminal
         /\ d.next_task = n + 1 /\ d.next_flight = c.next_flight
         /\ n \notin DOMAIN c.tasks /\ Accounted(d)
         /\ DOMAIN d.tasks = DOMAIN c.tasks \cup {n}
         /\ d.tasks[n] = task
         /\ \A t \in DOMAIN c.tasks : d.tasks[t] = c.tasks[t]
         /\ IsMap(d.tasks, Nat, TaskRecord)
         /\ EligibleTasks(d) = EligibleTasks(c) \cup {n}
<1> DEFINE n == c.next_task
           v == [t \in DOMAIN c.tasks \cup {n} |-> IF t = n THEN task ELSE c.tasks[t]]
           d == WithTask(c, task)
<1>1. /\ IsStruct(c) /\ CoordinatorType(c) /\ Accounted(c) /\ n \in Nat \ {0}
  BY DEF Consistent, CoordinatorType
<1>2. d = [c EXCEPT !.tasks = v, !.next_task = n + 1]
  BY DEF WithTask
<1>3. n \notin DOMAIN c.tasks /\ n \notin DOMAIN c.terminal
  BY <1>1 DEF Accounted
<1>4. /\ v = [t \in DOMAIN v |-> v[t]] /\ DOMAIN v = DOMAIN c.tasks \cup {n}
      /\ v[n] = task /\ \A t \in DOMAIN c.tasks : v[t] = c.tasks[t]
  BY <1>3
<1> HIDE DEF v, d
<1>5. /\ IsStruct(d) /\ d.tasks = v /\ d.sessions = c.sessions /\ d.flights = c.flights
      /\ d.single_flights = c.single_flights
      /\ d.running_by_resource = c.running_by_resource /\ d.terminal = c.terminal
      /\ d.next_task = n + 1 /\ d.next_flight = c.next_flight
  <2>1. d = Struct(c.sessions, v, c.flights, c.single_flights,
                   c.running_by_resource, c.terminal, n + 1, c.next_flight)
    BY <1>1, <1>2, PutNewTask
  <2> QED BY <2>1, StructFields
<1>6. Accounted(d)
  <2>1. DOMAIN v \cap DOMAIN c.terminal = {}
    BY <1>1, <1>3, <1>4 DEF Accounted
  <2>2. DOMAIN v \cup DOMAIN c.terminal = 1 .. n
    <3>1. DOMAIN v \cup DOMAIN c.terminal = (1 .. n - 1) \cup {n}
      BY <1>1, <1>4 DEF Accounted
    <3>2. (1 .. n - 1) \cup {n} = 1 .. n
      BY <1>1
    <3> QED BY <3>1, <3>2
  <2>3. 1 .. d.next_task - 1 = 1 .. n
    <3>1. d.next_task - 1 = n
      BY <1>1, <1>5
    <3> QED BY <3>1
  <2> QED BY <1>5, <2>1, <2>2, <2>3 DEF Accounted
<1>7. IsMap(v, Nat, TaskRecord)
  BY <1>1, <1>4 DEF CoordinatorType, IsMap
<1>8. EligibleTasks(d) = EligibleTasks(c) \cup {n}
  BY <1>4, <1>5 DEF EligibleTasks
<1> QED BY <1>3, <1>4, <1>5, <1>6, <1>7, <1>8 DEF d

\* A requester that joins a flight becomes one of its subscribers, at the
\* flight's own state, and nobody else is affected before the older
\* generations of the requester are superseded.
LEMMA JoinFlightSound ==
  ASSUME NEW c, Sound(c), EligibleCurrent(c), NEW spec \in TaskSpec, NEW now,
         Admissible(c, spec, now), NEW f \in DOMAIN c.flights, MayJoin(c, spec, f)
  PROVE  LET d == JoinFlight(c, spec, f) IN
         Sound(d) /\ EligibleCurrent(d) /\ SameSlots(c, d)
<1> DEFINE n == c.next_task
           task == NewTask(spec, f, c.flights[f].state)
           a == WithTask(c, task)
           v == [g \in DOMAIN c.flights |->
                   IF g = f THEN [c.flights[g] EXCEPT !.subscribers = @ \cup {n}]
                   ELSE c.flights[g]]
           e == [a EXCEPT !.flights = v]
           d == Cancel(e, Supersedable(e, spec) \ {n}, "Superseded")
<1>1. /\ Consistent(c) /\ CoordinatorType(c) /\ Mutual(c) /\ StatesAgree(c)
      /\ FlagSound(c) /\ IndexExact(c) /\ n \in Nat
  BY DEF Sound, Consistent, CoordinatorType
<1>2. JoinFlight(c, spec, f) = d
  BY DEF JoinFlight, SupersedeOlder
<1>3. c.flights[f] \in FlightRecord /\ f \in Nat /\ ~c.flights[f].cancelled
  BY <1>1 DEF CoordinatorType, IsMap, MayJoin, Shares
<1>4. /\ task \in TaskRecord /\ task.flight = f /\ task.state = c.flights[f].state
      /\ task.owner = spec.owner /\ task.generation = spec.generation
      /\ IsEligible(task)
  BY <1>3, NewTaskRecord DEF FlightRecord
<1>5. /\ DOMAIN v = DOMAIN c.flights /\ v = [g \in DOMAIN v |-> v[g]]
      /\ \A g \in DOMAIN c.flights :
           /\ v[g] \in FlightRecord /\ v[g].key = c.flights[g].key
           /\ v[g].state = c.flights[g].state
           /\ v[g].cancelled = c.flights[g].cancelled
           /\ v[g].subscribers = c.flights[g].subscribers
                                   \cup (IF g = f THEN {n} ELSE {})
  <2>1. DOMAIN v = DOMAIN c.flights /\ v = [g \in DOMAIN v |-> v[g]]
    OBVIOUS
  <2>2. ASSUME NEW g \in DOMAIN c.flights
        PROVE  /\ v[g] \in FlightRecord /\ v[g].key = c.flights[g].key
               /\ v[g].state = c.flights[g].state
               /\ v[g].cancelled = c.flights[g].cancelled
               /\ v[g].subscribers = c.flights[g].subscribers
                                       \cup (IF g = f THEN {n} ELSE {})
    <3>1. c.flights[g] \in FlightRecord
      BY <1>1 DEF CoordinatorType, IsMap
    <3>2. CASE g = f
      <4>1. v[g] = [c.flights[g] EXCEPT !.subscribers = @ \cup {n}]
        BY <3>2
      <4> HIDE DEF v
      <4> QED BY <1>1, <3>1, <3>2, <4>1 DEF FlightRecord
    <3>3. CASE g # f
      BY <3>1, <3>3
    <3> QED BY <3>2, <3>3
  <2> QED BY <2>1, <2>2
<1> HIDE DEF v, task
<1>6. /\ IsStruct(a) /\ a.sessions = c.sessions /\ a.flights = c.flights
      /\ a.single_flights = c.single_flights
      /\ a.running_by_resource = c.running_by_resource /\ a.terminal = c.terminal
      /\ a.next_task = n + 1 /\ a.next_flight = c.next_flight
      /\ n \notin DOMAIN c.tasks /\ Accounted(a)
      /\ DOMAIN a.tasks = DOMAIN c.tasks \cup {n}
      /\ a.tasks[n] = task /\ \A t \in DOMAIN c.tasks : a.tasks[t] = c.tasks[t]
      /\ IsMap(a.tasks, Nat, TaskRecord)
      /\ EligibleTasks(a) = EligibleTasks(c) \cup {n}
  BY <1>1, <1>4, WithTaskFields
<1> HIDE DEF a
<1>7. /\ IsStruct(e) /\ e.sessions = c.sessions /\ e.flights = v /\ e.tasks = a.tasks
      /\ e.single_flights = c.single_flights
      /\ e.running_by_resource = c.running_by_resource /\ e.terminal = c.terminal
      /\ e.next_task = n + 1 /\ e.next_flight = c.next_flight
  <2>1. e = Struct(a.sessions, a.tasks, v, a.single_flights,
                   a.running_by_resource, a.terminal,
                   a.next_task, a.next_flight)
    BY <1>6, PutFlights
  <2> QED BY <1>6, <2>1, StructFields
<1> HIDE DEF e
<1>8. EligibleTasks(e) = EligibleTasks(c) \cup {n}
  BY <1>6, <1>7 DEF EligibleTasks
<1>9. CoordinatorType(e)
  <2>1. IsMap(v, Nat, FlightRecord)
    BY <1>1, <1>5 DEF CoordinatorType, IsMap
  <2> QED BY <1>1, <1>6, <1>7, <2>1 DEF CoordinatorType
<1>10. Accounted(e)
  BY <1>6, <1>7 DEF Accounted
<1>11. Mutual(e)
  BY <1>1, <1>4, <1>5, <1>6, <1>7 DEF Mutual
<1>12. StatesAgree(e)
  <2>1. \A t \in EligibleTasks(c) : t \in DOMAIN c.tasks
                                    /\ c.tasks[t].flight \in DOMAIN c.flights
    BY <1>1 DEF EligibleTasks, Mutual
  <2> QED BY <1>1, <1>4, <1>5, <1>6, <1>7, <1>8, <2>1 DEF StatesAgree
<1>13. FlagSound(e)
  <2>1. ASSUME NEW g \in DOMAIN v, v[g].cancelled
        PROVE  ~Observed(e, g)
    <3>1. g # f /\ ~Observed(c, g)
      BY <1>1, <1>3, <1>5, <2>1 DEF FlagSound
    <3>2. n \notin c.flights[g].subscribers
      BY <1>1, <1>5, <1>6 DEF Mutual
    <3> QED BY <1>5, <1>7, <1>8, <3>1, <3>2 DEF Observed
  <2> QED BY <1>7, <2>1 DEF FlagSound
<1>14. IndexExact(e)
  BY <1>1, <1>5, <1>7 DEF IndexExact
<1>15. EligibleCurrent(e)
  <2>1. SessionIs(c, SessionOf[spec.owner], spec.generation)
    BY DEF Admissible
  <2>2. ASSUME NEW t \in EligibleTasks(c)
        PROVE  SessionIs(e, SessionOf[e.tasks[t].owner], e.tasks[t].generation)
    BY <1>6, <1>7, <2>2 DEF EligibleCurrent, SessionIs, EligibleTasks
  <2>3. SessionIs(e, SessionOf[e.tasks[n].owner], e.tasks[n].generation)
    BY <1>4, <1>6, <1>7, <2>1 DEF SessionIs
  <2> QED BY <1>8, <2>2, <2>3 DEF EligibleCurrent
<1>16. Consistent(e)
  BY <1>9, <1>10, <1>11, <1>12, <1>13, <1>14 DEF Consistent
<1>17. Sound(d) /\ GrantsNothing(e, d) /\ SameSlots(e, d)
  BY <1>16, CancelSound DEF Reasons
<1> HIDE DEF d
<1>18. SameSlots(c, e)
  BY <1>5, <1>7 DEF SameSlots, RunningFlights
<1>19. SameSlots(c, d)
  BY <1>17, <1>18 DEF SameSlots
<1> QED BY <1>2, <1>15, <1>17, <1>19, CurrentIfNothingGranted

\* A flight is opened only for a key that no live flight has.
LEMMA OpenFlightSound ==
  ASSUME NEW c, Sound(c), EligibleCurrent(c), NEW spec \in TaskSpec, NEW now \in Nat,
         Admissible(c, spec, now), MayOpen(c, spec)
  PROVE  LET d == OpenFlight(c, spec, now) IN
         Sound(d) /\ EligibleCurrent(d) /\ SameSlots(c, d)
<1> DEFINE n == c.next_task
           f == c.next_flight
           task == NewTask(spec, f, "Queued")
           flight == [key |-> spec.key, state |-> "Queued", submitted_at |-> now,
                      subscribers |-> {n}, cancelled |-> FALSE]
           a == WithTask(c, task)
           v == [g \in DOMAIN c.flights \cup {f} |->
                   IF g = f THEN flight ELSE c.flights[g]]
           i == [k \in DOMAIN c.single_flights \cup {spec.key} |->
                   IF k = spec.key THEN f ELSE c.single_flights[k]]
           e == Opened(a, v, i, a.next_flight + 1)
           d == Cancel(e, Supersedable(e, spec) \ {n}, "Superseded")
<1>1. /\ Consistent(c) /\ CoordinatorType(c) /\ Mutual(c) /\ StatesAgree(c)
      /\ FlagSound(c) /\ IndexExact(c) /\ n \in Nat /\ f \in Nat \ {0}
  BY DEF Sound, Consistent, CoordinatorType
<1>2. OpenFlight(c, spec, now) = d
  BY DEF OpenFlight, SupersedeOlder, Opened
<1>3. f \notin DOMAIN c.flights
  BY <1>1 DEF Mutual
<1>4. /\ task \in TaskRecord /\ task.flight = f /\ task.state = "Queued"
      /\ task.owner = spec.owner /\ task.generation = spec.generation
      /\ IsEligible(task)
  BY <1>1, NewTaskRecord
<1>5. /\ flight \in FlightRecord /\ flight.key = spec.key /\ flight.state = "Queued"
      /\ flight.subscribers = {n} /\ ~flight.cancelled
  BY <1>1 DEF FlightRecord, TaskSpec
<1> HIDE DEF flight, task
<1>6. /\ v = [g \in DOMAIN v |-> v[g]] /\ DOMAIN v = DOMAIN c.flights \cup {f}
      /\ v[f] = flight /\ \A g \in DOMAIN c.flights : v[g] = c.flights[g]
  BY <1>3
<1>7. /\ i = [k \in DOMAIN i |-> i[k]]
      /\ DOMAIN i = DOMAIN c.single_flights \cup {spec.key} /\ i[spec.key] = f
      /\ \A k \in DOMAIN c.single_flights : k # spec.key /\ i[k] = c.single_flights[k]
  BY DEF MayOpen
<1> HIDE DEF v, i
<1>8. /\ IsStruct(a) /\ a.sessions = c.sessions
      /\ a.running_by_resource = c.running_by_resource /\ a.terminal = c.terminal
      /\ a.next_task = n + 1 /\ a.next_flight = f
      /\ n \notin DOMAIN c.tasks /\ Accounted(a)
      /\ DOMAIN a.tasks = DOMAIN c.tasks \cup {n}
      /\ a.tasks[n] = task /\ \A t \in DOMAIN c.tasks : a.tasks[t] = c.tasks[t]
      /\ IsMap(a.tasks, Nat, TaskRecord)
      /\ EligibleTasks(a) = EligibleTasks(c) \cup {n}
  BY <1>1, <1>4, WithTaskFields
<1> HIDE DEF a
<1>9. /\ IsStruct(e) /\ e.sessions = c.sessions /\ e.flights = v /\ e.tasks = a.tasks
      /\ e.single_flights = i
      /\ e.running_by_resource = c.running_by_resource /\ e.terminal = c.terminal
      /\ e.next_task = n + 1 /\ e.next_flight = f + 1
  <2>1. e = Struct(a.sessions, a.tasks, v, i, a.running_by_resource, a.terminal,
                   a.next_task, a.next_flight + 1)
    BY <1>8, PutNewFlight
  <2> HIDE DEF e
  <2> QED BY <1>8, <2>1, StructFields
<1> HIDE DEF e
<1>10. EligibleTasks(e) = EligibleTasks(c) \cup {n}
  BY <1>8, <1>9 DEF EligibleTasks
<1>11. CoordinatorType(e)
  <2>1. IsMap(v, Nat, FlightRecord)
    BY <1>1, <1>5, <1>6 DEF CoordinatorType, IsMap
  <2>2. IsMap(i, Keys, Nat)
    BY <1>1, <1>7 DEF CoordinatorType, IsMap, TaskSpec
  <2> QED BY <1>1, <1>8, <1>9, <2>1, <2>2 DEF CoordinatorType
<1>12. Accounted(e)
  BY <1>8, <1>9 DEF Accounted
<1>13. Mutual(e)
  <2>1. ASSUME NEW t \in DOMAIN e.tasks
        PROVE  e.tasks[t].flight \in DOMAIN v /\ t \in v[e.tasks[t].flight].subscribers
    BY <1>1, <1>3, <1>4, <1>5, <1>6, <1>8, <1>9, <2>1 DEF Mutual
  <2>2. ASSUME NEW g \in DOMAIN v, NEW t \in v[g].subscribers
        PROVE  t \in DOMAIN e.tasks /\ e.tasks[t].flight = g
    BY <1>1, <1>3, <1>4, <1>5, <1>6, <1>8, <1>9, <2>2 DEF Mutual
  <2>3. \A g \in DOMAIN v : g < f + 1
    <3>1. \A g \in DOMAIN c.flights : g \in Nat
      BY <1>1 DEF CoordinatorType, IsMap
    <3> QED BY <1>1, <1>6, <3>1 DEF Mutual
  <2> QED BY <1>9, <2>1, <2>2, <2>3 DEF Mutual
<1>14. StatesAgree(e)
  <2>1. \A t \in EligibleTasks(c) : t \in DOMAIN c.tasks
                                    /\ c.tasks[t].flight \in DOMAIN c.flights
    BY <1>1 DEF EligibleTasks, Mutual
  <2> QED BY <1>1, <1>4, <1>5, <1>6, <1>8, <1>9, <1>10, <2>1 DEF StatesAgree
<1>15. FlagSound(e)
  <2>1. ASSUME NEW g \in DOMAIN v, v[g].cancelled
        PROVE  ~Observed(e, g)
    <3>1. g \in DOMAIN c.flights /\ v[g] = c.flights[g] /\ ~Observed(c, g)
      BY <1>1, <1>5, <1>6, <2>1 DEF FlagSound
    <3>2. n \notin c.flights[g].subscribers
      BY <1>1, <1>8, <3>1 DEF Mutual
    <3> QED BY <1>9, <1>10, <3>1, <3>2 DEF Observed
  <2> QED BY <1>9, <2>1 DEF FlagSound
<1>16. IndexExact(e)
  <2>1. ASSUME NEW k \in DOMAIN i
        PROVE  i[k] \in DOMAIN v /\ v[i[k]].key = k /\ ~v[i[k]].cancelled
    BY <1>1, <1>5, <1>6, <1>7, <2>1 DEF IndexExact
  <2>2. ASSUME NEW g \in DOMAIN v, ~v[g].cancelled
        PROVE  v[g].key \in DOMAIN i /\ i[v[g].key] = g
    BY <1>1, <1>3, <1>5, <1>6, <1>7, <2>2 DEF IndexExact
  <2> QED BY <1>9, <2>1, <2>2 DEF IndexExact
<1>17. EligibleCurrent(e)
  <2>1. SessionIs(c, SessionOf[spec.owner], spec.generation)
    BY DEF Admissible
  <2>2. ASSUME NEW t \in EligibleTasks(c)
        PROVE  SessionIs(e, SessionOf[e.tasks[t].owner], e.tasks[t].generation)
    BY <1>8, <1>9, <2>2 DEF EligibleCurrent, SessionIs, EligibleTasks
  <2>3. SessionIs(e, SessionOf[e.tasks[n].owner], e.tasks[n].generation)
    BY <1>4, <1>8, <1>9, <2>1 DEF SessionIs
  <2> QED BY <1>10, <2>2, <2>3 DEF EligibleCurrent
<1>18. Consistent(e)
  BY <1>11, <1>12, <1>13, <1>14, <1>15, <1>16 DEF Consistent
<1>19. Sound(d) /\ GrantsNothing(e, d) /\ SameSlots(e, d)
  BY <1>18, CancelSound DEF Reasons
<1> HIDE DEF d
<1>20. SameSlots(c, e)
  BY <1>3, <1>5, <1>6, <1>9 DEF SameSlots, RunningFlights
<1>21. SameSlots(c, d)
  BY <1>19, <1>20 DEF SameSlots
<1> QED BY <1>2, <1>17, <1>19, <1>21, CurrentIfNothingGranted

-----------------------------------------------------------------------------
(* Workers                                                                 *)

\* dispatch_next moves a flight and its eligible subscribers to Running
\* together.
LEMMA DispatchFlightSound ==
  ASSUME NEW c, Sound(c), NEW f \in DOMAIN c.flights
  PROVE  LET d == DispatchFlight(c, f) IN
         /\ Sound(d) /\ GrantsNothing(c, d)
         /\ \A r \in Resources :
              IF r = ResourceOf[c.flights[f].key]
              THEN /\ RunningFlights(d, r) = RunningFlights(c, r) \cup {f}
                   /\ d.running_by_resource[r] = c.running_by_resource[r] + 1
              ELSE /\ RunningFlights(d, r) = RunningFlights(c, r)
                   /\ d.running_by_resource[r] = c.running_by_resource[r]
<1> DEFINE v == [g \in DOMAIN c.flights |->
                   IF g = f THEN [c.flights[g] EXCEPT !.state = "Running"]
                   ELSE c.flights[g]]
           r1 == [r \in Resources |->
                   IF r = ResourceOf[c.flights[f].key] THEN c.running_by_resource[r] + 1
                                                       ELSE c.running_by_resource[r]]
           t1 == [t \in DOMAIN c.tasks |->
                   IF t \in EligibleSubscribers(c, f)
                   THEN [c.tasks[t] EXCEPT !.state = "Running"] ELSE c.tasks[t]]
           d == DispatchFlight(c, f)
<1>1. /\ IsStruct(c) /\ CoordinatorType(c) /\ Accounted(c) /\ Mutual(c)
      /\ StatesAgree(c) /\ FlagExact(c) /\ IndexExact(c)
  BY DEF Sound, Consistent, CoordinatorType
<1>2. d = Dispatched(c, v, r1, t1)
  BY DEF DispatchFlight, Dispatched
<1>3. /\ v = [g \in DOMAIN v |-> v[g]] /\ DOMAIN v = DOMAIN c.flights
      /\ \A g \in DOMAIN c.flights :
           v[g] = IF g = f THEN [c.flights[g] EXCEPT !.state = "Running"]
                  ELSE c.flights[g]
  OBVIOUS
<1>4. /\ r1 \in [Resources -> Nat]
      /\ \A r \in Resources :
           r1[r] = IF r = ResourceOf[c.flights[f].key] THEN c.running_by_resource[r] + 1
                                                       ELSE c.running_by_resource[r]
  BY <1>1 DEF CoordinatorType
<1>5. /\ t1 = [t \in DOMAIN t1 |-> t1[t]] /\ DOMAIN t1 = DOMAIN c.tasks
      /\ \A t \in DOMAIN c.tasks :
           t1[t] = IF t \in EligibleSubscribers(c, f)
                   THEN [c.tasks[t] EXCEPT !.state = "Running"] ELSE c.tasks[t]
  OBVIOUS
<1> HIDE DEF v, r1, t1, d
<1>6. /\ IsStruct(d) /\ d.flights = v /\ d.running_by_resource = r1 /\ d.tasks = t1
      /\ d.sessions = c.sessions /\ d.single_flights = c.single_flights
      /\ d.terminal = c.terminal
      /\ d.next_task = c.next_task /\ d.next_flight = c.next_flight
  <2>1. d = Struct(c.sessions, t1, v, c.single_flights, r1, c.terminal,
                   c.next_task, c.next_flight)
    BY <1>1, <1>2, PutDispatched
  <2> QED BY <2>1, StructFields
<1>7. \A g \in DOMAIN c.flights :
        /\ v[g] \in FlightRecord /\ v[g].key = c.flights[g].key
        /\ v[g].cancelled = c.flights[g].cancelled
        /\ v[g].subscribers = c.flights[g].subscribers
        /\ v[g].state = IF g = f THEN "Running" ELSE c.flights[g].state
  <2> TAKE g \in DOMAIN c.flights
  <2>1. c.flights[g] \in FlightRecord
    BY <1>1 DEF CoordinatorType, IsMap
  <2>2. CASE g = f
    <3>1. v[g] = [c.flights[g] EXCEPT !.state = "Running"]
      BY <1>3, <2>2
    <3> QED BY <2>1, <2>2, <3>1 DEF FlightRecord
  <2>3. CASE g # f
    BY <1>3, <2>1, <2>3
  <2> QED BY <2>2, <2>3
<1>8. \A t \in DOMAIN c.tasks :
        /\ t1[t] \in TaskRecord
        /\ t1[t].flight = c.tasks[t].flight
        /\ t1[t].owner = c.tasks[t].owner
        /\ t1[t].generation = c.tasks[t].generation
        /\ IsEligible(t1[t]) <=> IsEligible(c.tasks[t])
        /\ t1[t].state = IF t \in EligibleSubscribers(c, f) THEN "Running"
                         ELSE c.tasks[t].state
  <2> TAKE t \in DOMAIN c.tasks
  <2>1. c.tasks[t] \in TaskRecord
    BY <1>1 DEF CoordinatorType, IsMap
  <2>2. CASE t \in EligibleSubscribers(c, f)
    <3>1. t1[t] = [c.tasks[t] EXCEPT !.state = "Running"]
      BY <1>5, <2>2
    <3>2. IsEligible(c.tasks[t])
      BY <2>2 DEF EligibleSubscribers, EligibleTasks
    <3> QED BY <2>1, <2>2, <3>1, <3>2 DEF TaskRecord, IsEligible
  <2>3. CASE t \notin EligibleSubscribers(c, f)
    BY <1>5, <2>1, <2>3
  <2> QED BY <2>2, <2>3
<1>9. EligibleTasks(d) = EligibleTasks(c)
  BY <1>5, <1>6, <1>8 DEF EligibleTasks
<1>10. \A g \in DOMAIN c.flights : Observed(d, g) <=> Observed(c, g)
  BY <1>6, <1>7, <1>9 DEF Observed
<1>11. CoordinatorType(d)
  <2>1. IsMap(v, Nat, FlightRecord)
    BY <1>1, <1>3, <1>7 DEF CoordinatorType, IsMap
  <2>2. IsMap(t1, Nat, TaskRecord)
    BY <1>1, <1>5, <1>8 DEF CoordinatorType, IsMap
  <2> QED BY <1>1, <1>4, <1>6, <2>1, <2>2 DEF CoordinatorType
<1>12. Accounted(d)
  BY <1>1, <1>5, <1>6 DEF Accounted
<1>13. Mutual(d)
  BY <1>1, <1>3, <1>5, <1>6, <1>7, <1>8 DEF Mutual
<1>14. StatesAgree(d)
  <2>1. ASSUME NEW t \in EligibleTasks(c)
        PROVE  t1[t].state = v[t1[t].flight].state
    <3>1. t \in DOMAIN c.tasks /\ c.tasks[t].flight \in DOMAIN c.flights
          /\ c.tasks[t].state = c.flights[c.tasks[t].flight].state
          /\ (t \in c.flights[f].subscribers <=> c.tasks[t].flight = f)
      BY <1>1, <2>1 DEF Mutual, EligibleTasks, StatesAgree
    <3>2. t \in EligibleSubscribers(c, f) <=> c.tasks[t].flight = f
      BY <2>1, <3>1 DEF EligibleSubscribers
    <3> QED BY <1>7, <1>8, <3>1, <3>2
  <2> QED BY <1>6, <1>9, <2>1 DEF StatesAgree
<1>15. FlagExact(d)
  BY <1>1, <1>3, <1>6, <1>7, <1>10 DEF FlagExact
<1>16. IndexExact(d)
  BY <1>1, <1>3, <1>6, <1>7 DEF IndexExact
<1>17. GrantsNothing(c, d)
  BY <1>6, <1>8, <1>9 DEF GrantsNothing, EligibleTasks
<1>18. FlagSound(d)
  BY <1>15 DEF FlagExact, FlagSound
<1>19. \A r \in Resources :
         RunningFlights(d, r) = IF r = ResourceOf[c.flights[f].key]
                                THEN RunningFlights(c, r) \cup {f}
                                ELSE RunningFlights(c, r)
  BY <1>3, <1>6, <1>7 DEF RunningFlights
<1>20. Sound(d)
  BY <1>11, <1>12, <1>13, <1>14, <1>15, <1>16, <1>18 DEF Sound, Consistent
<1> QED BY <1>4, <1>6, <1>17, <1>19, <1>20 DEF d

\* report_progress writes progress and nothing else.
LEMMA ReportProgressSound ==
  ASSUME NEW c, Sound(c), NEW f, NEW p \in Progress
  PROVE  LET d == ReportProgress(c, f, p) IN
         Sound(d) /\ GrantsNothing(c, d) /\ SameSlots(c, d)
<1> DEFINE subscribers == c.flights[f].subscribers \cap DOMAIN c.tasks
           regressed == {t \in subscribers : /\ c.tasks[t].progress # NoProgress
                                             /\ ~Follows(p, c.tasks[t].progress)}
           written == {t \in subscribers : \A r \in regressed : t < r}
           t1 == [t \in DOMAIN c.tasks |->
                   IF t \in written THEN [c.tasks[t] EXCEPT !.progress = p]
                   ELSE c.tasks[t]]
           d == ReportProgress(c, f, p)
<1>1. /\ IsStruct(c) /\ CoordinatorType(c) /\ Accounted(c) /\ Mutual(c)
      /\ StatesAgree(c) /\ FlagExact(c) /\ IndexExact(c)
  BY DEF Sound, Consistent, CoordinatorType
<1>2. d = [c EXCEPT !.tasks = t1]
  BY DEF ReportProgress
<1> HIDE DEF written
<1>3. /\ t1 = [t \in DOMAIN t1 |-> t1[t]] /\ DOMAIN t1 = DOMAIN c.tasks
      /\ \A t \in DOMAIN c.tasks :
           t1[t] = IF t \in written THEN [c.tasks[t] EXCEPT !.progress = p]
                   ELSE c.tasks[t]
  OBVIOUS
<1> HIDE DEF t1, d, regressed, subscribers
<1>4. /\ IsStruct(d) /\ d.tasks = t1
      /\ d.sessions = c.sessions /\ d.flights = c.flights
      /\ d.single_flights = c.single_flights
      /\ d.running_by_resource = c.running_by_resource /\ d.terminal = c.terminal
      /\ d.next_task = c.next_task /\ d.next_flight = c.next_flight
  <2>1. d = Struct(c.sessions, t1, c.flights, c.single_flights,
                   c.running_by_resource, c.terminal,
                   c.next_task, c.next_flight)
    BY <1>1, <1>2, PutTasks
  <2> QED BY <2>1, StructFields
<1>5. \A t \in DOMAIN c.tasks :
        /\ t1[t] \in TaskRecord
        /\ t1[t].flight = c.tasks[t].flight
        /\ t1[t].owner = c.tasks[t].owner
        /\ t1[t].generation = c.tasks[t].generation
        /\ t1[t].state = c.tasks[t].state
  <2> TAKE t \in DOMAIN c.tasks
  <2>1. c.tasks[t] \in TaskRecord
    BY <1>1 DEF CoordinatorType, IsMap
  <2>2. CASE t \in written
    <3>1. t1[t] = [c.tasks[t] EXCEPT !.progress = p]
      BY <1>3, <2>2
    <3> QED BY <2>1, <3>1 DEF TaskRecord
  <2>3. CASE t \notin written
    BY <1>3, <2>1, <2>3
  <2> QED BY <2>2, <2>3
<1>6. EligibleTasks(d) = EligibleTasks(c)
  BY <1>3, <1>4, <1>5 DEF EligibleTasks, IsEligible
<1>7. CoordinatorType(d)
  <2>1. IsMap(t1, Nat, TaskRecord)
    BY <1>1, <1>3, <1>5 DEF CoordinatorType, IsMap
  <2> QED BY <1>1, <1>4, <2>1 DEF CoordinatorType
<1>8. Accounted(d) /\ Mutual(d)
  BY <1>1, <1>3, <1>4, <1>5 DEF Accounted, Mutual
<1>9. StatesAgree(d)
  BY <1>1, <1>4, <1>5, <1>6 DEF StatesAgree, EligibleTasks
<1>10. FlagExact(d) /\ IndexExact(d)
  BY <1>1, <1>4, <1>6 DEF FlagExact, IndexExact, Observed
<1>11. GrantsNothing(c, d)
  BY <1>4, <1>5, <1>6 DEF GrantsNothing, EligibleTasks
<1>12. FlagSound(d)
  BY <1>10 DEF FlagExact, FlagSound
<1>13. SameSlots(c, d)
  BY <1>4 DEF SameSlots, RunningFlights
<1> QED BY <1>7, <1>8, <1>9, <1>10, <1>11, <1>12, <1>13 DEF Sound, Consistent, d

\* complete retires the flight with all its subscribers and gives its slot back.
LEMMA CompleteFlightSound ==
  ASSUME NEW c, Sound(c), NEW f \in DOMAIN c.flights, NEW outcome \in Outcomes, NEW now
  PROVE  LET d == CompleteFlight(c, f, outcome, now) IN
         /\ Sound(d) /\ GrantsNothing(c, d)
         /\ \A r \in Resources :
              /\ RunningFlights(d, r) = RunningFlights(c, r) \ {f}
              /\ d.running_by_resource[r] =
                   IF /\ r = ResourceOf[c.flights[f].key]
                      /\ c.running_by_resource[r] > 0
                   THEN c.running_by_resource[r] - 1 ELSE c.running_by_resource[r]
<1> DEFINE final == [t \in DOMAIN c.tasks |->
                      IF t \in Accepted(c, f, now) THEN outcome ELSE "Rejected"]
           e == RetireFlights(c, {f}, final)
           r1 == [x \in Resources |->
                    IF x = ResourceOf[c.flights[f].key] /\ e.running_by_resource[x] > 0
                    THEN e.running_by_resource[x] - 1 ELSE e.running_by_resource[x]]
           d == CompleteFlight(c, f, outcome, now)
<1>1. d = [e EXCEPT !.running_by_resource = r1]
  BY DEF CompleteFlight, ReleaseSlot
<1>2. \A t \in DOMAIN c.tasks : final[t] \in Final
  BY DEF Final
<1> HIDE DEF final
<1>3. /\ Sound(e) /\ GrantsNothing(c, e)
      /\ e.running_by_resource = c.running_by_resource
      /\ \A r \in Resources : RunningFlights(e, r) = RunningFlights(c, r) \ {f}
  <2> DEFINE F == {f}
  <2>1. F \subseteq DOMAIN c.flights
    OBVIOUS
  <2> HIDE DEF F
  <2>2. LET x == RetireFlights(c, F, final) IN
        /\ Sound(x) /\ GrantsNothing(c, x)
        /\ x.running_by_resource = c.running_by_resource
        /\ \A r \in Resources : RunningFlights(x, r) = RunningFlights(c, r) \ F
    BY <1>2, <2>1, RetireFlightsSound
  <2> QED BY <2>2 DEF F
<1> HIDE DEF e
<1>4. /\ r1 \in [Resources -> Nat]
      /\ \A r \in Resources : r1[r] =
           IF /\ r = ResourceOf[c.flights[f].key]
              /\ c.running_by_resource[r] > 0
           THEN c.running_by_resource[r] - 1 ELSE c.running_by_resource[r]
  BY <1>3 DEF Sound, Consistent, CoordinatorType
<1> HIDE DEF r1, d
<1>5. /\ IsStruct(e) /\ CoordinatorType(e) /\ Accounted(e) /\ Mutual(e)
      /\ StatesAgree(e) /\ FlagSound(e) /\ FlagExact(e) /\ IndexExact(e)
  BY <1>3 DEF Sound, Consistent, CoordinatorType
<1>6. /\ IsStruct(d) /\ d.running_by_resource = r1 /\ d.tasks = e.tasks
      /\ d.flights = e.flights /\ d.sessions = e.sessions
      /\ d.single_flights = e.single_flights /\ d.terminal = e.terminal
      /\ d.next_task = e.next_task /\ d.next_flight = e.next_flight
  <2>1. d = Struct(e.sessions, e.tasks, e.flights, e.single_flights, r1,
                   e.terminal, e.next_task, e.next_flight)
    BY <1>1, <1>5, PutSlots
  <2> QED BY <2>1, StructFields
<1>7. EligibleTasks(d) = EligibleTasks(e)
  BY <1>6 DEF EligibleTasks
<1>8. CoordinatorType(d)
  BY <1>4, <1>5, <1>6 DEF CoordinatorType
<1>9. Accounted(d) /\ Mutual(d)
  BY <1>5, <1>6 DEF Accounted, Mutual
<1>10. StatesAgree(d) /\ FlagSound(d) /\ FlagExact(d) /\ IndexExact(d)
  BY <1>5, <1>6, <1>7 DEF StatesAgree, FlagSound, FlagExact, IndexExact, Observed
<1>11. GrantsNothing(c, d)
  BY <1>3, <1>6, <1>7 DEF GrantsNothing
<1>12. \A r \in Resources : RunningFlights(d, r) = RunningFlights(c, r) \ {f}
  BY <1>3, <1>6 DEF RunningFlights
<1>13. Sound(d)
  BY <1>8, <1>9, <1>10 DEF Sound, Consistent
<1> QED BY <1>4, <1>6, <1>11, <1>12, <1>13 DEF d

\* A new coordinator has no task to account for.
LEMMA NewCoordinatorSound == Sound(NewCoordinator) /\ EligibleCurrent(NewCoordinator)
<1> DEFINE slots == [r \in Resources |-> 0]
           d == NewCoordinator
<1>1. slots \in [Resources -> Nat]
  OBVIOUS
<1> HIDE DEF slots
<1>2. d = Struct(NoEntries, NoEntries, NoEntries, NoEntries, slots, NoEntries, 1, 1)
  BY DEF NewCoordinator, Struct, slots
<1> HIDE DEF d
<1>3. /\ IsStruct(d) /\ d.running_by_resource = slots /\ d.tasks = NoEntries
      /\ d.flights = NoEntries /\ d.sessions = NoEntries
      /\ d.single_flights = NoEntries /\ d.terminal = NoEntries
      /\ d.next_task = 1 /\ d.next_flight = 1
  BY <1>2, StructFields
<1>4. DOMAIN NoEntries = {} /\ NoEntries = [x \in DOMAIN NoEntries |-> NoEntries[x]]
  BY DEF NoEntries
<1>5. CoordinatorType(d)
  BY <1>1, <1>3, <1>4 DEF CoordinatorType, IsMap
<1>6. EligibleTasks(d) = {}
  BY <1>3, <1>4 DEF EligibleTasks
<1>7. Accounted(d)
  BY <1>3, <1>4 DEF Accounted
<1>8. Mutual(d) /\ StatesAgree(d) /\ FlagExact(d) /\ FlagSound(d) /\ IndexExact(d)
  BY <1>3, <1>4, <1>6 DEF Mutual, StatesAgree, FlagExact, FlagSound, IndexExact
<1>9. EligibleCurrent(d)
  BY <1>6 DEF EligibleCurrent
<1> QED BY <1>5, <1>7, <1>8, <1>9 DEF Sound, Consistent, d

-----------------------------------------------------------------------------
(* Slots                                                                   *)

\* The running flights of a resource can be counted, and the counter has them.
Slots(c) == /\ \A r \in Resources : IsFiniteSet(RunningFlights(c, r))
            /\ SlotsExact(c)

\* A new coordinator runs nothing and counts nothing.
LEMMA NewCoordinatorSlots == Slots(NewCoordinator)
<1> DEFINE d == NewCoordinator
<1>1. /\ d.flights = NoEntries
      /\ \A r \in Resources : d.running_by_resource[r] = 0
  BY DEF NewCoordinator
<1> HIDE DEF d
<1>2. DOMAIN NoEntries = {}
  BY DEF NoEntries
<1>3. \A r : RunningFlights(d, r) = {}
  BY <1>1, <1>2 DEF RunningFlights
<1>4. IsFiniteSet({}) /\ Cardinality({}) = 0
  BY FS_EmptySet
<1>5. \A r \in DOMAIN ResourceLimits : ResourceLimits[r] \in Nat
  BY ConfigAssumption
<1> QED BY <1>1, <1>3, <1>4, <1>5 DEF Slots, SlotsExact, d

\* The slot counts stay exact when neither they nor the running flights change.
LEMMA SameSlotsKept ==
  ASSUME NEW c, NEW d, Slots(c), SameSlots(c, d)
  PROVE  Slots(d)
BY DEF Slots, SlotsExact, SameSlots

\* dispatch_next starts a flight only below its resource's limit, and counts it.
LEMMA DispatchFlightSlots ==
  ASSUME NEW c, Sound(c), Slots(c), NEW f \in Dispatchable(c)
  PROVE  Slots(DispatchFlight(c, f))
<1> DEFINE d == DispatchFlight(c, f)
           R == ResourceOf[c.flights[f].key]
<1>1. /\ f \in DOMAIN c.flights /\ c.flights[f].state = "Queued"
      /\ R \in DOMAIN ResourceLimits
      /\ c.running_by_resource[R] < ResourceLimits[R]
  BY DEF Dispatchable, QueuedFlights, ResourceHasCapacity
<1>2. \A r \in Resources :
        IF r = R
        THEN /\ RunningFlights(d, r) = RunningFlights(c, r) \cup {f}
             /\ d.running_by_resource[r] = c.running_by_resource[r] + 1
        ELSE /\ RunningFlights(d, r) = RunningFlights(c, r)
             /\ d.running_by_resource[r] = c.running_by_resource[r]
  BY <1>1, DispatchFlightSound
<1> HIDE DEF d, R
<1>3. ASSUME NEW r \in Resources
      PROVE  /\ IsFiniteSet(RunningFlights(d, r))
             /\ d.running_by_resource[r] = Cardinality(RunningFlights(d, r))
             /\ r \in DOMAIN ResourceLimits =>
                  d.running_by_resource[r] <= ResourceLimits[r]
             /\ r \notin DOMAIN ResourceLimits => d.running_by_resource[r] = 0
  <2>1. /\ IsFiniteSet(RunningFlights(c, r)) /\ c.running_by_resource[r] \in Nat
        /\ c.running_by_resource[r] = Cardinality(RunningFlights(c, r))
        /\ r \in DOMAIN ResourceLimits =>
             /\ c.running_by_resource[r] <= ResourceLimits[r]
             /\ ResourceLimits[r] \in Nat
        /\ r \notin DOMAIN ResourceLimits => c.running_by_resource[r] = 0
    BY ConfigAssumption
       DEF Slots, SlotsExact, Sound, Consistent, CoordinatorType
  <2>2. CASE r = R
    <3>1. f \notin RunningFlights(c, r)
      BY <1>1 DEF RunningFlights
    <3>2. /\ IsFiniteSet(RunningFlights(c, r) \cup {f})
          /\ Cardinality(RunningFlights(c, r) \cup {f})
               = Cardinality(RunningFlights(c, r)) + 1
      BY <2>1, <3>1, FS_AddElement
    <3>3. /\ RunningFlights(d, r) = RunningFlights(c, r) \cup {f}
          /\ d.running_by_resource[r] = c.running_by_resource[r] + 1
      BY <1>2, <2>2
    <3>4. r \in DOMAIN ResourceLimits /\ c.running_by_resource[r] < ResourceLimits[r]
      BY <1>1, <2>2
    <3>5. c.running_by_resource[r] + 1 <= ResourceLimits[r]
      BY <2>1, <3>4
    <3> QED BY <2>1, <3>2, <3>3, <3>4, <3>5
  <2>3. CASE r # R
    BY <1>2, <2>1, <2>3
  <2> QED BY <2>2, <2>3
<1> QED BY <1>3 DEF Slots, SlotsExact, d

\* complete gives back exactly the slot of the flight it removes: the counter
\* is not zero, so the saturating subtraction never saturates.
LEMMA CompleteFlightSlots ==
  ASSUME NEW c, Sound(c), Slots(c), NEW f, IsRunning(c, f),
         NEW outcome \in Outcomes, NEW now
  PROVE  Slots(CompleteFlight(c, f, outcome, now))
<1> DEFINE d == CompleteFlight(c, f, outcome, now)
           R == ResourceOf[c.flights[f].key]
<1>1. f \in DOMAIN c.flights /\ c.flights[f].state = "Running"
  BY DEF IsRunning
<1>2. \A r \in Resources :
        /\ RunningFlights(d, r) = RunningFlights(c, r) \ {f}
        /\ d.running_by_resource[r] =
             IF r = R /\ c.running_by_resource[r] > 0
             THEN c.running_by_resource[r] - 1 ELSE c.running_by_resource[r]
  BY <1>1, CompleteFlightSound
<1>3. \A r \in Resources : f \in RunningFlights(c, r) <=> r = R
  BY <1>1 DEF RunningFlights
<1> HIDE DEF d, R
<1>4. ASSUME NEW r \in Resources
      PROVE  /\ IsFiniteSet(RunningFlights(d, r))
             /\ d.running_by_resource[r] = Cardinality(RunningFlights(d, r))
             /\ r \in DOMAIN ResourceLimits =>
                  d.running_by_resource[r] <= ResourceLimits[r]
             /\ r \notin DOMAIN ResourceLimits => d.running_by_resource[r] = 0
  <2>1. /\ IsFiniteSet(RunningFlights(c, r)) /\ c.running_by_resource[r] \in Nat
        /\ c.running_by_resource[r] = Cardinality(RunningFlights(c, r))
        /\ r \in DOMAIN ResourceLimits =>
             /\ c.running_by_resource[r] <= ResourceLimits[r]
             /\ ResourceLimits[r] \in Nat
        /\ r \notin DOMAIN ResourceLimits => c.running_by_resource[r] = 0
    BY ConfigAssumption
       DEF Slots, SlotsExact, Sound, Consistent, CoordinatorType
  <2>2. /\ IsFiniteSet(RunningFlights(c, r) \ {f})
        /\ Cardinality(RunningFlights(c, r) \ {f})
             = IF f \in RunningFlights(c, r) THEN Cardinality(RunningFlights(c, r)) - 1
               ELSE Cardinality(RunningFlights(c, r))
    BY <2>1, FS_RemoveElement
  <2>3. f \in RunningFlights(c, r) => c.running_by_resource[r] > 0
    <3>1. RunningFlights(c, r) # {} => Cardinality(RunningFlights(c, r)) # 0
      BY <2>1, FS_EmptySet
    <3> QED BY <2>1, <3>1
  <2>4. CASE r = R
    <3>1. f \in RunningFlights(c, r)
      BY <1>3, <2>4
    <3>2. d.running_by_resource[r] = c.running_by_resource[r] - 1
      BY <1>2, <2>3, <2>4, <3>1
    <3>3. /\ RunningFlights(d, r) = RunningFlights(c, r) \ {f}
          /\ Cardinality(RunningFlights(d, r)) = c.running_by_resource[r] - 1
      BY <1>2, <2>1, <2>2, <3>1
    <3>4. r \in DOMAIN ResourceLimits
      BY <2>1, <2>3, <3>1
    <3>5. c.running_by_resource[r] - 1 <= ResourceLimits[r]
      BY <2>1, <3>4
    <3> QED BY <2>2, <3>2, <3>3, <3>4, <3>5
  <2>5. CASE r # R
    BY <1>2, <1>3, <2>1, <2>2, <2>5
  <2> QED BY <2>4, <2>5
<1> QED BY <1>4 DEF Slots, SlotsExact, d

=============================================================================
