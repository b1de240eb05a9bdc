------------------------ MODULE TaskCoordinatorProofs ------------------------
(***************************************************************************)
(* The invariants of TaskCoordinator for every set of owners, sessions,    *)
(* recipes and resources, every configuration and every bound.  Each       *)
(* method's effect on the struct is a lemma of CoordinatorProofs; what is  *)
(* left is one step per action.                                            *)
(***************************************************************************)
EXTENDS TaskCoordinator, AdmissionProofs

\* The inductive invariant.  SubscriptionsAreMutual, CancelledIffUnobserved and
\* IndexedIffShareable hold one another up: a join needs the index to name a
\* live flight, a retirement needs the subscribers to be live tasks, and the
\* index is exact only because the flags are.
Inv == /\ Sound(coordinator)
       /\ Slots(coordinator)
       /\ EligibleCurrent(coordinator)
       /\ clock \in Nat
       /\ receipts \subseteq ReceiptRecord
       /\ published \subseteq Nat

\* A new coordinator satisfies the inductive invariant.
LEMMA InitInv == Init => Inv
BY NewCoordinatorSound, NewCoordinatorSlots DEF Init, Inv

\* Every operation on the adapters' side starts from the expired coordinator.
LEMMA ExpiredSound ==
  ASSUME Inv
  PROVE  Sound(Expired) /\ EligibleCurrent(Expired) /\ Slots(Expired)
<1>1. Sound(coordinator) /\ EligibleCurrent(coordinator) /\ Slots(coordinator)
  BY DEF Inv
<1>2. /\ Sound(Expired) /\ GrantsNothing(coordinator, Expired)
      /\ SameSlots(coordinator, Expired)
  BY <1>1, ExpireSound DEF Expired
<1>3. EligibleCurrent(Expired)
  BY <1>1, <1>2, CurrentIfNothingGranted
<1>4. Slots(Expired)
  BY <1>1, <1>2, SameSlotsKept
<1> QED BY <1>2, <1>3, <1>4

\* What a requester submits is a TaskSpec.
LEMMA SpecIsTaskSpec ==
  ASSUME NEW spec \in Specs
  PROVE  spec \in TaskSpec
<1>1. /\ 0 .. MaxGeneration \subseteq Nat
      /\ Priorities \subseteq Nat /\ Deadlines \subseteq Deadline
  BY InputAssumption
<1> QED BY <1>1 DEF Specs, TaskSpec

\* cancel_task and cancel_owner preserve the inductive invariant.
LEMMA CancelInv ==
  ASSUME Inv, NEW S, coordinator' = Cancel(coordinator, S, "Requested"),
         UNCHANGED <<clock, receipts, published>>
  PROVE  Inv'
<1>1. /\ Sound(coordinator') /\ GrantsNothing(coordinator, coordinator')
      /\ SameSlots(coordinator, coordinator')
  BY CancelSound DEF Inv, Sound, Reasons
<1>2. EligibleCurrent(coordinator')
  BY <1>1, CurrentIfNothingGranted DEF Inv
<1>3. Slots(coordinator')
  BY <1>1, SameSlotsKept DEF Inv
<1> QED BY <1>1, <1>2, <1>3 DEF Inv

\* complete preserves it, and the receipts it hands out are well typed.
LEMMA CompleteInv ==
  ASSUME Inv, NEW f, Complete(f)
  PROVE  Inv'
<1>1. Sound(Expired) /\ EligibleCurrent(Expired) /\ Slots(Expired)
  BY ExpiredSound
<1> DEFINE e == Expired
<1> HIDE DEF e
<1>2. Sound(e) /\ EligibleCurrent(e) /\ Slots(e)
  BY <1>1 DEF e
<1>3. /\ IsRunning(e, f)
      /\ \E outcome \in Outcome : coordinator' = CompleteFlight(e, f, outcome, clock)
      /\ receipts' = receipts \cup {Receipt(e, t) : t \in Accepted(e, f, clock)}
      /\ clock' = clock /\ published' = published
  BY DEF Complete, e
<1>4. PICK outcome \in Outcome : coordinator' = CompleteFlight(e, f, outcome, clock)
  BY <1>3
<1>5. f \in DOMAIN e.flights /\ outcome \in Outcomes
  BY <1>3, InputAssumption DEF IsRunning
<1>6. Sound(coordinator') /\ GrantsNothing(e, coordinator')
  BY <1>2, <1>4, <1>5, CompleteFlightSound
<1>7. EligibleCurrent(coordinator')
  BY <1>2, <1>6, CurrentIfNothingGranted
<1>8. receipts' \subseteq ReceiptRecord
  <2>1. ASSUME NEW t \in Accepted(e, f, clock)
        PROVE  Receipt(e, t) \in ReceiptRecord
    <3>1. t \in DOMAIN e.tasks /\ t \in Nat /\ e.tasks[t] \in TaskRecord
      BY <1>2, <2>1 DEF Accepted, Sound, Consistent, CoordinatorType, IsMap
    <3> QED BY <3>1 DEF TaskRecord, Receipt, ReceiptRecord
  <2> QED BY <1>3, <2>1 DEF Inv
<1>9. Slots(coordinator')
  BY <1>2, <1>3, <1>4, <1>5, CompleteFlightSlots
<1> QED BY <1>3, <1>6, <1>7, <1>8, <1>9 DEF Inv

\* Every method, and every step of an adapter or the clock, preserves it.
LEMMA NextInv == Inv /\ [Next]_vars => Inv'
<1> SUFFICES ASSUME Inv, [Next]_vars PROVE Inv'
  OBVIOUS
<1>0. Sound(Expired) /\ EligibleCurrent(Expired) /\ Slots(Expired)
  BY ExpiredSound
<1>1. ASSUME NEW s \in Sessions, NEW g \in 0 .. MaxGeneration, Observe(s, g)
      PROVE  Inv'
  BY <1>1, ObserveSessionSound, SameSlotsKept DEF Inv, Observe
<1>2. ASSUME NEW s \in ClosableSessions, Close(s)
      PROVE  Inv'
  BY <1>2, CloseSessionSound, SameSlotsKept DEF Inv, Close
<1>3. ASSUME NEW spec \in Specs, SubmitJoining(spec)
      PROVE  Inv'
  <2>1. PICK f \in DOMAIN Expired.flights :
          MayJoin(Expired, spec, f) /\ coordinator' = JoinFlight(Expired, spec, f)
    BY <1>3 DEF SubmitJoining
  <2>2. Admissible(Expired, spec, clock) /\ spec \in TaskSpec
    BY <1>3, SpecIsTaskSpec DEF SubmitJoining
  <2>3. /\ Sound(coordinator') /\ EligibleCurrent(coordinator')
        /\ Slots(coordinator')
    BY <1>0, <2>1, <2>2, JoinFlightSound, SameSlotsKept
  <2> QED BY <1>3, <2>3 DEF Inv, SubmitJoining
<1>4. ASSUME NEW spec \in Specs, SubmitOpening(spec)
      PROVE  Inv'
  <2>1. /\ Admissible(Expired, spec, clock) /\ MayOpen(Expired, spec)
        /\ coordinator' = OpenFlight(Expired, spec, clock)
        /\ spec \in TaskSpec /\ clock \in Nat
    BY <1>4, SpecIsTaskSpec DEF SubmitOpening, Inv
  <2>2. /\ Sound(coordinator') /\ EligibleCurrent(coordinator')
        /\ Slots(coordinator')
    BY <1>0, <2>1, OpenFlightSound, SameSlotsKept
  <2> QED BY <1>4, <2>2 DEF Inv, SubmitOpening
<1>5. ASSUME NEW spec \in Specs, SubmitWithoutEffect(spec)
      PROVE  Inv'
  BY <1>0, <1>5 DEF Inv, SubmitWithoutEffect
<1>6. ASSUME NEW t \in DOMAIN coordinator.tasks, CancelTask(t)
      PROVE  Inv'
  BY <1>6, CancelInv DEF CancelTask
<1>7. ASSUME NEW o \in Owners, CancelOwner(o)
      PROVE  Inv'
  BY <1>7, CancelInv DEF CancelOwner
<1>8. CASE Dispatch
  <2>1. PICK f \in Selected(Expired) : coordinator' = DispatchFlight(Expired, f)
    BY <1>8 DEF Dispatch
  <2>2. f \in DOMAIN Expired.flights
    BY <2>1 DEF Selected, Dispatchable, QueuedFlights
  <2>3. Sound(coordinator') /\ GrantsNothing(Expired, coordinator')
    BY <1>0, <2>1, <2>2, DispatchFlightSound
  <2>4. EligibleCurrent(coordinator')
    BY <1>0, <2>3, CurrentIfNothingGranted
  <2>5. f \in Dispatchable(Expired)
    BY <2>1 DEF Selected
  <2>6. Slots(coordinator')
    BY <1>0, <2>1, <2>5, DispatchFlightSlots
  <2> QED BY <1>8, <2>3, <2>4, <2>6 DEF Inv, Dispatch
<1>9. CASE DispatchNothing
  BY <1>0, <1>9 DEF Inv, DispatchNothing
<1>10. ASSUME NEW f \in DOMAIN coordinator.flights, NEW p \in ProgressReports,
              Report(f, p)
       PROVE  Inv'
  <2>1. p \in Progress
    BY InputAssumption
  <2>2. /\ Sound(coordinator') /\ GrantsNothing(coordinator, coordinator')
        /\ SameSlots(coordinator, coordinator')
    BY <1>10, <2>1, ReportProgressSound DEF Inv, Report
  <2>3. EligibleCurrent(coordinator') /\ Slots(coordinator')
    BY <2>2, CurrentIfNothingGranted, SameSlotsKept DEF Inv
  <2> QED BY <1>10, <2>2, <2>3 DEF Inv, Report
<1>11. ASSUME NEW f \in DOMAIN coordinator.flights, Complete(f)
       PROVE  Inv'
  BY <1>11, CompleteInv
<1>12. ASSUME NEW r \in receipts, Publish(r)
       PROVE  Inv'
  BY <1>12 DEF Inv, Publish, ReceiptRecord
<1>13. ASSUME NEW r \in receipts, Discard(r)
       PROVE  Inv'
  BY <1>13 DEF Inv, Discard
<1>14. CASE Tick
  BY <1>14 DEF Inv, Tick
<1>15. CASE UNCHANGED vars
  BY <1>15 DEF Inv, vars
<1> QED BY <1>1, <1>2, <1>3, <1>4, <1>5, <1>6, <1>7, <1>8, <1>9, <1>10, <1>11,
           <1>12, <1>13, <1>14, <1>15 DEF Next

\* The inductive invariant holds in every reachable state.
LEMMA SpecInv == Spec => []Inv
BY InitInv, NextInv, PTL DEF Spec

-----------------------------------------------------------------------------
(* The theorems                                                            *)

\* Whatever is submitted, cancelled, expired, dispatched, reported and
\* completed, and in whatever order, the fields of the coordinator keep the
\* types and the shape their Rust declarations give them.
THEOREM TypeCorrect == Spec => []TypeOK
<1>1. Inv => TypeOK
  BY DEF Inv, Sound, Consistent, TypeOK
<1> QED BY <1>1, SpecInv, PTL

\* submit, complete and the expiry of abandoned work neither lose a task nor
\* retire one twice.
THEOREM TasksAccountedFor == Spec => []EveryTaskIsAccountedFor
<1>1. Inv => EveryTaskIsAccountedFor
  BY DEF Inv, Sound, Consistent, EveryTaskIsAccountedFor
<1> QED BY <1>1, SpecInv, PTL

\* The task map and the subscriber lists never disagree, so no method finds a
\* flight without its tasks or a task without its flight.
THEOREM SubscriptionsMutual == Spec => []SubscriptionsAreMutual
<1>1. Inv => SubscriptionsAreMutual
  BY DEF Inv, Sound, Consistent, SubscriptionsAreMutual
<1> QED BY <1>1, SpecInv, PTL

\* A task whose session advanced or was closed is revoked in the same call: no
\* eligible task holds an old generation.
THEOREM EligibleTasksCurrent == Spec => []EligibleTasksAreCurrent
<1>1. Inv => EligibleTasksAreCurrent
  BY DEF Inv, Sound, Consistent, EligibleTasksAreCurrent
<1> QED BY <1>1, SpecInv, PTL

\* The flag a worker polls is up exactly when nobody wants its result.
THEOREM CancellationExact == Spec => []CancelledIffUnobserved
<1>1. Inv => CancelledIffUnobserved
  BY DEF Inv, Sound, CancelledIffUnobserved
<1> QED BY <1>1, SpecInv, PTL

\* The lookup that lets requests share a computation never meets a flight that
\* is gone or cancelling, and never misses one that can be shared.
THEOREM IndexIsExact == Spec => []IndexedIffShareable
<1>1. Inv => IndexedIffShareable
  BY DEF Inv, Sound, Consistent, IndexedIffShareable
<1> QED BY <1>1, SpecInv, PTL

\* No path through submission, cancellation, expiry or completion leaks a slot,
\* releases one twice, or runs more flights than a resource's limit.
THEOREM SlotsMatch == Spec => []SlotsMatchRunningFlights
<1>1. Inv => SlotsMatchRunningFlights
  BY DEF Inv, Slots, SlotsMatchRunningFlights
<1> QED BY <1>1, SpecInv, PTL

-----------------------------------------------------------------------------
(* What one step does to the coordinator                                   *)

\* expire, as every other method meets its result.
LEMMA ExpiredLeaves ==
  ASSUME Inv
  PROVE  /\ \E F \in SUBSET QueuedFlights(coordinator) : Leaves(coordinator, Expired, F)
         /\ EligibleTasks(Expired)
              \subseteq EligibleTasks(coordinator) \ Overdue(coordinator, clock)
         /\ Expired.sessions = coordinator.sessions
<1>1. Sound(coordinator) /\ Consistent(coordinator)
  BY DEF Inv, Sound
<1> QED BY <1>1, ExpireLeaves, ExpireSound DEF Expired, GrantsNothing

\* A step cancels and retires, or admits one request, or starts one flight, or
\* reports on one flight.
Removes == \E F : Leaves(coordinator, coordinator', F)

AdmitsOne ==
  /\ \E spec \in TaskSpec : /\ Admissible(Expired, spec, clock)
                            /\ \E f : /\ MayAdmit(Expired, spec, f)
                                     /\ Admits(Expired, coordinator', spec, f)
  /\ UNCHANGED <<clock, receipts, published>>

StartsOne == \E f \in Selected(Expired) : Starts(Expired, coordinator', f)

ReportsOne == \E f \in DOMAIN coordinator.flights, p \in Progress :
                Reports(coordinator, coordinator', f, p)

\* Every step is of one of these kinds.
LEMMA StepKind ==
  ASSUME Inv, [Next]_vars
  PROVE  Removes \/ AdmitsOne \/ StartsOne \/ ReportsOne
<1>1. /\ Sound(coordinator) /\ CoordinatorType(coordinator)
      /\ Sound(Expired) /\ clock \in Nat
  BY ExpiredSound DEF Inv, Sound, Consistent
<1>2. ASSUME coordinator' = coordinator
      PROVE  Removes
  <2>1. Leaves(coordinator, coordinator', {})
    BY <1>2 DEF Leaves
  <2> QED BY <2>1 DEF Removes
<1>3. ASSUME coordinator' = Expired
      PROVE  Removes
  BY <1>3, ExpiredLeaves DEF Removes
<1>4. ASSUME NEW S, coordinator' = Cancel(coordinator, S, "Requested")
      PROVE  Removes
  BY <1>1, <1>4, CancelLeaves DEF Removes, Reasons
<1>5. ASSUME NEW s \in Sessions, NEW g \in 0 .. MaxGeneration, Observe(s, g)
      PROVE  Removes
  BY <1>1, <1>5, ObserveSessionLeaves DEF Observe, Removes
<1>6. ASSUME NEW s \in ClosableSessions, Close(s)
      PROVE  Removes
  BY <1>1, <1>6, CloseSessionLeaves DEF Close, Removes
<1>7. ASSUME NEW spec \in Specs, SubmitJoining(spec)
      PROVE  AdmitsOne
  <2>1. PICK f \in DOMAIN Expired.flights :
          MayJoin(Expired, spec, f) /\ coordinator' = JoinFlight(Expired, spec, f)
    BY <1>7 DEF SubmitJoining
  <2>2. Admissible(Expired, spec, clock) /\ spec \in TaskSpec
    BY <1>7, SpecIsTaskSpec DEF SubmitJoining
  <2>3. Admits(Expired, coordinator', spec, f)
    BY <1>1, <2>1, <2>2, JoinFlightAdmits
  <2>4. MayAdmit(Expired, spec, f)
    BY <2>1 DEF MayAdmit
  <2> QED BY <1>7, <2>2, <2>3, <2>4 DEF AdmitsOne, SubmitJoining
<1>8. ASSUME NEW spec \in Specs, SubmitOpening(spec)
      PROVE  AdmitsOne
  <2>1. /\ Admissible(Expired, spec, clock) /\ MayOpen(Expired, spec)
        /\ coordinator' = OpenFlight(Expired, spec, clock) /\ spec \in TaskSpec
    BY <1>8, SpecIsTaskSpec DEF SubmitOpening
  <2>2. /\ Expired.next_flight \notin DOMAIN Expired.flights
        /\ Admits(Expired, coordinator', spec, Expired.next_flight)
    BY <1>1, <2>1, OpenFlightAdmits
  <2>3. MayAdmit(Expired, spec, Expired.next_flight)
    BY <2>1, <2>2 DEF MayAdmit
  <2> QED BY <1>8, <2>1, <2>2, <2>3 DEF AdmitsOne, SubmitOpening
<1>9. CASE Dispatch
  <2>1. PICK f \in Selected(Expired) : coordinator' = DispatchFlight(Expired, f)
    BY <1>9 DEF Dispatch
  <2>2. f \in DOMAIN Expired.flights
    BY <2>1 DEF Selected, Dispatchable, QueuedFlights
  <2> QED BY <1>1, <2>1, <2>2, DispatchFlightStarts DEF StartsOne
<1>10. ASSUME NEW f \in DOMAIN coordinator.flights, NEW p \in ProgressReports,
              Report(f, p)
       PROVE  ReportsOne
  <2>1. p \in Progress
    BY InputAssumption
  <2>2. Reports(coordinator, coordinator', f, p)
    BY <1>1, <1>10, <2>1, ReportProgressReports DEF Report
  <2> QED BY <2>1, <2>2 DEF ReportsOne
<1>11. ASSUME NEW f \in DOMAIN coordinator.flights, Complete(f)
       PROVE  Removes
  <2>1. PICK outcome \in Outcome :
          coordinator' = CompleteFlight(Expired, f, outcome, clock)
    BY <1>11 DEF Complete
  <2>2. f \in DOMAIN Expired.flights /\ outcome \in Outcomes
    BY <1>11, InputAssumption DEF Complete, IsRunning
  <2>3. Leaves(Expired, coordinator', {f})
    BY <1>1, <2>1, <2>2, CompleteFlightLeaves
  <2>4. PICK F : Leaves(coordinator, Expired, F)
    BY ExpiredLeaves
  <2> QED BY <2>3, <2>4, LeavesThenLeaves DEF Removes
<1> QED
  <2>1. CASE UNCHANGED vars
    BY <1>2, <2>1 DEF vars
  <2>2. CASE Next
    BY <1>2, <1>3, <1>4, <1>5, <1>6, <1>7, <1>8, <1>9, <1>10, <1>11, <2>2
       DEF Next, SubmitWithoutEffect, CancelTask, CancelOwner, DispatchNothing,
           Publish, Discard, Tick
  <2> QED BY <2>1, <2>2

\* The limits, the rule of one request and the shared progress, kept by a step.
LEMMA NextShared == Inv /\ Shared(coordinator) /\ [Next]_vars => Shared(coordinator)'
<1> SUFFICES ASSUME Inv, Shared(coordinator), [Next]_vars
             PROVE  Shared(coordinator')
  OBVIOUS
<1>1. /\ Sound(coordinator) /\ Sound(coordinator') /\ Mutual(coordinator')
      /\ Sound(Expired) /\ EligibleCurrent(Expired)
  BY NextInv, ExpiredSound DEF Inv, Sound, Consistent
<1>2. Shared(Expired)
  BY <1>1, ExpiredLeaves, LeavesShared
<1>3. CASE Removes
  BY <1>1, <1>3, LeavesShared DEF Removes
<1>4. CASE AdmitsOne
  BY <1>1, <1>2, <1>4, AdmitsShared DEF AdmitsOne
<1>5. CASE StartsOne
  <2>1. PICK f \in Selected(Expired) : Starts(Expired, coordinator', f)
    BY <1>5 DEF StartsOne
  <2>2. f \in DOMAIN Expired.flights
    BY <2>1 DEF Selected, Dispatchable, QueuedFlights
  <2> QED BY <1>1, <1>2, <2>1, <2>2, StartsShared
<1>6. CASE ReportsOne
  BY <1>1, <1>6, ReportsShared, InputAssumption DEF ReportsOne
<1> QED BY <1>3, <1>4, <1>5, <1>6, StepKind

\* It holds in every reachable state.
LEMMA SpecShared == Spec => []Shared(coordinator)
<1>1. Init => Shared(coordinator)
  BY NewCoordinatorShared DEF Init
<1> QED BY <1>1, SpecInv, NextShared, PTL DEF Spec

\* The work that is still wanted stays within the three limits of the
\* configuration, and the supersession that makes room never makes too much.
THEOREM AdmissionBounded == Spec => []AdmissionIsBounded
<1>1. Shared(coordinator) => AdmissionIsBounded
  BY DEF Shared, AdmissionIsBounded
<1> QED BY <1>1, SpecShared, PTL

\* The duplicate test of submit, which looks at one flight and one generation,
\* keeps an owner from ever holding two eligible tasks for one recipe.
THEOREM OneRequestEach == Spec => []OneRequestPerOwner
<1>1. Shared(coordinator) => OneRequestPerOwner
  BY DEF Shared, OneRequestPerOwner
<1> QED BY <1>1, SpecShared, PTL

\* The loop of report_progress that stops at a regression never leaves the
\* subscribers of one flight with different reports.
THEOREM ProgressShared == Spec => []SubscribersSeeTheSameProgress
<1>1. Shared(coordinator) => SubscribersSeeTheSameProgress
  BY DEF Shared, SubscribersSeeTheSameProgress
<1> QED BY <1>1, SpecShared, PTL

\* Priorities, deadlines, submission times and ids leave dispatch_next exactly
\* one flight to take whenever it can take one: the order in which the map is
\* visited never matters.
THEOREM DispatchDecided == Spec => []DispatchIsDecided
<1>1. Inv => DispatchIsDecided
  <2> SUFFICES ASSUME Inv, Dispatchable(Expired) # {}
               PROVE  Cardinality(Selected(Expired)) = 1
    BY DEF DispatchIsDecided
  <2>1. PICK f : Selected(Expired) = {f}
    BY ExpiredSound, OneIsSelected
  <2>2. Cardinality({f}) = 1
    BY FS_Singleton
  <2> QED BY <2>1, <2>2
<1> QED BY <1>1, SpecInv, PTL

\* dispatch_next never starts a flight whose flag is up, nor one whose last
\* subscriber in time is gone: the expiry in the same call took those away.
THEOREM StartedWorkIsWanted == Spec => OnlyWantedWorkStarts
<1> DEFINE Wants ==
      \A f \in DOMAIN coordinator.flights \cap DOMAIN coordinator'.flights :
        /\ coordinator.flights[f].state = "Queued"
        /\ coordinator'.flights[f].state = "Running"
        => /\ ~coordinator.flights[f].cancelled
           /\ \E t \in EligibleSubscribers(coordinator, f) :
                ~Elapsed(coordinator.tasks[t].deadline, clock)
<1>1. Inv /\ [Next]_vars => Wants
  <2> SUFFICES ASSUME Inv, [Next]_vars,
                      NEW f \in DOMAIN coordinator.flights,
                      f \in DOMAIN coordinator'.flights,
                      coordinator.flights[f].state = "Queued",
                      coordinator'.flights[f].state = "Running"
               PROVE  /\ ~coordinator.flights[f].cancelled
                      /\ \E t \in EligibleSubscribers(coordinator, f) :
                           ~Elapsed(coordinator.tasks[t].deadline, clock)
    OBVIOUS
  <2>1. /\ FlagSound(coordinator) /\ Mutual(coordinator)
        /\ CoordinatorType(coordinator)
    BY DEF Inv, Sound, Consistent
  <2>2. PICK F \in SUBSET QueuedFlights(coordinator) : Leaves(coordinator, Expired, F)
    BY ExpiredLeaves
  <2>3. CASE Removes
    BY <2>3 DEF Removes, Leaves
  <2>4. CASE AdmitsOne
    <3>1. PICK spec, g : /\ MayAdmit(Expired, spec, g)
                         /\ Admits(Expired, coordinator', spec, g)
      BY <2>4 DEF AdmitsOne
    <3>2. f # coordinator.next_flight
      BY <2>1 DEF Mutual, CoordinatorType, IsMap
    <3>3. f \in DOMAIN Expired.flights
      BY <2>2, <3>1, <3>2 DEF Admits, Adds, Leaves
    <3> QED BY <2>2, <3>1, <3>3 DEF Admits, Adds, Leaves
  <2>5. CASE StartsOne
    <3>1. PICK g \in Selected(Expired) : Starts(Expired, coordinator', g)
      BY <2>5 DEF StartsOne
    <3>2. f \in DOMAIN Expired.flights /\ f = g
      BY <2>2, <3>1 DEF Starts, Leaves
    <3>3. Observed(Expired, f)
      BY <3>1, <3>2 DEF Selected, Dispatchable
    <3>4. PICK t \in Expired.flights[f].subscribers : t \in EligibleTasks(Expired)
      BY <3>3 DEF Observed
    <3>5. /\ t \in coordinator.flights[f].subscribers
          /\ t \in EligibleTasks(coordinator) /\ t \notin Overdue(coordinator, clock)
      BY <2>2, <3>2, <3>4, ExpiredLeaves DEF Leaves
    <3>6. Observed(coordinator, f) /\ t \in EligibleSubscribers(coordinator, f)
      BY <3>5 DEF Observed, EligibleSubscribers
    <3>7. ~Elapsed(coordinator.tasks[t].deadline, clock)
      BY <3>5 DEF Overdue
    <3> QED BY <2>1, <3>6, <3>7 DEF FlagSound
  <2>6. CASE ReportsOne
    BY <2>6 DEF ReportsOne, Reports
  <2> QED BY <2>3, <2>4, <2>5, <2>6, StepKind
<1> QED BY <1>1, SpecInv, PTL DEF Spec, OnlyWantedWorkStarts

-----------------------------------------------------------------------------
(* Publication authority                                                   *)

\* What the receipts and the published results are to the coordinator: they
\* belong to retired tasks, one receipt to a task, and no result is published
\* while its receipt is still held.  A receipt's session is known, and was not
\* newer than it is now, so authority that is lost is lost for good.
Settled ==
  /\ \A r \in receipts :
       /\ r.task \in Nat /\ r.task < coordinator.next_task
       /\ r.task \notin DOMAIN coordinator.tasks
       /\ r.task \notin published
       /\ SessionOf[r.owner] \in DOMAIN coordinator.sessions
       /\ r.generation \in Nat
       /\ r.generation <= coordinator.sessions[SessionOf[r.owner]]
  /\ \A r, q \in receipts : r.task = q.task => r = q
  /\ \A i \in published : /\ i \in Nat /\ i < coordinator.next_task
                          /\ i \notin DOMAIN coordinator.tasks

\* The generations of the sessions only grow.
SessionsGrow(c, d) ==
  \A s \in DOMAIN c.sessions : s \in DOMAIN d.sessions /\ c.sessions[s] <= d.sessions[s]

\* Unless a session may be closed, no step forgets or rewinds one.
LEMMA StepSessions ==
  ASSUME Inv, [Next]_vars, ClosableSessions = {}
  PROVE  SessionsGrow(coordinator, coordinator')
<1>1. /\ Sound(coordinator) /\ CoordinatorType(coordinator) /\ Consistent(coordinator)
      /\ Sound(Expired) /\ clock \in Nat /\ Expired.sessions = coordinator.sessions
      /\ \A s \in DOMAIN coordinator.sessions : coordinator.sessions[s] \in Nat
  BY ExpiredSound, ExpiredLeaves DEF Inv, Sound, Consistent, CoordinatorType, IsMap
<1>2. ASSUME coordinator'.sessions = coordinator.sessions
      PROVE  SessionsGrow(coordinator, coordinator')
  BY <1>1, <1>2 DEF SessionsGrow
<1>3. ASSUME NEW S, coordinator' = Cancel(coordinator, S, "Requested")
      PROVE  coordinator'.sessions = coordinator.sessions
  BY <1>1, <1>3, CancelSound DEF Reasons, GrantsNothing
<1>4. ASSUME NEW s \in Sessions, NEW g \in 0 .. MaxGeneration, Observe(s, g)
      PROVE  SessionsGrow(coordinator, coordinator')
  <2>1. /\ AdvancesSession(coordinator, s, g) /\ g \in Nat
        /\ coordinator' = ObserveSession(coordinator, s, g)
    BY <1>4 DEF Observe
  <2>2. /\ DOMAIN coordinator'.sessions = DOMAIN coordinator.sessions \cup {s}
        /\ coordinator'.sessions[s] = g
        /\ \A x \in DOMAIN coordinator.sessions \ {s} :
             coordinator'.sessions[x] = coordinator.sessions[x]
    BY <1>1, <2>1, ObserveSessionMoves
  <2> QED BY <1>1, <2>1, <2>2 DEF SessionsGrow, AdvancesSession
<1>5. ASSUME NEW spec \in Specs, SubmitJoining(spec)
      PROVE  coordinator'.sessions = coordinator.sessions
  <2>1. PICK f \in DOMAIN Expired.flights :
          MayJoin(Expired, spec, f) /\ coordinator' = JoinFlight(Expired, spec, f)
    BY <1>5 DEF SubmitJoining
  <2>2. spec \in TaskSpec
    BY SpecIsTaskSpec
  <2> QED BY <1>1, <2>1, <2>2, JoinFlightAdmits DEF Admits, Adds
<1>6. ASSUME NEW spec \in Specs, SubmitOpening(spec)
      PROVE  coordinator'.sessions = coordinator.sessions
  <2>1. MayOpen(Expired, spec) /\ coordinator' = OpenFlight(Expired, spec, clock)
    BY <1>6 DEF SubmitOpening
  <2>2. spec \in TaskSpec
    BY SpecIsTaskSpec
  <2> QED BY <1>1, <2>1, <2>2, OpenFlightAdmits DEF Admits, Adds
<1>7. CASE Dispatch
  <2>1. PICK f \in Selected(Expired) : coordinator' = DispatchFlight(Expired, f)
    BY <1>7 DEF Dispatch
  <2>2. f \in DOMAIN Expired.flights
    BY <2>1 DEF Selected, Dispatchable, QueuedFlights
  <2>3. coordinator'.sessions = coordinator.sessions
    BY <1>1, <2>1, <2>2, DispatchFlightSound DEF GrantsNothing
  <2> QED BY <1>2, <2>3
<1>8. ASSUME NEW f \in DOMAIN coordinator.flights, NEW p \in ProgressReports,
             Report(f, p)
      PROVE  coordinator'.sessions = coordinator.sessions
  <2>1. p \in Progress
    BY InputAssumption
  <2> QED BY <1>1, <1>8, <2>1, ReportProgressSound DEF Report, GrantsNothing
<1>9. ASSUME NEW f \in DOMAIN coordinator.flights, Complete(f)
      PROVE  coordinator'.sessions = coordinator.sessions
  <2>1. PICK outcome \in Outcome :
          coordinator' = CompleteFlight(Expired, f, outcome, clock)
    BY <1>9 DEF Complete
  <2>2. f \in DOMAIN Expired.flights /\ outcome \in Outcomes
    BY <1>9, InputAssumption DEF Complete, IsRunning
  <2> QED BY <1>1, <2>1, <2>2, CompleteFlightSound DEF GrantsNothing
<1> QED
  <2>1. CASE UNCHANGED vars
    BY <1>2, <2>1 DEF vars
  <2>2. CASE Next
    BY <1>1, <1>2, <1>3, <1>4, <1>5, <1>6, <1>7, <1>8, <1>9, <2>2
       DEF Next, SubmitWithoutEffect, CancelTask, CancelOwner, DispatchNothing,
           Publish, Discard, Tick
  <2> QED BY <2>1, <2>2

\* Unless a request is admitted no task is added and none becomes eligible; one
\* that is admitted takes the next id.
Keeps(c, d) ==
  /\ d.next_task = c.next_task
  /\ DOMAIN d.tasks \subseteq DOMAIN c.tasks
  /\ EligibleTasks(d) \subseteq EligibleTasks(c)

Grows(c, d) ==
  /\ d.next_task = c.next_task + 1
  /\ DOMAIN d.tasks \subseteq DOMAIN c.tasks \cup {c.next_task}
  /\ EligibleTasks(d) \subseteq EligibleTasks(c) \cup {c.next_task}
  /\ c.next_task \in EligibleTasks(d)

\* A step admits at most one request.
LEMMA StepTasks ==
  ASSUME Inv, [Next]_vars
  PROVE  \/ Keeps(coordinator, coordinator')
         \/ /\ Grows(coordinator, coordinator')
            /\ UNCHANGED <<clock, receipts, published>>
<1>1. PICK F : Leaves(coordinator, Expired, F)
  BY ExpiredLeaves
<1>2. Keeps(coordinator, Expired)
  BY <1>1 DEF Leaves, Keeps
<1>3. CASE Removes
  BY <1>3 DEF Removes, Leaves, Keeps
<1>4. CASE AdmitsOne
  <2>1. PICK spec, f : Admits(Expired, coordinator', spec, f)
    BY <1>4 DEF AdmitsOne
  <2>2. Grows(coordinator, coordinator')
    BY <1>2, <2>1 DEF Admits, Adds, Keeps, Grows
  <2> QED BY <1>4, <2>2 DEF AdmitsOne
<1>5. CASE StartsOne
  BY <1>2, <1>5 DEF StartsOne, Starts, SameRequests, Keeps
<1>6. CASE ReportsOne
  BY <1>6 DEF ReportsOne, Reports, SameRequests, Keeps
<1> QED BY <1>3, <1>4, <1>5, <1>6, StepKind

\* Receipts are handed out by complete, for tasks that were eligible and whose
\* flight goes in the same call, and each is taken once.
LEMMA NewReceipts ==
  ASSUME Inv, [Next]_vars, NEW r \in receipts', r \notin receipts
  PROVE  /\ r.task \in EligibleTasks(coordinator)
         /\ r.task \notin DOMAIN coordinator'.tasks
         /\ SessionIs(coordinator, SessionOf[r.owner], r.generation)
         /\ \A q \in receipts' : q \notin receipts /\ q.task = r.task => q = r
         /\ published' = published
<1>1. PICK f \in DOMAIN coordinator.flights : Complete(f)
  BY DEF Next, vars, Observe, Close, SubmitJoining, SubmitOpening,
         SubmitWithoutEffect, CancelTask, CancelOwner, Dispatch, DispatchNothing,
         Report, Publish, Discard, Tick
<1> DEFINE e == Expired
<1>2. /\ Sound(e) /\ Mutual(e) /\ Mutual(coordinator')
      /\ EligibleTasks(e) \subseteq EligibleTasks(coordinator)
      /\ e.sessions = coordinator.sessions
  BY ExpiredSound, ExpiredLeaves, NextInv DEF Inv, Sound, Consistent
<1>3. /\ f \in DOMAIN e.flights
      /\ \E outcome \in Outcome : coordinator' = CompleteFlight(e, f, outcome, clock)
      /\ receipts' = receipts \cup {Receipt(e, t) : t \in Accepted(e, f, clock)}
      /\ published' = published
  BY <1>1 DEF Complete, IsRunning
<1> HIDE DEF e
<1>4. PICK outcome \in Outcome : coordinator' = CompleteFlight(e, f, outcome, clock)
  BY <1>3
<1>5. Leaves(e, coordinator', {f})
  BY <1>2, <1>3, <1>4, CompleteFlightLeaves, InputAssumption
<1>6. \A t : Receipt(e, t).task = t
  BY DEF Receipt
<1>7. PICK t \in Accepted(e, f, clock) : r = Receipt(e, t)
  BY <1>3
<1>8. /\ r.task = t /\ r.owner = e.tasks[t].owner
      /\ r.generation = e.tasks[t].generation
  BY <1>7 DEF Receipt
<1>9. /\ t \in DOMAIN e.tasks /\ t \in e.flights[f].subscribers
      /\ t \in EligibleTasks(e)
      /\ SessionIs(e, SessionOf[e.tasks[t].owner], e.tasks[t].generation)
  BY <1>7 DEF Accepted, Accepts, EligibleTasks
<1>10. e.tasks[t].flight = f
  BY <1>2, <1>3, <1>9 DEF Mutual
<1>11. t \notin DOMAIN coordinator'.tasks
  BY <1>2, <1>5, <1>10 DEF Mutual, Leaves
<1>12. \A q \in receipts' : q \notin receipts => q = Receipt(e, q.task)
  BY <1>3, <1>6
<1> QED BY <1>2, <1>3, <1>7, <1>8, <1>9, <1>11, <1>12 DEF SessionIs

\* Publication consumes one valid receipt.
LEMMA NewPublications ==
  ASSUME Inv, [Next]_vars
  PROVE  \/ published' = published
         \/ \E r \in receipts :
              /\ ValidForPublication(coordinator, r, clock)
              /\ published' = published \cup {r.task}
              /\ receipts' = receipts \ {r}
              /\ UNCHANGED <<coordinator, clock>>
<1>1. CASE \E r \in receipts : Publish(r)
  BY <1>1 DEF Publish
<1>2. CASE ~\E r \in receipts : Publish(r)
  <2>1. published' = published
    BY <1>2 DEF Next, vars, Observe, Close, SubmitJoining, SubmitOpening,
         SubmitWithoutEffect, CancelTask, CancelOwner, Dispatch, DispatchNothing,
         Report, Complete, Discard, Tick
  <2> QED BY <2>1
<1> QED BY <1>1, <1>2

\* The instants the callers stamp their calls with never run backwards.
LEMMA StepClock ==
  ASSUME Inv, [Next]_vars
  PROVE  clock \in Nat /\ clock' \in Nat /\ clock <= clock'
<1>1. CASE Tick
  BY <1>1 DEF Tick, Inv
<1>2. CASE ~Tick
  <2>1. clock' = clock
    BY <1>2 DEF Next, vars, Observe, Close, SubmitJoining, SubmitOpening,
         SubmitWithoutEffect, CancelTask, CancelOwner, Dispatch, DispatchNothing,
         Report, Complete, Publish, Discard
  <2> QED BY <2>1 DEF Inv
<1> QED BY <1>1, <1>2

\* Ids are handed out once, so what was retired stays retired, and publication
\* takes the receipt with it.
LEMMA NextSettled ==
  ClosableSessions = {} /\ Inv /\ Settled /\ [Next]_vars => Settled'
<1> SUFFICES ASSUME ClosableSessions = {}, Inv, Settled, [Next]_vars
             PROVE  Settled'
  OBVIOUS
<1> DEFINE n == coordinator.next_task
<1>1. /\ n \in Nat /\ coordinator'.next_task \in Nat
      /\ n <= coordinator'.next_task
      /\ \A i \in DOMAIN coordinator'.tasks : i \in DOMAIN coordinator.tasks \/ i = n
  <2>1. n \in Nat
    BY DEF Inv, Sound, Consistent, CoordinatorType
  <2> QED BY <2>1, StepTasks DEF Keeps, Grows
<1>2. SessionsGrow(coordinator, coordinator')
  BY StepSessions
<1>3. \A s \in DOMAIN coordinator.sessions : coordinator.sessions[s] \in Nat
  BY DEF Inv, Sound, Consistent, CoordinatorType, IsMap
<1>4. \A s \in DOMAIN coordinator'.sessions : coordinator'.sessions[s] \in Nat
  BY NextInv DEF Inv, Sound, Consistent, CoordinatorType, IsMap
<1>5. \A i \in EligibleTasks(coordinator) :
        i \in DOMAIN coordinator.tasks /\ i \in Nat /\ i < n
  <2>1. DOMAIN coordinator.tasks \subseteq 1 .. n - 1
    BY DEF Inv, Sound, Consistent, Accounted
  <2> QED BY <1>1, <2>1 DEF EligibleTasks
<1>6. ASSUME NEW r \in receipts'
      PROVE  /\ r.task \in Nat /\ r.task < coordinator'.next_task
             /\ r.task \notin DOMAIN coordinator'.tasks
             /\ SessionOf[r.owner] \in DOMAIN coordinator'.sessions
             /\ r.generation \in Nat
             /\ r.generation <= coordinator'.sessions[SessionOf[r.owner]]
  <2>1. CASE r \in receipts
    <3>1. /\ r.task \in Nat /\ r.task < n /\ r.task \notin DOMAIN coordinator.tasks
          /\ SessionOf[r.owner] \in DOMAIN coordinator.sessions
          /\ r.generation \in Nat
          /\ r.generation <= coordinator.sessions[SessionOf[r.owner]]
      BY <2>1 DEF Settled
    <3> QED BY <1>1, <1>2, <1>3, <1>4, <3>1 DEF SessionsGrow
  <2>2. CASE r \notin receipts
    <3>1. /\ r.task \in EligibleTasks(coordinator)
          /\ r.task \notin DOMAIN coordinator'.tasks
          /\ SessionIs(coordinator, SessionOf[r.owner], r.generation)
      BY <2>2, NewReceipts
    <3> QED BY <1>1, <1>2, <1>3, <1>4, <1>5, <3>1 DEF SessionsGrow, SessionIs
  <2> QED BY <2>1, <2>2
<1>7. ASSUME NEW r \in receipts', NEW q \in receipts', r.task = q.task
      PROVE  r = q
  <2>1. CASE r \in receipts /\ q \in receipts
    BY <1>7, <2>1 DEF Settled
  <2>2. CASE r \notin receipts /\ q \notin receipts
    BY <1>7, <2>2, NewReceipts
  <2>3. CASE r \in receipts /\ q \notin receipts
    BY <1>5, <1>7, <2>3, NewReceipts DEF Settled
  <2>4. CASE r \notin receipts /\ q \in receipts
    BY <1>5, <1>7, <2>4, NewReceipts DEF Settled
  <2> QED BY <2>1, <2>2, <2>3, <2>4
<1>8. ASSUME NEW i \in published'
      PROVE  /\ i \in Nat /\ i < coordinator'.next_task
             /\ i \notin DOMAIN coordinator'.tasks
  <2>1. i \in published \/ \E r \in receipts : i = r.task
    BY NewPublications
  <2>2. i \in Nat /\ i < n /\ i \notin DOMAIN coordinator.tasks
    BY <2>1 DEF Settled
  <2> QED BY <1>1, <2>2
<1>9. ASSUME NEW r \in receipts'
      PROVE  r.task \notin published'
  <2>1. CASE published' = published /\ r \in receipts
    BY <2>1 DEF Settled
  <2>2. CASE r \notin receipts
    BY <1>5, <2>2, NewReceipts DEF Settled
  <2>3. CASE published' # published /\ r \in receipts
    BY <2>3, NewPublications DEF Settled
  <2> QED BY <2>1, <2>2, <2>3
<1> QED BY <1>6, <1>7, <1>8, <1>9 DEF Settled

\* Authority is only granted by admission: what is pending after a step was
\* pending before it, or is the request the step admitted.
LEMMA PendingStep ==
  ASSUME ClosableSessions = {}, Inv, Settled, [Next]_vars, NEW i, IsPending(i)'
  PROVE  \/ IsPending(i)
         \/ i = coordinator.next_task /\ Grows(coordinator, coordinator')
<1>1. CASE i \in EligibleTasks(coordinator')
  BY <1>1, StepTasks DEF Keeps, Grows, IsPending
<1>2. CASE \E r \in receipts' :
             r.task = i /\ ValidForPublication(coordinator', r, clock')
  <2>1. PICK r \in receipts' :
          r.task = i /\ ValidForPublication(coordinator', r, clock')
    BY <1>2
  <2>2. CASE r \notin receipts
    BY <2>1, <2>2, NewReceipts DEF IsPending
  <2>3. CASE r \in receipts
    <3> DEFINE s == SessionOf[r.owner]
    <3>1. /\ s \in DOMAIN coordinator.sessions /\ r.generation \in Nat
          /\ r.generation <= coordinator.sessions[s]
          /\ coordinator.sessions[s] \in Nat
      BY <2>3 DEF Settled, Inv, Sound, Consistent, CoordinatorType, IsMap
    <3>2. coordinator.sessions[s] <= coordinator'.sessions[s]
      BY <3>1, StepSessions DEF SessionsGrow
    <3>3. coordinator'.sessions[s] = r.generation
      BY <2>1 DEF ValidForPublication, SessionIs
    <3>4. SessionIs(coordinator, s, r.generation)
      BY <3>1, <3>2, <3>3 DEF SessionIs
    <3>5. ~Elapsed(r.deadline, clock)
      <4>1. r.deadline \in Deadline
        BY <2>3 DEF Inv, ReceiptRecord
      <4>2. ~Elapsed(r.deadline, clock')
        BY <2>1 DEF ValidForPublication
      <4> QED BY <4>1, <4>2, StepClock DEF Elapsed, Deadline
    <3>6. r \in Holds(i) /\ ValidForPublication(coordinator, r, clock)
      BY <2>1, <2>3, <3>4, <3>5 DEF Holds, ValidForPublication
    <3> QED BY <3>6 DEF IsPending
  <2> QED BY <2>2, <2>3
<1> QED BY <1>1, <1>2 DEF IsPending, Holds

\* A request that is pending or published has been handed out.
LEMMA KnownRequests ==
  ASSUME Inv, Settled, NEW i, IsPending(i) \/ i \in published
  PROVE  i < coordinator.next_task
<1>1. coordinator.next_task \in Nat
      /\ DOMAIN coordinator.tasks \subseteq 1 .. coordinator.next_task - 1
  BY DEF Inv, Sound, Consistent, Accounted, CoordinatorType
<1>2. CASE i \in EligibleTasks(coordinator)
  BY <1>1, <1>2 DEF EligibleTasks
<1>3. CASE i \in published
  BY <1>3 DEF Settled
<1>4. CASE \E r \in Holds(i) : TRUE
  BY <1>4 DEF Holds, Settled
<1> QED BY <1>2, <1>3, <1>4 DEF IsPending

\* What may happen to a request in one step.
LEMMA StatusMoves ==
  ASSUME ClosableSessions = {}, Inv, Settled, [Next]_vars, NEW i \in Requests
  PROVE  /\ Status'[i] = Status[i] \/ <<Status[i], Status'[i]>> \in Authority!Moves
         /\ Status'[i] # Status[i] /\ Status'[i] = "pending"
              => /\ i = coordinator.next_task
                 /\ Grows(coordinator, coordinator')
         /\ Status'[i] # Status[i] /\ Status'[i] = "published"
              => i \in published' \ published
<1> DEFINE n == coordinator.next_task
           m == coordinator'.next_task
<1>1. /\ Status[i] = IF i \in published THEN "published"
                     ELSE IF IsPending(i) THEN "pending"
                     ELSE IF i >= n THEN "unknown" ELSE "withdrawn"
      /\ Status'[i] = IF i \in published' THEN "published"
                      ELSE IF IsPending(i)' THEN "pending"
                      ELSE IF i >= m THEN "unknown" ELSE "withdrawn"
  BY DEF Status
<1>2. n \in Nat /\ m \in Nat /\ i \in Nat
  BY NextInv, InputAssumption DEF Inv, Sound, Consistent, CoordinatorType, Requests
<1>3. IsPending(i)' => IsPending(i) \/ (i = n /\ Grows(coordinator, coordinator'))
  BY PendingStep
<1>4. IsPending(i) \/ i \in published => i < n
  BY KnownRequests
<1>5. /\ m = n \/ (m = n + 1 /\ Grows(coordinator, coordinator') /\ published' = published)
      /\ Grows(coordinator, coordinator') => m = n + 1 /\ published' = published
  BY <1>2, StepTasks DEF Keeps, Grows
<1>6. i = n /\ Grows(coordinator, coordinator') => IsPending(i)'
  BY DEF Grows, IsPending
<1>7. /\ i \in published => i \in published'
      /\ i \in published' /\ i \notin published => IsPending(i)
  BY NewPublications DEF IsPending, Holds
<1> HIDE DEF n, m
<1>8. /\ <<"unknown", "pending">> \in Authority!Moves
      /\ <<"pending", "withdrawn">> \in Authority!Moves
      /\ <<"pending", "published">> \in Authority!Moves
  BY DEF Authority!Moves
<1>9. CASE i \in published
  BY <1>1, <1>7, <1>9
<1>10. CASE i \notin published /\ IsPending(i)
  <2>1. i < n /\ ~(i >= m) /\ Status[i] = "pending"
    BY <1>1, <1>2, <1>4, <1>5, <1>10
  <2> QED BY <1>1, <1>8, <1>10, <2>1
<1>11. CASE i \notin published /\ ~IsPending(i)
  <2>1. i \notin published'
    BY <1>7, <1>11
  <2>2. CASE i = n /\ Grows(coordinator, coordinator')
    <3>1. Status[i] = "unknown" /\ Status'[i] = "pending"
      BY <1>1, <1>2, <1>6, <1>11, <2>1, <2>2
    <3> QED BY <1>8, <2>2, <3>1 DEF n
  <2>3. CASE ~(i = n /\ Grows(coordinator, coordinator'))
    <3>1. ~IsPending(i)' /\ (i >= m <=> i >= n)
      BY <1>2, <1>3, <1>5, <1>11, <2>3
    <3> QED BY <1>1, <1>11, <2>1, <3>1
  <2> QED BY <2>2, <2>3
<1> QED BY <1>9, <1>10, <1>11

\* Every step of the coordinator is a step of RequestAuthority.
LEMMA StepRefines ==
  ClosableSessions = {} /\ Inv /\ Settled /\ [Next]_vars
    => [Authority!Next]_Status
<1> SUFFICES ASSUME ClosableSessions = {}, Inv, Settled, [Next]_vars
             PROVE  Authority!Next
  OBVIOUS
<1>1. Status' \in [Requests -> Authority!States]
  BY DEF Status, Authority!States
<1>2. ASSUME NEW i \in Requests
      PROVE  Status'[i] = Status[i] \/ <<Status[i], Status'[i]>> \in Authority!Moves
  BY StatusMoves
<1>3. ASSUME NEW i \in Requests, NEW j \in Requests,
             Status'[i] # Status[i], Status'[i] # "withdrawn",
             Status'[j] # Status[j], Status'[j] # "withdrawn"
      PROVE  i = j
  <2>1. \A k \in Requests : Status'[k] # Status[k] /\ Status'[k] # "withdrawn"
                            => Status'[k] \in {"pending", "published"}
    BY <1>2 DEF Authority!Moves
  <2>2. \A k \in Requests : Status'[k] # Status[k] /\ Status'[k] = "pending"
                            => /\ k = coordinator.next_task
                               /\ Grows(coordinator, coordinator')
    BY StatusMoves
  <2>3. \A k \in Requests : Status'[k] # Status[k] /\ Status'[k] = "published"
                            => k \in published' \ published
    BY StatusMoves
  <2>4. Grows(coordinator, coordinator') => published' = published
    <3>1. coordinator.next_task \in Nat
      BY DEF Inv, Sound, Consistent, CoordinatorType
    <3> QED BY <3>1, StepTasks DEF Keeps, Grows
  <2>5. \A k, l \in published' \ published : k = l
    BY NewPublications
  <2> QED BY <1>3, <2>1, <2>2, <2>3, <2>4, <2>5
<1> QED BY <1>1, <1>2, <1>3 DEF Authority!Next

\* A coordinator that is not asked to close a session forgets no generation, and
\* then a computation that succeeds is published at most once and only for a
\* request that kept its authority from submit to validate_for_publication:
\* TaskCoordinator implements RequestAuthority.
THEOREM AuthorityIsKept ==
  ClosableSessions = {} => (Spec => PublicationNeedsAuthority)
<1> SUFFICES ASSUME ClosableSessions = {}
             PROVE  Spec => PublicationNeedsAuthority
  OBVIOUS
<1>1. Init => Settled /\ Authority!Init
  <2> SUFFICES ASSUME Init PROVE Settled /\ Authority!Init
    OBVIOUS
  <2>1. /\ coordinator.tasks = NoEntries /\ coordinator.next_task = 1
        /\ receipts = {} /\ published = {}
    BY DEF Init, NewCoordinator
  <2>2. EligibleTasks(coordinator) = {}
    BY <2>1 DEF EligibleTasks, NoEntries
  <2>3. \A i \in Requests : ~IsPending(i) /\ i >= 1
    BY <2>1, <2>2, InputAssumption DEF IsPending, Holds, Requests
  <2>4. Status = [i \in Requests |-> "unknown"]
    BY <2>1, <2>3 DEF Status
  <2> QED BY <2>1, <2>4 DEF Settled, Authority!Init
<1>2. Inv /\ Settled /\ [Next]_vars => Settled' /\ [Authority!Next]_Status
  BY NextSettled, StepRefines
<1> QED BY <1>1, <1>2, SpecInv, PTL
        DEF Spec, PublicationNeedsAuthority, Authority!Spec

=============================================================================
