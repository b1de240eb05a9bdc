----------------------- MODULE ModelTaskServiceProofs -----------------------
(***************************************************************************)
(* What the worker service keeps for every machine, every queue and any    *)
(* number of services over one store: the invariants and the action        *)
(* property of ModelTaskService.                                           *)
(***************************************************************************)
EXTENDS ModelTaskService, OrderProofs, TLAPS

-----------------------------------------------------------------------------
(* Maps and the resources of jobs                                          *)

Maps(D, R) == UNION {[A -> R] : A \in SUBSET D}

\* A map of the service has some of the keys, and a value of its type for each.
LEMMA MapsAre ==
  ASSUME NEW D, NEW R, NEW f
  PROVE  f \in Maps(D, R) <=> DOMAIN f \subseteq D /\ f \in [DOMAIN f -> R]
  BY DEF Maps

\* What BTreeMap::remove leaves.
LEMMA WithoutIs ==
  ASSUME NEW f, NEW S
  PROVE  /\ DOMAIN Without(f, S) = DOMAIN f \ S
         /\ \A x \in DOMAIN f \ S : Without(f, S)[x] = f[x]
  BY DEF Without, Restrict

\* It is a map of the same type.
LEMMA WithoutIsMap ==
  ASSUME NEW D, NEW R, NEW f \in Maps(D, R), NEW S
  PROVE  Without(f, S) \in Maps(D, R)
<1>1. DOMAIN f \subseteq D /\ f \in [DOMAIN f -> R]
  BY MapsAre
<1>2. Without(f, S) \in [DOMAIN f \ S -> R]
  BY <1>1 DEF Without, Restrict
<1> QED BY <1>1, <1>2 DEF Maps

\* Entries inserted into a map leave a map of the same type.
LEMMA UpdatedIsMap ==
  ASSUME NEW D, NEW R, NEW f \in Maps(D, R), NEW g \in Maps(D, R)
  PROVE  Updated(f, g) \in Maps(D, R)
<1>1. DOMAIN f \subseteq D /\ f \in [DOMAIN f -> R]
  BY MapsAre
<1>2. DOMAIN g \subseteq D /\ g \in [DOMAIN g -> R]
  BY MapsAre
<1>3. Updated(f, g) \in [DOMAIN f \cup DOMAIN g -> R]
  BY <1>1, <1>2 DEF Updated
<1> QED BY <1>1, <1>2, <1>3 DEF Maps

\* Fewer jobs with the same demands use no more of the machine.
LEMMA UsageIsMonotone ==
  ASSUME NEW b, NEW c, NEW all, IsFiniteSet(all), NEW some, some \subseteq all,
         \A j \in some : Demand(c, j) = Demand(b, j)
  PROVE  /\ IsFiniteSet(some)
         /\ Cardinality(some) \in Nat /\ Cardinality(all) \in Nat
         /\ Cardinality(some) =< Cardinality(all)
         /\ MemoryInUse(c, some) \in Nat /\ MemoryInUse(b, all) \in Nat
         /\ MemoryInUse(c, some) =< MemoryInUse(b, all)
<1> DEFINE held == {h \in all \X Demands : h[2] =< Demand(b, h[1])}
           kept == {h \in some \X Demands : h[2] =< Demand(c, h[1])}
<1>1. IsFiniteSet(Demands)
  BY CapacityAssumption, FS_Interval DEF Demands
<1>2. IsFiniteSet(all \X Demands)
  BY <1>1, FS_Product
<1>3. IsFiniteSet(held)
  BY <1>2, FS_Subset
<1>4. kept \subseteq held
  OBVIOUS
<1>5. Cardinality(kept) =< Cardinality(held) /\ IsFiniteSet(kept)
  BY <1>3, <1>4, FS_Subset
<1>6. Cardinality(kept) \in Nat /\ Cardinality(held) \in Nat
  BY <1>3, <1>5, FS_CardinalityType
<1>7. IsFiniteSet(some) /\ Cardinality(some) =< Cardinality(all)
  BY FS_Subset
<1>8. Cardinality(some) \in Nat /\ Cardinality(all) \in Nat
  BY <1>7, FS_CardinalityType
<1> QED BY <1>5, <1>6, <1>7, <1>8 DEF MemoryInUse

\* The reserves never exceed the machine, and a limit is never below zero.
LEMMA LimitsAreSound ==
  ASSUME NEW p
  PROVE  /\ CpuLimit(p) \in Nat /\ CpuLimit(p) =< CpuSlots
         /\ MemoryLimit(p) \in Nat /\ MemoryLimit(p) =< MemoryUnits
<1>1. /\ CpuReserve["Realtime"] \in Nat /\ CpuReserve["Render"] \in Nat
      /\ MemoryReserve["Realtime"] \in Nat /\ MemoryReserve["Render"] \in Nat
  BY CapacityAssumption DEF Foreground
<1> QED BY <1>1, CapacityAssumption DEF CpuLimit, MemoryLimit, Withheld

\* Jobs that leave the reserves leave them without some of them too.
LEMMA FewerLeaveReserves ==
  ASSUME NEW b, NEW c, NEW all, IsFiniteSet(all), NEW some, some \subseteq all,
         \A j \in some : Demand(c, j) = Demand(b, j),
         NEW p, LeavesReserves(b, all, p)
  PROVE  LeavesReserves(c, some, p)
  BY UsageIsMonotone, LimitsAreSound DEF LeavesReserves, CpuInUse

-----------------------------------------------------------------------------
(* The invariant                                                           *)

Jobs == Nat \ {0}

Brokers == [queued : Maps(Jobs, Demands), active : Maps(Jobs, ActiveJob),
            receipts : SUBSET Jobs]
Stores  == [results : Maps(Keys, Results), locks : SUBSET Keys,
            sandboxes : SUBSET (Keys \X Jobs)]
Services == [tasks : Seq(Task), broker : Brokers,
             workers : Maps(Jobs, Worker), store : Stores]

Settled == {"Published", "Restored"}

\* Every job is one of a task, and waits or is active, not both.
JobsAreTasks(s) ==
  /\ Queued(s.broker) \cup Charged(s.broker) \cup s.broker.receipts
       \cup DOMAIN s.workers \subseteq DOMAIN s.tasks
  /\ Queued(s.broker) \cap Charged(s.broker) = {}

WorkersAreCharged(s) == DOMAIN s.workers \subseteq Charged(s.broker)

\* A job that is not over belongs to a task that is not settled.
LiveJobsAreUnsettled(s) ==
  \A t \in Queued(s.broker) \cup Charged(s.broker) :
    s.tasks[t].status \notin Settled

ChargesFit(b) == FitsTheMachine(b, Charged(b), {})

\* Broker, service and session agree, but for the jobs in `asked`.
SessionsAgree(s, asked) ==
  \A t \in Charged(s.broker) \ asked :
    /\ s.broker.active[t].state \in {"Running", "CancelRequested"}
    /\ t \in DOMAIN s.workers =>
         (s.workers[t].cancelling <=> s.broker.active[t].state = "CancelRequested")

\* A lease holds the lock of a key that has no result yet, and no other holds
\* it too.
LeasesAreExclusive(s) ==
  \A t \in DOMAIN s.workers : s.workers[t].leased =>
    /\ KeyOf(s, t) \in s.store.locks
    /\ KeyOf(s, t) \notin DOMAIN s.store.results
    /\ \A u \in DOMAIN s.workers \ {t} :
         s.workers[u].leased => KeyOf(s, u) # KeyOf(s, t)

IsReceipted(s, t) ==
  /\ s.tasks[t].verified <=> s.tasks[t].status = "Published"
  /\ s.tasks[t].verified => /\ t \in s.broker.receipts \ Charged(s.broker)
                            /\ KeyOf(s, t) \in DOMAIN s.store.results
                            /\ s.store.results[KeyOf(s, t)] = "Sound"

\* What the service has still to carry out: a start of a job without a worker,
\* a cancellation of a job that the broker is cancelling, a kill.
IsPending(s, t, action) ==
  /\ t \in Charged(s.broker)
  /\ \/ /\ action = Start(t)
        /\ s.broker.active[t].state = "Starting"
        /\ t \notin DOMAIN s.workers
     \/ \E why \in Reasons \cup {"None"} :
          /\ action = SendCancel(t, why)
          /\ s.broker.active[t].state = "CancelRequested"
     \/ \E why \in Reasons \cup {"None"} : action = Kill(t, why)

ArePending(s, actions) ==
  \A t \in DOMAIN actions : IsPending(s, t, actions[t])

\* The state of the service with some actions still to be carried out, under
\* foreground pressure p.
Consistent(s, actions, p) ==
  /\ s \in Services
  /\ JobsAreTasks(s)
  /\ WorkersAreCharged(s)
  /\ LiveJobsAreUnsettled(s)
  /\ ChargesFit(s.broker)
  /\ LeavesReserves(s.broker, AtWork(s.broker), p)
  /\ SessionsAgree(s, DOMAIN actions)
  /\ LeasesAreExclusive(s)
  /\ \A t \in DOMAIN s.tasks : IsReceipted(s, t)
  /\ ArePending(s, actions)

\* What no method may do to the tasks: forget one, give it another recipe, or
\* take back what was published or restored.
KeepsTasks(s, x) ==
  \A t \in DOMAIN s.tasks :
    /\ t \in DOMAIN x.tasks
    /\ KeyOf(x, t) = KeyOf(s, t)
    /\ s.tasks[t].status \in Settled => x.tasks[t] = s.tasks[t]

\* x is the service s once the action about job t was carried out.
CarriedOut(s, actions, p, t, x) ==
  /\ Consistent(x, Without(actions, {t}), p)
  /\ KeepsTasks(s, x)
  /\ Len(x.tasks) = Len(s.tasks)

\* What a method leaves of the service s: no action is left to carry out under
\* pressure p, and the tasks are kept.
Handled(s, p, x) ==
  /\ Consistent(x, NoJobs, p)
  /\ KeepsTasks(s, x)
  /\ Len(x.tasks) = Len(s.tasks)

\* Between two calls no action is left to carry out.
ServiceInvariant ==
  /\ Consistent(Service, NoJobs, pressure)
  /\ pressure \subseteq Foreground
  /\ cursor \in 0..MaximumRuns
  /\ Len(tasks) =< runs
  /\ runs \in 0..MaximumRuns /\ restarts \in 0..MaximumRestarts

-----------------------------------------------------------------------------
(* What the records of the service and the broker are made of              *)

\* The fields of a service, and that any values of their types make one.
LEMMA ServiceParts ==
  ASSUME NEW s \in Services
  PROVE  /\ s.tasks \in Seq(Task) /\ s.broker \in Brokers
         /\ s.workers \in Maps(Jobs, Worker) /\ s.store \in Stores
         /\ s.broker.queued \in Maps(Jobs, Demands)
         /\ s.broker.active \in Maps(Jobs, ActiveJob)
         /\ s.broker.receipts \in SUBSET Jobs
         /\ s.store.results \in Maps(Keys, Results)
         /\ s.store.locks \in SUBSET Keys
         /\ s.store.sandboxes \in SUBSET (Keys \X Jobs)
         /\ DOMAIN s.tasks = 1..Len(s.tasks) /\ Len(s.tasks) \in Nat
  BY DEF Services, Brokers, Stores

\* What a task, an active job and a worker are, entry by entry.
LEMMA EntriesAre ==
  ASSUME NEW s \in Services
  PROVE  /\ \A t \in DOMAIN s.tasks : s.tasks[t] \in Task /\ KeyOf(s, t) \in Keys
         /\ DOMAIN s.tasks \subseteq Jobs
         /\ \A t \in DOMAIN s.workers : s.workers[t] \in Worker
         /\ \A t \in Charged(s.broker) : s.broker.active[t] \in ActiveJob
         /\ \A t \in Queued(s.broker) : s.broker.queued[t] \in Demands
<1>1. \A t \in DOMAIN s.tasks : s.tasks[t] \in Task
  BY ServiceParts
<1>2. s.workers \in [DOMAIN s.workers -> Worker]
  BY ServiceParts, MapsAre
<1>3. s.broker.active \in [DOMAIN s.broker.active -> ActiveJob]
  BY ServiceParts, MapsAre
<1>4. s.broker.queued \in [DOMAIN s.broker.queued -> Demands]
  BY ServiceParts, MapsAre
<1>5. \A t \in DOMAIN s.tasks : KeyOf(s, t) \in Keys
  BY <1>1 DEF KeyOf, Task
<1>6. DOMAIN s.tasks \subseteq Jobs
  BY ServiceParts DEF Jobs
<1> QED BY <1>1, <1>2, <1>3, <1>4, <1>5, <1>6 DEF Charged, Queued

\* The jobs of the broker and the workers are finitely many.
LEMMA JobsAreFinite ==
  ASSUME NEW s \in Services, JobsAreTasks(s)
  PROVE  /\ IsFiniteSet(DOMAIN s.tasks) /\ IsFiniteSet(Queued(s.broker))
         /\ IsFiniteSet(Charged(s.broker)) /\ IsFiniteSet(AtWork(s.broker))
         /\ IsFiniteSet(DOMAIN s.workers)
<1>1. IsFiniteSet(DOMAIN s.tasks)
  BY ServiceParts, FS_Interval
<1>2. /\ Queued(s.broker) \subseteq DOMAIN s.tasks
      /\ Charged(s.broker) \subseteq DOMAIN s.tasks
      /\ AtWork(s.broker) \subseteq DOMAIN s.tasks
      /\ DOMAIN s.workers \subseteq DOMAIN s.tasks
  BY DEF JobsAreTasks, AtWork
<1> QED BY <1>1, <1>2, FS_Subset

\* A broker with fewer jobs, or with fewer at work, fits as well.
LEMMA LighterBrokers ==
  ASSUME NEW b, IsFiniteSet(Charged(b)), NEW c, Charged(c) \subseteq Charged(b),
         \A j \in Charged(c) : c.active[j].memory = b.active[j].memory, NEW p
  PROVE  /\ ChargesFit(b) => ChargesFit(c)
         /\ AtWork(c) \subseteq AtWork(b) /\ LeavesReserves(b, AtWork(b), p)
              => LeavesReserves(c, AtWork(c), p)
<1>1. \A j \in Charged(c) : Demand(c, j) = Demand(b, j)
  BY DEF Demand
<1>2. ASSUME ChargesFit(b) PROVE ChargesFit(c)
  <2>1. /\ Cardinality(Charged(c)) \in Nat /\ Cardinality(Charged(b)) \in Nat
        /\ Cardinality(Charged(c)) =< Cardinality(Charged(b))
        /\ MemoryInUse(c, Charged(c)) \in Nat /\ MemoryInUse(b, Charged(b)) \in Nat
        /\ MemoryInUse(c, Charged(c)) =< MemoryInUse(b, Charged(b))
    BY <1>1, UsageIsMonotone
  <2>2. /\ Cardinality(Charged(b)) =< WorkerSlots
        /\ Cardinality(Charged(b)) =< CpuSlots
        /\ MemoryInUse(b, Charged(b)) =< MemoryUnits
    BY <1>2 DEF ChargesFit, FitsTheMachine, CpuInUse
  <2>3. WorkerSlots \in Nat /\ CpuSlots \in Nat /\ MemoryUnits \in Nat
    BY CapacityAssumption
  <2> QED BY <2>1, <2>2, <2>3 DEF ChargesFit, FitsTheMachine, CpuInUse
<1>3. ASSUME AtWork(c) \subseteq AtWork(b), LeavesReserves(b, AtWork(b), p)
      PROVE  LeavesReserves(c, AtWork(c), p)
  <2>1. AtWork(c) \subseteq Charged(c) /\ AtWork(b) \subseteq Charged(b)
    BY DEF AtWork
  <2>2. IsFiniteSet(AtWork(b))
    BY <2>1, FS_Subset
  <2> QED BY <1>1, <1>3, <2>1, <2>2, FewerLeaveReserves
<1> QED BY <1>2, <1>3

-----------------------------------------------------------------------------
(* The job of a task is over                                               *)

\* However a job ends - rejected, cancelled, failed, killed, restored or
\* published - its charge, its worker and its pending action go together, and
\* the task shows a completion only with its receipt.
LEMMA JobEnds ==
  ASSUME NEW p, NEW s, NEW actions, Consistent(s, actions, p),
         NEW t \in Charged(s.broker), NEW x \in Services,
         x.broker.queued = s.broker.queued,
         x.broker.active = Without(s.broker.active, {t}),
         x.broker.receipts \in {s.broker.receipts, s.broker.receipts \cup {t}},
         x.workers = Without(s.workers, {t}),
         x.store.results = s.store.results,
         \A u \in DOMAIN s.workers \ {t} :
           s.workers[u].leased => KeyOf(s, u) \in x.store.locks,
         DOMAIN x.tasks = DOMAIN s.tasks, Len(x.tasks) = Len(s.tasks),
         \A u \in DOMAIN s.tasks \ {t} : x.tasks[u] = s.tasks[u],
         KeyOf(x, t) = KeyOf(s, t),
         IsReceipted(x, t)
  PROVE  CarriedOut(s, actions, p, t, x)
<1>1. /\ s \in Services /\ JobsAreTasks(s) /\ WorkersAreCharged(s)
      /\ LiveJobsAreUnsettled(s) /\ ChargesFit(s.broker)
      /\ LeavesReserves(s.broker, AtWork(s.broker), p)
      /\ SessionsAgree(s, DOMAIN actions) /\ LeasesAreExclusive(s)
      /\ \A u \in DOMAIN s.tasks : IsReceipted(s, u)
      /\ ArePending(s, actions)
  BY DEF Consistent
<1>2. /\ Queued(x.broker) = Queued(s.broker)
      /\ Charged(x.broker) = Charged(s.broker) \ {t}
      /\ \A u \in Charged(x.broker) : x.broker.active[u] = s.broker.active[u]
      /\ DOMAIN x.workers = DOMAIN s.workers \ {t}
      /\ \A u \in DOMAIN x.workers : x.workers[u] = s.workers[u]
      /\ DOMAIN Without(actions, {t}) = DOMAIN actions \ {t}
      /\ \A u \in DOMAIN actions \ {t} : Without(actions, {t})[u] = actions[u]
  <2>1. /\ DOMAIN x.broker.active = DOMAIN s.broker.active \ {t}
        /\ \A u \in DOMAIN s.broker.active \ {t} :
             x.broker.active[u] = s.broker.active[u]
    BY DEF Without, Restrict
  <2>2. /\ DOMAIN x.workers = DOMAIN s.workers \ {t}
        /\ \A u \in DOMAIN s.workers \ {t} : x.workers[u] = s.workers[u]
    BY DEF Without, Restrict
  <2>3. /\ DOMAIN Without(actions, {t}) = DOMAIN actions \ {t}
        /\ \A u \in DOMAIN actions \ {t} : Without(actions, {t})[u] = actions[u]
    BY WithoutIs
  <2> QED BY <2>1, <2>2, <2>3 DEF Queued, Charged
<1>3. t \in DOMAIN s.tasks /\ t \notin Queued(s.broker)
      /\ s.tasks[t].status \notin Settled
  BY <1>1 DEF JobsAreTasks, LiveJobsAreUnsettled
<1>4. \A u \in DOMAIN s.tasks : KeyOf(x, u) = KeyOf(s, u)
  BY DEF KeyOf
<1>5. JobsAreTasks(x)
  BY <1>1, <1>2, <1>3 DEF JobsAreTasks
<1>6. WorkersAreCharged(x)
  BY <1>1, <1>2 DEF WorkersAreCharged
<1>7. LiveJobsAreUnsettled(x)
  BY <1>1, <1>2, <1>3 DEF LiveJobsAreUnsettled, JobsAreTasks
<1>8. ChargesFit(x.broker) /\ LeavesReserves(x.broker, AtWork(x.broker), p)
  <2>1. AtWork(x.broker) \subseteq AtWork(s.broker)
    BY <1>2 DEF AtWork
  <2> QED BY <1>1, <1>2, <2>1, JobsAreFinite, LighterBrokers
<1>9. SessionsAgree(x, DOMAIN actions \ {t})
  BY <1>1, <1>2 DEF SessionsAgree
<1>10. LeasesAreExclusive(x)
  <2>1. \A u \in DOMAIN x.workers : KeyOf(x, u) = KeyOf(s, u)
    BY <1>1, <1>2, <1>4 DEF JobsAreTasks
  <2>2. ASSUME NEW u \in DOMAIN x.workers, x.workers[u].leased
        PROVE  /\ KeyOf(s, u) \in x.store.locks
               /\ KeyOf(s, u) \notin DOMAIN x.store.results
               /\ \A w \in DOMAIN x.workers \ {u} :
                    x.workers[w].leased => KeyOf(s, w) # KeyOf(s, u)
    <3>1. u \in DOMAIN s.workers \ {t} /\ s.workers[u].leased
      BY <1>2, <2>2
    <3>2. /\ KeyOf(s, u) \notin DOMAIN s.store.results
          /\ \A w \in DOMAIN s.workers \ {u} :
               s.workers[w].leased => KeyOf(s, w) # KeyOf(s, u)
      BY <1>1, <3>1 DEF LeasesAreExclusive
    <3> QED BY <1>2, <3>1, <3>2
  <2> QED BY <2>1, <2>2 DEF LeasesAreExclusive
<1>11. \A u \in DOMAIN x.tasks : IsReceipted(x, u)
  <2>1. ASSUME NEW u \in DOMAIN s.tasks, u # t PROVE IsReceipted(x, u)
    <3>1. x.tasks[u] = s.tasks[u] /\ KeyOf(x, u) = KeyOf(s, u)
      BY <1>4, <2>1
    <3>2. s.broker.receipts \subseteq x.broker.receipts
      OBVIOUS
    <3>3. IsReceipted(s, u)
      BY <1>1
    <3> QED BY <1>2, <3>1, <3>2, <3>3 DEF IsReceipted
  <2> QED BY <2>1
<1>12. ArePending(x, Without(actions, {t}))
  <2>1. ASSUME NEW u \in DOMAIN actions \ {t} PROVE IsPending(x, u, actions[u])
    <3>1. IsPending(s, u, actions[u])
      BY <1>1 DEF ArePending
    <3>2. u \in Charged(s.broker) /\ u # t
      BY <3>1, <2>1 DEF IsPending
    <3>3. /\ u \in Charged(x.broker) /\ x.broker.active[u] = s.broker.active[u]
          /\ u \in DOMAIN x.workers <=> u \in DOMAIN s.workers
      BY <3>2, <1>2
    <3> QED BY <3>1, <3>3 DEF IsPending
  <2> QED BY <1>2, <2>1 DEF ArePending
<1>13. KeepsTasks(s, x)
  BY <1>3, <1>4 DEF KeepsTasks
<1> QED BY <1>2, <1>5, <1>6, <1>7, <1>8, <1>9, <1>10, <1>11, <1>12, <1>13
  DEF Consistent, CarriedOut

-----------------------------------------------------------------------------
(* What the helpers of the service change                                  *)

\* set_status and fail change the status of one task.
LEMMA StatusIs ==
  ASSUME NEW s \in Services, NEW t \in DOMAIN s.tasks,
         NEW status \in Pending \cup Ended, NEW x, x = WithStatus(s, t, status)
  PROVE  /\ x \in Services
         /\ x.broker = s.broker /\ x.workers = s.workers /\ x.store = s.store
         /\ DOMAIN x.tasks = DOMAIN s.tasks /\ Len(x.tasks) = Len(s.tasks)
         /\ \A u \in DOMAIN s.tasks \ {t} : x.tasks[u] = s.tasks[u]
         /\ x.tasks[t].key = s.tasks[t].key
         /\ (x.tasks[t].verified <=> s.tasks[t].verified)
         /\ x.tasks[t].status = status
<1>1. x.tasks = [s.tasks EXCEPT ![t].status = status]
      /\ x.broker = s.broker /\ x.workers = s.workers /\ x.store = s.store
      /\ x = [tasks |-> x.tasks, broker |-> s.broker, workers |-> s.workers,
              store |-> s.store]
  BY DEF WithStatus, Services
<1>2. s.tasks \in Seq(Task) /\ s.tasks[t] \in Task
  BY ServiceParts, EntriesAre
<1>3. [s.tasks[t] EXCEPT !.status = status] \in Task
  BY <1>2 DEF Task
<1>4. x.tasks \in Seq(Task) /\ Len(x.tasks) = Len(s.tasks)
      /\ DOMAIN x.tasks = DOMAIN s.tasks
  BY <1>1, <1>2, <1>3
<1>5. x.tasks[t] = [s.tasks[t] EXCEPT !.status = status]
  BY <1>1, <1>2
<1>6. \A u \in DOMAIN s.tasks \ {t} : x.tasks[u] = s.tasks[u]
  BY <1>1
<1>7. x \in Services
  BY <1>1, <1>4, ServiceParts DEF Services
<1> QED BY <1>1, <1>2, <1>4, <1>5, <1>6, <1>7 DEF Task

\* A service with another broker is a service.
LEMMA WithBrokerIs ==
  ASSUME NEW s \in Services, NEW b \in Brokers
  PROVE  [s EXCEPT !.broker = b] \in Services
  BY DEF Services

\* acknowledge_terminal takes one job out of the active ones.
LEMMA AcknowledgedIs ==
  ASSUME NEW s \in Services, NEW t, NEW x, x = Acknowledged(s, t)
  PROVE  /\ x \in Services
         /\ x.tasks = s.tasks /\ x.workers = s.workers /\ x.store = s.store
         /\ x.broker.queued = s.broker.queued
         /\ x.broker.receipts = s.broker.receipts
         /\ x.broker.active = Without(s.broker.active, {t})
<1>1. x = [s EXCEPT !.broker = AcknowledgeTerminal(s.broker, t)]
  BY DEF Acknowledged
<1>2. s.broker \in Brokers
  BY ServiceParts
<1>3. /\ AcknowledgeTerminal(s.broker, t).queued = s.broker.queued
      /\ AcknowledgeTerminal(s.broker, t).receipts = s.broker.receipts
      /\ AcknowledgeTerminal(s.broker, t).active = Without(s.broker.active, {t})
      /\ AcknowledgeTerminal(s.broker, t)
           = [queued |-> s.broker.queued, receipts |-> s.broker.receipts,
              active |-> Without(s.broker.active, {t})]
  BY <1>2 DEF AcknowledgeTerminal, Brokers
<1>4. Without(s.broker.active, {t}) \in Maps(Jobs, ActiveJob)
  BY ServiceParts, WithoutIsMap
<1>5. AcknowledgeTerminal(s.broker, t) \in Brokers
  BY <1>2, <1>3, <1>4 DEF Brokers
<1>6. x \in Services
  BY <1>1, <1>5, WithBrokerIs
<1>7. /\ x.tasks = s.tasks /\ x.workers = s.workers /\ x.store = s.store
      /\ x.broker = AcknowledgeTerminal(s.broker, t)
  BY <1>1 DEF Services
<1> QED BY <1>3, <1>6, <1>7

\* Giving up a lease removes its lock and no other.
LEMMA UnlockedIs ==
  ASSUME NEW s \in Services, NEW t \in DOMAIN s.workers, NEW x, x = Unlocked(s, t)
  PROVE  /\ x \in Services
         /\ x.tasks = s.tasks /\ x.broker = s.broker
         /\ DOMAIN x.workers = DOMAIN s.workers
         /\ \A u \in DOMAIN s.workers \ {t} : x.workers[u] = s.workers[u]
         /\ (x.workers[t].cancelling <=> s.workers[t].cancelling)
         /\ x.workers[t].reports = s.workers[t].reports
         /\ ~x.workers[t].leased
         /\ x.store.results = s.store.results
         /\ x.store.sandboxes = s.store.sandboxes
         /\ \A k \in s.store.locks :
              k \in x.store.locks \/ (s.workers[t].leased /\ k = KeyOf(s, t))
<1>1. s.workers \in [DOMAIN s.workers -> Worker] /\ DOMAIN s.workers \subseteq Jobs
      /\ s.workers[t] \in Worker
  BY ServiceParts, MapsAre
<1>2. CASE ~s.workers[t].leased
  BY <1>1, <1>2 DEF Unlocked, Worker
<1>3. CASE s.workers[t].leased
  <2>1. x = [s EXCEPT !.store.locks = @ \ {KeyOf(s, t)},
                      !.workers[t].leased = FALSE]
    BY <1>3 DEF Unlocked
  <2>2. /\ x.tasks = s.tasks /\ x.broker = s.broker
        /\ x.workers = [s.workers EXCEPT ![t].leased = FALSE]
        /\ x.store = [s.store EXCEPT !.locks = @ \ {KeyOf(s, t)}]
        /\ x = [tasks |-> s.tasks, broker |-> s.broker,
                workers |-> x.workers, store |-> x.store]
    BY <2>1 DEF Services
  <2>3. [s.workers[t] EXCEPT !.leased = FALSE] \in Worker
    BY <1>1 DEF Worker
  <2>4. x.workers \in [DOMAIN s.workers -> Worker]
        /\ x.workers[t] = [s.workers[t] EXCEPT !.leased = FALSE]
        /\ \A u \in DOMAIN s.workers \ {t} : x.workers[u] = s.workers[u]
    BY <1>1, <2>2, <2>3
  <2>5. x.workers \in Maps(Jobs, Worker)
    BY <1>1, <2>4 DEF Maps
  <2>6. x.store \in Stores /\ x.store.locks = s.store.locks \ {KeyOf(s, t)}
        /\ x.store.results = s.store.results
        /\ x.store.sandboxes = s.store.sandboxes
    BY <2>2, ServiceParts DEF Stores
  <2>7. x \in Services
    BY <2>2, <2>5, <2>6, ServiceParts DEF Services
  <2> QED BY <1>1, <1>3, <2>2, <2>4, <2>6, <2>7 DEF Worker
<1> QED BY <1>2, <1>3

\* A dropped worker is gone and holds no lease.
LEMMA DroppedIs ==
  ASSUME NEW s \in Services, NEW t \in DOMAIN s.workers, NEW x, x = Dropped(s, t)
  PROVE  /\ x \in Services
         /\ x.tasks = s.tasks /\ x.broker = s.broker
         /\ x.workers = Without(s.workers, {t})
         /\ x.store.results = s.store.results
         /\ x.store.sandboxes = s.store.sandboxes
         /\ \A k \in s.store.locks :
              k \in x.store.locks \/ (s.workers[t].leased /\ k = KeyOf(s, t))
<1>0. PICK u : u = Unlocked(s, t)
  OBVIOUS
<1>1. /\ u \in Services /\ u.tasks = s.tasks /\ u.broker = s.broker
      /\ DOMAIN u.workers = DOMAIN s.workers
      /\ \A w \in DOMAIN s.workers \ {t} : u.workers[w] = s.workers[w]
      /\ u.store.results = s.store.results
      /\ u.store.sandboxes = s.store.sandboxes
      /\ \A k \in s.store.locks :
           k \in u.store.locks \/ (s.workers[t].leased /\ k = KeyOf(s, t))
  BY <1>0, UnlockedIs
<1>2. x = [u EXCEPT !.workers = Without(u.workers, {t})]
  BY <1>0 DEF Dropped
<1>3. Without(u.workers, {t}) = Without(s.workers, {t})
  BY <1>1 DEF Without, Restrict
<1>4. Without(u.workers, {t}) \in Maps(Jobs, Worker)
  BY <1>1, ServiceParts, WithoutIsMap
<1>5. /\ x \in Services /\ x.tasks = u.tasks /\ x.broker = u.broker
      /\ x.workers = Without(u.workers, {t}) /\ x.store = u.store
  BY <1>1, <1>2, <1>4 DEF Services
<1> QED BY <1>1, <1>3, <1>5

-----------------------------------------------------------------------------
(* The ways a job ends                                                     *)

\* reject_start, reject_broker_state and a cache hit at the start: a job without
\* a worker fails or its result is restored, and the locks in the store are at
\* least those that were there.
LEMMA UnstartedJobEnds ==
  ASSUME NEW p, NEW s, NEW actions, Consistent(s, actions, p),
         NEW t \in Charged(s.broker), t \notin DOMAIN s.workers,
         NEW r \in Services, r.tasks = s.tasks, r.broker = s.broker,
         r.workers = s.workers, r.store.results = s.store.results,
         s.store.locks \subseteq r.store.locks,
         NEW status \in {"Failed", "Restored"},
         NEW x, x = WithStatus(Acknowledged(r, t), t, status)
  PROVE  CarriedOut(s, actions, p, t, x)
<1>1. /\ s \in Services /\ JobsAreTasks(s) /\ LiveJobsAreUnsettled(s)
      /\ LeasesAreExclusive(s) /\ \A u \in DOMAIN s.tasks : IsReceipted(s, u)
  BY DEF Consistent
<1>2. t \in DOMAIN s.tasks /\ s.tasks[t].status \notin Settled
  BY <1>1 DEF JobsAreTasks, LiveJobsAreUnsettled
<1>3. PICK a : a = Acknowledged(r, t)
  OBVIOUS
<1>4. /\ a \in Services
      /\ a.tasks = s.tasks /\ a.workers = s.workers /\ a.store = r.store
      /\ a.broker.queued = s.broker.queued
      /\ a.broker.receipts = s.broker.receipts
      /\ a.broker.active = Without(s.broker.active, {t})
  BY <1>3, AcknowledgedIs
<1>5. x = WithStatus(a, t, status) /\ status \in Pending \cup Ended
  BY <1>3 DEF Pending, Ended
<1>6. /\ x \in Services
      /\ x.broker = a.broker /\ x.workers = a.workers /\ x.store = a.store
      /\ DOMAIN x.tasks = DOMAIN a.tasks /\ Len(x.tasks) = Len(a.tasks)
      /\ \A u \in DOMAIN a.tasks \ {t} : x.tasks[u] = a.tasks[u]
      /\ x.tasks[t].key = a.tasks[t].key
      /\ (x.tasks[t].verified <=> a.tasks[t].verified)
      /\ x.tasks[t].status = status
  BY <1>2, <1>4, <1>5, StatusIs
<1>7. x.workers = Without(s.workers, {t})
  <2>1. s.workers \in [DOMAIN s.workers -> Worker]
    BY <1>1, ServiceParts, MapsAre
  <2>2. DOMAIN s.workers \ {t} = DOMAIN s.workers
    OBVIOUS
  <2> QED BY <1>4, <1>6, <2>1, <2>2 DEF Without, Restrict
<1>8. IsReceipted(x, t)
  <2>1. ~s.tasks[t].verified
    BY <1>1, <1>2 DEF IsReceipted, Settled
  <2> QED BY <1>4, <1>6, <2>1 DEF IsReceipted
<1>9. \A u \in DOMAIN s.workers \ {t} :
        s.workers[u].leased => KeyOf(s, u) \in x.store.locks
  BY <1>1, <1>4, <1>6 DEF LeasesAreExclusive
<1>10. KeyOf(x, t) = KeyOf(s, t)
  BY <1>4, <1>6 DEF KeyOf
<1>11. /\ x \in Services
       /\ x.broker.queued = s.broker.queued
       /\ x.broker.active = Without(s.broker.active, {t})
       /\ x.broker.receipts \in {s.broker.receipts, s.broker.receipts \cup {t}}
       /\ x.workers = Without(s.workers, {t})
       /\ x.store.results = s.store.results
       /\ DOMAIN x.tasks = DOMAIN s.tasks /\ Len(x.tasks) = Len(s.tasks)
       /\ \A u \in DOMAIN s.tasks \ {t} : x.tasks[u] = s.tasks[u]
  BY <1>4, <1>6, <1>7
<1> QED BY <1>8, <1>9, <1>10, <1>11, JobEnds

\* A worker is killed, fails, is cancelled or is refused: it is dropped, its
\* job acknowledged, and its task fails or is cancelled.
LEMMA DroppedJobEnds ==
  ASSUME NEW p, NEW s, NEW actions, Consistent(s, actions, p),
         NEW t \in DOMAIN s.workers, NEW status \in {"Cancelled", "Failed"},
         NEW x, x = WithStatus(Acknowledged(Dropped(s, t), t), t, status)
  PROVE  CarriedOut(s, actions, p, t, x)
<1>1. /\ s \in Services /\ JobsAreTasks(s) /\ LiveJobsAreUnsettled(s)
      /\ LeasesAreExclusive(s) /\ \A u \in DOMAIN s.tasks : IsReceipted(s, u)
      /\ WorkersAreCharged(s)
  BY DEF Consistent
<1>2. /\ t \in Charged(s.broker) /\ t \in DOMAIN s.tasks
      /\ s.tasks[t].status \notin Settled
  BY <1>1 DEF JobsAreTasks, LiveJobsAreUnsettled, WorkersAreCharged
<1>3. PICK d : d = Dropped(s, t)
  OBVIOUS
<1>4. /\ d \in Services /\ d.tasks = s.tasks /\ d.broker = s.broker
      /\ d.workers = Without(s.workers, {t})
      /\ d.store.results = s.store.results
      /\ \A k \in s.store.locks :
           k \in d.store.locks \/ (s.workers[t].leased /\ k = KeyOf(s, t))
  BY <1>1, <1>3, DroppedIs
<1>5. PICK a : a = Acknowledged(d, t)
  OBVIOUS
<1>6. /\ a \in Services
      /\ a.tasks = s.tasks /\ a.workers = d.workers /\ a.store = d.store
      /\ a.broker.queued = s.broker.queued
      /\ a.broker.receipts = s.broker.receipts
      /\ a.broker.active = Without(s.broker.active, {t})
  BY <1>4, <1>5, AcknowledgedIs
<1>7. x = WithStatus(a, t, status) /\ status \in Pending \cup Ended
  BY <1>3, <1>5 DEF Pending, Ended
<1>8. /\ x \in Services
      /\ x.broker = a.broker /\ x.workers = a.workers /\ x.store = a.store
      /\ DOMAIN x.tasks = DOMAIN a.tasks /\ Len(x.tasks) = Len(a.tasks)
      /\ \A u \in DOMAIN a.tasks \ {t} : x.tasks[u] = a.tasks[u]
      /\ x.tasks[t].key = a.tasks[t].key
      /\ (x.tasks[t].verified <=> a.tasks[t].verified)
      /\ x.tasks[t].status = status
  BY <1>2, <1>6, <1>7, StatusIs
<1>9. IsReceipted(x, t)
  <2>1. ~s.tasks[t].verified
    BY <1>1, <1>2 DEF IsReceipted, Settled
  <2> QED BY <1>6, <1>8, <2>1 DEF IsReceipted
<1>10. \A u \in DOMAIN s.workers \ {t} :
         s.workers[u].leased => KeyOf(s, u) \in x.store.locks
  BY <1>1, <1>4, <1>6, <1>8 DEF LeasesAreExclusive
<1>11. KeyOf(x, t) = KeyOf(s, t)
  BY <1>6, <1>8 DEF KeyOf
<1>12. /\ x \in Services
       /\ x.broker.queued = s.broker.queued
       /\ x.broker.active = Without(s.broker.active, {t})
       /\ x.broker.receipts \in {s.broker.receipts, s.broker.receipts \cup {t}}
       /\ x.workers = Without(s.workers, {t})
       /\ x.store.results = s.store.results
       /\ DOMAIN x.tasks = DOMAIN s.tasks /\ Len(x.tasks) = Len(s.tasks)
       /\ \A u \in DOMAIN s.tasks \ {t} : x.tasks[u] = s.tasks[u]
  BY <1>4, <1>6, <1>8
<1> QED BY <1>2, <1>9, <1>10, <1>11, <1>12, JobEnds

-----------------------------------------------------------------------------
(* Starting a worker                                                       *)

\* What start_ticket leaves once the request was sent.
LEMMA StartedIs ==
  ASSUME NEW s \in Services, JobsAreTasks(s), NEW t \in Charged(s.broker),
         NEW x, x = StartWorker(s, t)
  PROVE  /\ x \in Services
         /\ x.broker.queued = s.broker.queued
         /\ x.broker.receipts = s.broker.receipts
         /\ Charged(x.broker) = Charged(s.broker)
         /\ \A u \in Charged(s.broker) :
              x.broker.active[u].memory = s.broker.active[u].memory
         /\ \A u \in Charged(s.broker) \ {t} :
              x.broker.active[u] = s.broker.active[u]
         /\ x.broker.active[t].state = "Running"
         /\ DOMAIN x.workers = DOMAIN s.workers \cup {t}
         /\ \A u \in DOMAIN s.workers \ {t} : x.workers[u] = s.workers[u]
         /\ x.workers[t] = NewWorker
         /\ x.store.results = s.store.results
         /\ x.store.locks = s.store.locks \cup {KeyOf(s, t)}
         /\ DOMAIN x.tasks = DOMAIN s.tasks /\ Len(x.tasks) = Len(s.tasks)
         /\ \A u \in DOMAIN s.tasks \ {t} : x.tasks[u] = s.tasks[u]
         /\ x.tasks[t].key = s.tasks[t].key
         /\ (x.tasks[t].verified <=> s.tasks[t].verified)
         /\ x.tasks[t].status = "Running"
<1>1. t \in DOMAIN s.tasks /\ t \in Jobs /\ KeyOf(s, t) \in Keys
  BY EntriesAre DEF JobsAreTasks
<1>2. PICK r : r = Reserved(s, t)
  OBVIOUS
<1>3. /\ r \in Services
      /\ r.tasks = s.tasks /\ r.broker = s.broker /\ r.workers = s.workers
      /\ r.store.results = s.store.results
      /\ r.store.locks = s.store.locks \cup {KeyOf(s, t)}
  <2>1. /\ r.tasks = s.tasks /\ r.broker = s.broker /\ r.workers = s.workers
        /\ r = [tasks |-> s.tasks, broker |-> s.broker, workers |-> s.workers,
                store |-> r.store]
        /\ r.store = [results |-> s.store.results,
                      locks |-> s.store.locks \cup {KeyOf(s, t)},
                      sandboxes |-> s.store.sandboxes \cup {Sandbox(s, t)}]
    BY <1>2, ServiceParts DEF Reserved, Locked, Services, Stores
  <2>2. Sandbox(s, t) \in Keys \X Jobs
    BY <1>1 DEF Sandbox
  <2>3. r.store \in Stores
    BY <1>1, <2>1, <2>2, ServiceParts DEF Stores
  <2>4. r \in Services
    BY <2>1, <2>3, ServiceParts DEF Services
  <2> QED BY <2>1, <2>4
<1> DEFINE b == ObserveStarted(s.broker, t)
           w == Updated(s.workers, [u \in {t} |-> NewWorker])
<1>4. /\ b \in Brokers
      /\ b.queued = s.broker.queued /\ b.receipts = s.broker.receipts
      /\ Charged(b) = Charged(s.broker)
      /\ \A u \in Charged(s.broker) : b.active[u].memory = s.broker.active[u].memory
      /\ \A u \in Charged(s.broker) \ {t} : b.active[u] = s.broker.active[u]
      /\ b.active[t].state = "Running"
  <2> DEFINE job == [s.broker.active[t] EXCEPT !.state = "Running", !.late = FALSE]
  <2>1. s.broker.active \in [Charged(s.broker) -> ActiveJob]
        /\ Charged(s.broker) \subseteq Jobs
    BY ServiceParts, MapsAre DEF Charged
  <2>2. job \in ActiveJob /\ job.state = "Running"
        /\ job.memory = s.broker.active[t].memory
    BY <2>1 DEF ActiveJob, Escalations
  <2>3. /\ b.queued = s.broker.queued /\ b.receipts = s.broker.receipts
        /\ b.active = [s.broker.active EXCEPT ![t] = job]
        /\ b = [queued |-> s.broker.queued, receipts |-> s.broker.receipts,
                active |-> b.active]
    <3>1. s.broker \in Brokers
      BY ServiceParts
    <3> QED BY <3>1 DEF ObserveStarted, Brokers
  <2> HIDE DEF b, job
  <2>4. b.active \in [Charged(s.broker) -> ActiveJob] /\ b.active[t] = job
        /\ \A u \in Charged(s.broker) \ {t} : b.active[u] = s.broker.active[u]
    BY <2>1, <2>2, <2>3
  <2>5. Charged(b) = Charged(s.broker) /\ b.active \in Maps(Jobs, ActiveJob)
    BY <2>1, <2>4 DEF Charged, Maps
  <2>6. b \in Brokers
    BY <2>3, <2>5, ServiceParts DEF Brokers
  <2> QED BY <2>2, <2>3, <2>4, <2>5, <2>6
<1>5. /\ w \in Maps(Jobs, Worker)
      /\ DOMAIN w = DOMAIN s.workers \cup {t} /\ w[t] = NewWorker
      /\ \A u \in DOMAIN s.workers \ {t} : w[u] = s.workers[u]
  <2>1. NewWorker \in Worker
    BY ServiceAssumption DEF NewWorker, Worker
  <2>2. [u \in {t} |-> NewWorker] \in Maps(Jobs, Worker)
    <3>1. [u \in {t} |-> NewWorker] \in [{t} -> Worker] /\ {t} \in SUBSET Jobs
      BY <1>1, <2>1
    <3> QED BY <3>1 DEF Maps
  <2>3. w \in Maps(Jobs, Worker)
    BY <2>2, ServiceParts, UpdatedIsMap
  <2> QED BY <2>3 DEF Updated
<1>6. x = WithStatus([r EXCEPT !.workers = w, !.broker = b], t, "Running")
  BY <1>2, <1>3 DEF StartWorker
<1> HIDE DEF b, w
<1>7. PICK y : y = [r EXCEPT !.workers = w, !.broker = b]
  OBVIOUS
<1>8. /\ y \in Services /\ y.tasks = s.tasks /\ y.broker = b /\ y.workers = w
      /\ y.store = r.store
  BY <1>3, <1>4, <1>5, <1>7 DEF Services
<1>9. x = WithStatus(y, t, "Running") /\ "Running" \in Pending \cup Ended
  BY <1>6, <1>7 DEF Pending
<1>10. /\ x \in Services
       /\ x.broker = y.broker /\ x.workers = y.workers /\ x.store = y.store
       /\ DOMAIN x.tasks = DOMAIN y.tasks /\ Len(x.tasks) = Len(y.tasks)
       /\ \A u \in DOMAIN y.tasks \ {t} : x.tasks[u] = y.tasks[u]
       /\ x.tasks[t].key = y.tasks[t].key
       /\ (x.tasks[t].verified <=> y.tasks[t].verified)
       /\ x.tasks[t].status = "Running"
  BY <1>1, <1>8, <1>9, StatusIs
<1> QED BY <1>3, <1>4, <1>5, <1>8, <1>10

\* A pending start is of a starting job that has no worker.
LEMMA PendingStart ==
  ASSUME NEW p, NEW s, NEW actions, Consistent(s, actions, p),
         NEW t \in DOMAIN actions, actions[t] = Start(t)
  PROVE  /\ t \in Charged(s.broker) /\ t \notin DOMAIN s.workers
         /\ s.broker.active[t].state = "Starting"
<1>1. IsPending(s, t, actions[t])
  BY DEF Consistent, ArePending
<1>2. \A why : SendCancel(t, why) # Start(t) /\ Kill(t, why) # Start(t)
  BY DEF Start, SendCancel, Kill
<1> QED BY <1>1, <1>2 DEF IsPending

\* A started worker holds the only lease of its key, and broker and session
\* agree about it.
LEMMA StartedJobRuns ==
  ASSUME NEW p, NEW s, NEW actions, Consistent(s, actions, p),
         NEW t \in DOMAIN actions, actions[t] = Start(t),
         KeyOf(s, t) \notin DOMAIN s.store.results,
         KeyOf(s, t) \notin s.store.locks,
         NEW x, x = StartWorker(s, t)
  PROVE  CarriedOut(s, actions, p, t, x)
<1>1. /\ s \in Services /\ JobsAreTasks(s) /\ WorkersAreCharged(s)
      /\ LiveJobsAreUnsettled(s) /\ ChargesFit(s.broker)
      /\ LeavesReserves(s.broker, AtWork(s.broker), p)
      /\ SessionsAgree(s, DOMAIN actions) /\ LeasesAreExclusive(s)
      /\ \A u \in DOMAIN s.tasks : IsReceipted(s, u)
      /\ ArePending(s, actions)
  BY DEF Consistent
<1>2. /\ t \in Charged(s.broker) /\ t \notin DOMAIN s.workers
      /\ s.broker.active[t].state = "Starting"
  BY PendingStart
<1>3. /\ x \in Services
      /\ x.broker.queued = s.broker.queued
      /\ x.broker.receipts = s.broker.receipts
      /\ Charged(x.broker) = Charged(s.broker)
      /\ \A u \in Charged(s.broker) :
           x.broker.active[u].memory = s.broker.active[u].memory
      /\ \A u \in Charged(s.broker) \ {t} :
           x.broker.active[u] = s.broker.active[u]
      /\ x.broker.active[t].state = "Running"
      /\ DOMAIN x.workers = DOMAIN s.workers \cup {t}
      /\ \A u \in DOMAIN s.workers \ {t} : x.workers[u] = s.workers[u]
      /\ x.workers[t] = NewWorker
      /\ x.store.results = s.store.results
      /\ x.store.locks = s.store.locks \cup {KeyOf(s, t)}
      /\ DOMAIN x.tasks = DOMAIN s.tasks /\ Len(x.tasks) = Len(s.tasks)
      /\ \A u \in DOMAIN s.tasks \ {t} : x.tasks[u] = s.tasks[u]
      /\ x.tasks[t].key = s.tasks[t].key
      /\ (x.tasks[t].verified <=> s.tasks[t].verified)
      /\ x.tasks[t].status = "Running"
  BY <1>1, <1>2, StartedIs
<1>4. /\ Queued(x.broker) = Queued(s.broker)
      /\ t \in DOMAIN s.tasks /\ s.tasks[t].status \notin Settled
      /\ \A u \in DOMAIN s.tasks : KeyOf(x, u) = KeyOf(s, u)
      /\ DOMAIN Without(actions, {t}) = DOMAIN actions \ {t}
      /\ \A u \in DOMAIN actions \ {t} : Without(actions, {t})[u] = actions[u]
  <2>1. t \in DOMAIN s.tasks /\ s.tasks[t].status \notin Settled
    BY <1>1, <1>2 DEF JobsAreTasks, LiveJobsAreUnsettled
  <2>2. \A u \in DOMAIN s.tasks : KeyOf(x, u) = KeyOf(s, u)
    BY <1>3 DEF KeyOf
  <2>3. /\ DOMAIN Without(actions, {t}) = DOMAIN actions \ {t}
        /\ \A u \in DOMAIN actions \ {t} : Without(actions, {t})[u] = actions[u]
    BY WithoutIs
  <2> QED BY <1>3, <2>1, <2>2, <2>3 DEF Queued
<1>5. JobsAreTasks(x) /\ WorkersAreCharged(x)
  BY <1>1, <1>2, <1>3, <1>4 DEF JobsAreTasks, WorkersAreCharged
<1>6. LiveJobsAreUnsettled(x)
  <2>1. \A u \in Queued(s.broker) \cup Charged(s.broker) :
          u \in DOMAIN s.tasks /\ s.tasks[u].status \notin Settled
    BY <1>1 DEF LiveJobsAreUnsettled, JobsAreTasks
  <2> QED BY <1>3, <1>4, <2>1 DEF LiveJobsAreUnsettled, Settled
<1>7. ChargesFit(x.broker) /\ LeavesReserves(x.broker, AtWork(x.broker), p)
  <2>1. AtWork(x.broker) \subseteq AtWork(s.broker)
    BY <1>2, <1>3 DEF AtWork
  <2>2. IsFiniteSet(Charged(s.broker))
    BY <1>1, JobsAreFinite
  <2> QED BY <1>1, <1>3, <2>1, <2>2, LighterBrokers
<1>8. SessionsAgree(x, DOMAIN actions \ {t})
  <2>1. ~x.workers[t].cancelling
    BY <1>3 DEF NewWorker
  <2>2. ASSUME NEW u \in Charged(s.broker) \ (DOMAIN actions \ {t}), u # t
        PROVE  /\ x.broker.active[u].state \in {"Running", "CancelRequested"}
               /\ u \in DOMAIN x.workers =>
                    (x.workers[u].cancelling
                       <=> x.broker.active[u].state = "CancelRequested")
    <3>1. x.broker.active[u] = s.broker.active[u]
          /\ (u \in DOMAIN x.workers <=> u \in DOMAIN s.workers)
          /\ (u \in DOMAIN s.workers => x.workers[u] = s.workers[u])
      BY <1>3, <2>2
    <3> QED BY <1>1, <2>2, <3>1 DEF SessionsAgree
  <2> QED BY <1>3, <2>1, <2>2 DEF SessionsAgree
<1>9. LeasesAreExclusive(x)
  <2>1. \A u \in DOMAIN x.workers : KeyOf(x, u) = KeyOf(s, u)
    BY <1>1, <1>3, <1>4 DEF JobsAreTasks
  <2>2. ASSUME NEW u \in DOMAIN s.workers, s.workers[u].leased
        PROVE  /\ KeyOf(s, u) \in s.store.locks /\ KeyOf(s, u) # KeyOf(s, t)
               /\ KeyOf(s, u) \notin DOMAIN s.store.results
               /\ \A w \in DOMAIN s.workers \ {u} :
                    s.workers[w].leased => KeyOf(s, w) # KeyOf(s, u)
    BY <1>1, <2>2 DEF LeasesAreExclusive
  <2>3. \A u \in DOMAIN x.workers : u = t \/ u \in DOMAIN s.workers
    BY <1>3
  <2>4. \A u \in DOMAIN s.workers : u # t /\ x.workers[u] = s.workers[u]
    BY <1>2, <1>3
  <2> QED BY <1>3, <2>1, <2>2, <2>3, <2>4 DEF LeasesAreExclusive
<1>10. \A u \in DOMAIN x.tasks : IsReceipted(x, u)
  <2>1. ~s.tasks[t].verified
    BY <1>1, <1>4 DEF IsReceipted, Settled
  <2>2. IsReceipted(x, t)
    BY <1>3, <2>1 DEF IsReceipted
  <2>3. ASSUME NEW u \in DOMAIN s.tasks, u # t PROVE IsReceipted(x, u)
    <3>1. x.tasks[u] = s.tasks[u] /\ KeyOf(x, u) = KeyOf(s, u) /\ IsReceipted(s, u)
      BY <1>1, <1>3, <1>4, <2>3
    <3> QED BY <1>3, <3>1 DEF IsReceipted
  <2> QED BY <1>3, <2>2, <2>3
<1>11. ArePending(x, Without(actions, {t}))
  <2>1. ASSUME NEW u \in DOMAIN actions \ {t} PROVE IsPending(x, u, actions[u])
    <3>1. IsPending(s, u, actions[u])
      BY <1>1 DEF ArePending
    <3>2. /\ u \in Charged(x.broker) /\ x.broker.active[u] = s.broker.active[u]
          /\ u \in DOMAIN x.workers <=> u \in DOMAIN s.workers
      BY <1>3, <2>1, <3>1 DEF IsPending
    <3> QED BY <3>1, <3>2 DEF IsPending
  <2> QED BY <1>4, <2>1 DEF ArePending
<1>12. KeepsTasks(s, x)
  BY <1>3, <1>4 DEF KeepsTasks
<1> QED BY <1>3, <1>4, <1>5, <1>6, <1>7, <1>8, <1>9, <1>10, <1>11, <1>12
  DEF Consistent, CarriedOut

\* Whatever becomes of a start, the job runs with the lease or is over.
LEMMA TicketIsStarted ==
  ASSUME NEW p, NEW s, NEW actions, Consistent(s, actions, p),
         NEW t \in DOMAIN actions, actions[t] = Start(t),
         NEW launch \in Launches, NEW x, x = StartTicket(s, t, launch)
  PROVE  CarriedOut(s, actions, p, t, x)
<1> DEFINE key == KeyOf(s, t)
<1>1. t \in Charged(s.broker) /\ t \notin DOMAIN s.workers
  BY PendingStart
<1>2. s \in Services /\ t \in DOMAIN s.tasks /\ t \in Jobs /\ key \in Keys
  <2>1. s \in Services /\ JobsAreTasks(s)
    BY DEF Consistent
  <2> QED BY <1>1, <2>1, EntriesAre DEF JobsAreTasks
<1>3. ASSUME NEW r \in Services, r.tasks = s.tasks, r.broker = s.broker,
             r.workers = s.workers, r.store.results = s.store.results,
             s.store.locks \subseteq r.store.locks, x = RejectStart(r, t)
      PROVE  CarriedOut(s, actions, p, t, x)
  <2>1. PICK status \in {"Failed", "Restored"} :
          x = WithStatus(Acknowledged(r, t), t, status)
    BY <1>3 DEF RejectStart, Fail
  <2> QED BY <1>1, <1>3, <2>1, UnstartedJobEnds
<1>4. CASE x = RejectStart(s, t)
  BY <1>2, <1>3, <1>4
<1>5. CASE x = RestoreCached(Acknowledged(s, t), t)
  <2>1. PICK status \in {"Failed", "Restored"} :
          x = WithStatus(Acknowledged(s, t), t, status)
    BY <1>5 DEF RestoreCached, Fail
  <2>2. s.store.locks \subseteq s.store.locks
    OBVIOUS
  <2> QED BY <1>1, <1>2, <2>1, <2>2, UnstartedJobEnds
<1>6. CASE x = RejectStart(Locked(s, t), t)
  <2>1. PICK r : r = Locked(s, t)
    OBVIOUS
  <2>2. /\ r.tasks = s.tasks /\ r.broker = s.broker /\ r.workers = s.workers
        /\ r = [tasks |-> s.tasks, broker |-> s.broker, workers |-> s.workers,
                store |-> r.store]
        /\ r.store = [results |-> s.store.results,
                      locks |-> s.store.locks \cup {key},
                      sandboxes |-> s.store.sandboxes]
    BY <1>2, <2>1, ServiceParts DEF Locked, Services, Stores
  <2>3. r.store \in Stores
    BY <1>2, <2>2, ServiceParts DEF Stores
  <2>4. r \in Services
    BY <1>2, <2>2, <2>3, ServiceParts DEF Services
  <2>5. r.store.results = s.store.results /\ s.store.locks \subseteq r.store.locks
    BY <2>2
  <2> QED BY <1>3, <1>6, <2>1, <2>2, <2>4, <2>5
<1>7. CASE x = RejectStart([Reserved(s, t) EXCEPT !.store.locks = @ \ {key}], t)
           /\ key \notin s.store.locks
  <2>1. PICK r : r = [Reserved(s, t) EXCEPT !.store.locks = @ \ {key}]
    OBVIOUS
  <2>2. /\ r.tasks = s.tasks /\ r.broker = s.broker /\ r.workers = s.workers
        /\ r = [tasks |-> s.tasks, broker |-> s.broker, workers |-> s.workers,
                store |-> r.store]
        /\ r.store = [results |-> s.store.results,
                      locks |-> (s.store.locks \cup {key}) \ {key},
                      sandboxes |-> s.store.sandboxes \cup {Sandbox(s, t)}]
    BY <1>2, <2>1, ServiceParts DEF Reserved, Locked, Services, Stores
  <2>3. Sandbox(s, t) \in Keys \X Jobs
    BY <1>2 DEF Sandbox
  <2>4. r.store \in Stores
    BY <1>2, <2>2, <2>3, ServiceParts DEF Stores
  <2>5. r \in Services
    BY <1>2, <2>2, <2>4, ServiceParts DEF Services
  <2>6. r.store.results = s.store.results /\ s.store.locks \subseteq r.store.locks
    BY <1>7, <2>2
  <2> QED BY <1>3, <1>7, <2>1, <2>2, <2>5, <2>6
<1>8. CASE x = StartWorker(s, t) /\ key \notin DOMAIN s.store.results
           /\ key \notin s.store.locks
  BY <1>8, StartedJobRuns
<1> QED BY <1>4, <1>5, <1>6, <1>7, <1>8 DEF StartTicket, Launches

-----------------------------------------------------------------------------
(* Carrying out what the broker asks for                                   *)

\* What is left when the write of a cancellation succeeds.
Told(s, t) ==
  WithStatus([s EXCEPT !.workers[t].cancelling = TRUE], t, "Cancelling")

\* A worker is told what its broker entry already says.
LEMMA ToldWorkerAgrees ==
  ASSUME NEW p, NEW s, NEW actions, Consistent(s, actions, p),
         NEW t \in DOMAIN s.workers,
         s.broker.active[t].state = "CancelRequested",
         NEW x, x = Told(s, t)
  PROVE  CarriedOut(s, actions, p, t, x)
<1>1. /\ s \in Services /\ JobsAreTasks(s) /\ WorkersAreCharged(s)
      /\ LiveJobsAreUnsettled(s) /\ ChargesFit(s.broker)
      /\ LeavesReserves(s.broker, AtWork(s.broker), p)
      /\ SessionsAgree(s, DOMAIN actions) /\ LeasesAreExclusive(s)
      /\ \A u \in DOMAIN s.tasks : IsReceipted(s, u)
      /\ ArePending(s, actions)
  BY DEF Consistent
<1>2. t \in Charged(s.broker) /\ t \in DOMAIN s.tasks
      /\ s.tasks[t].status \notin Settled
  BY <1>1 DEF JobsAreTasks, LiveJobsAreUnsettled, WorkersAreCharged
<1>3. PICK y \in Services :
      /\ x = WithStatus(y, t, "Cancelling")
      /\ y.tasks = s.tasks /\ y.broker = s.broker
      /\ y.store = s.store /\ DOMAIN y.workers = DOMAIN s.workers
      /\ \A u \in DOMAIN s.workers \ {t} : y.workers[u] = s.workers[u]
      /\ y.workers[t].cancelling
      /\ (y.workers[t].leased <=> s.workers[t].leased)
  <2>0. PICK y : y = [s EXCEPT !.workers[t].cancelling = TRUE]
    OBVIOUS
  <2>1. s.workers \in [DOMAIN s.workers -> Worker] /\ DOMAIN s.workers \subseteq Jobs
        /\ s.workers[t] \in Worker
    BY <1>1, ServiceParts, MapsAre
  <2>2. /\ y.tasks = s.tasks /\ y.broker = s.broker /\ y.store = s.store
        /\ y.workers = [s.workers EXCEPT ![t].cancelling = TRUE]
        /\ y = [tasks |-> s.tasks, broker |-> s.broker,
                workers |-> y.workers, store |-> s.store]
    BY <1>1, <2>0 DEF Services
  <2>3. [s.workers[t] EXCEPT !.cancelling = TRUE] \in Worker
    BY <2>1 DEF Worker
  <2>4. y.workers \in [DOMAIN s.workers -> Worker]
        /\ y.workers[t] = [s.workers[t] EXCEPT !.cancelling = TRUE]
        /\ \A u \in DOMAIN s.workers \ {t} : y.workers[u] = s.workers[u]
    BY <2>1, <2>2, <2>3
  <2>5. y.workers \in Maps(Jobs, Worker)
    BY <2>1, <2>4 DEF Maps
  <2>6. y \in Services
    BY <1>1, <2>2, <2>5, ServiceParts DEF Services
  <2>7. x = WithStatus(y, t, "Cancelling")
    BY <2>0 DEF Told
  <2> QED BY <2>1, <2>2, <2>4, <2>6, <2>7 DEF Worker
<1>5. "Cancelling" \in Pending \cup Ended
  BY DEF Pending
<1>6. /\ x \in Services
      /\ x.broker = y.broker /\ x.workers = y.workers /\ x.store = y.store
      /\ DOMAIN x.tasks = DOMAIN y.tasks /\ Len(x.tasks) = Len(y.tasks)
      /\ \A u \in DOMAIN y.tasks \ {t} : x.tasks[u] = y.tasks[u]
      /\ x.tasks[t].key = y.tasks[t].key
      /\ (x.tasks[t].verified <=> y.tasks[t].verified)
      /\ x.tasks[t].status = "Cancelling"
  BY <1>2, <1>3, <1>5, StatusIs
<1>7. /\ \A u \in DOMAIN s.tasks : KeyOf(x, u) = KeyOf(s, u)
      /\ DOMAIN Without(actions, {t}) = DOMAIN actions \ {t}
      /\ \A u \in DOMAIN actions \ {t} : Without(actions, {t})[u] = actions[u]
  <2>1. /\ DOMAIN Without(actions, {t}) = DOMAIN actions \ {t}
        /\ \A u \in DOMAIN actions \ {t} : Without(actions, {t})[u] = actions[u]
    BY WithoutIs
  <2>2. \A u \in DOMAIN s.tasks : KeyOf(x, u) = KeyOf(s, u)
    BY <1>3, <1>6 DEF KeyOf
  <2> QED BY <2>1, <2>2
<1>8. JobsAreTasks(x) /\ WorkersAreCharged(x) /\ ChargesFit(x.broker)
      /\ LeavesReserves(x.broker, AtWork(x.broker), p)
  BY <1>1, <1>3, <1>6 DEF JobsAreTasks, WorkersAreCharged
<1>9. LiveJobsAreUnsettled(x)
  <2>1. \A u \in Queued(s.broker) \cup Charged(s.broker) :
          u \in DOMAIN s.tasks /\ s.tasks[u].status \notin Settled
    BY <1>1 DEF LiveJobsAreUnsettled, JobsAreTasks
  <2> QED BY <1>3, <1>6, <2>1 DEF LiveJobsAreUnsettled, Settled
<1>10. SessionsAgree(x, DOMAIN actions \ {t})
  <2>1. ASSUME NEW u \in Charged(s.broker) \ (DOMAIN actions \ {t}), u # t
        PROVE  /\ s.broker.active[u].state \in {"Running", "CancelRequested"}
               /\ u \in DOMAIN x.workers =>
                    (x.workers[u].cancelling
                       <=> s.broker.active[u].state = "CancelRequested")
    <3>1. u \in DOMAIN s.workers => x.workers[u] = s.workers[u]
      BY <1>3, <1>6, <2>1
    <3> QED BY <1>1, <1>3, <1>6, <2>1, <3>1 DEF SessionsAgree
  <2> QED BY <1>3, <1>6, <2>1 DEF SessionsAgree
<1>11. LeasesAreExclusive(x)
  <2>1. \A u \in DOMAIN s.workers : KeyOf(x, u) = KeyOf(s, u)
                                    /\ (x.workers[u].leased <=> s.workers[u].leased)
    BY <1>1, <1>3, <1>6, <1>7 DEF JobsAreTasks
  <2> QED BY <1>1, <1>3, <1>6, <2>1 DEF LeasesAreExclusive
<1>12. \A u \in DOMAIN x.tasks : IsReceipted(x, u)
  <2>1. ~s.tasks[t].verified
    BY <1>1, <1>2 DEF IsReceipted, Settled
  <2>2. IsReceipted(x, t)
    BY <1>3, <1>6, <2>1 DEF IsReceipted
  <2>3. ASSUME NEW u \in DOMAIN s.tasks, u # t PROVE IsReceipted(x, u)
    <3>1. x.tasks[u] = s.tasks[u] /\ KeyOf(x, u) = KeyOf(s, u) /\ IsReceipted(s, u)
      BY <1>1, <1>3, <1>6, <1>7, <2>3
    <3> QED BY <1>3, <1>6, <3>1 DEF IsReceipted
  <2> QED BY <1>3, <1>6, <2>2, <2>3
<1>13. ArePending(x, Without(actions, {t}))
  <2>1. ASSUME NEW u \in DOMAIN actions \ {t} PROVE IsPending(x, u, actions[u])
    <3>1. IsPending(s, u, actions[u])
      BY <1>1 DEF ArePending
    <3> QED BY <1>3, <1>6, <3>1 DEF IsPending
  <2> QED BY <1>7, <2>1 DEF ArePending
<1>14. KeepsTasks(s, x)
  BY <1>2, <1>3, <1>6, <1>7 DEF KeepsTasks
<1> QED BY <1>3, <1>6, <1>7, <1>8, <1>9, <1>10, <1>11, <1>12, <1>13, <1>14
  DEF Consistent, CarriedOut

\* kill_identity ends the job, with a worker or without.
LEMMA KilledJobEnds ==
  ASSUME NEW p, NEW s, NEW actions, Consistent(s, actions, p),
         NEW t \in Charged(s.broker), NEW why, NEW x, x = KillIdentity(s, t, why)
  PROVE  CarriedOut(s, actions, p, t, x)
<1>1. CASE t \notin DOMAIN s.workers
  <2>1. PICK status \in {"Failed", "Restored"} :
          x = WithStatus(Acknowledged(s, t), t, status)
    BY <1>1 DEF KillIdentity, RejectBrokerState, Fail
  <2>2. s \in Services /\ s.store.locks \subseteq s.store.locks
    BY DEF Consistent
  <2> QED BY <1>1, <2>1, <2>2, UnstartedJobEnds
<1>2. CASE t \in DOMAIN s.workers
  <2>1. PICK status \in {"Cancelled", "Failed"} :
          x = WithStatus(Acknowledged(Dropped(s, t), t), t, status)
    BY <1>2 DEF KillIdentity
  <2> QED BY <1>2, <2>1, DroppedJobEnds
<1> QED BY <1>1, <1>2

\* Every pending action can be carried out, whatever its fate.
LEMMA ActionIsCarriedOut ==
  ASSUME NEW p, NEW s, NEW actions, Consistent(s, actions, p),
         NEW t \in DOMAIN actions, NEW fate \in Fates,
         NEW x, x = ApplyAction(s, actions[t], fate)
  PROVE  CarriedOut(s, actions, p, t, x)
<1>1. IsPending(s, t, actions[t])
  BY DEF Consistent, ArePending
<1>2. t \in Charged(s.broker)
  BY <1>1 DEF IsPending
<1>3. CASE actions[t] = Start(t)
  <2>1. x = StartTicket(s, t, fate.launch) /\ fate.launch \in Launches
    BY <1>3 DEF ApplyAction, Start, Fates
  <2> QED BY <1>3, <2>1, TicketIsStarted
<1>4. ASSUME NEW why, actions[t] = SendCancel(t, why),
             s.broker.active[t].state = "CancelRequested"
      PROVE  CarriedOut(s, actions, p, t, x)
  <2>1. x = CancelWorker(s, t, why, fate.closed)
    BY <1>4 DEF ApplyAction, SendCancel
  <2>2. CASE x = KillIdentity(s, t, why)
    BY <1>2, <2>2, KilledJobEnds
  <2>3. CASE t \in DOMAIN s.workers
             /\ x = Told(s, t)
    BY <1>4, <2>3, ToldWorkerAgrees
  <2>4. CASE t \notin DOMAIN s.workers /\ x = RejectBrokerState(s, t)
    <3>1. x = KillIdentity(s, t, why)
      BY <2>4 DEF KillIdentity
    <3> QED BY <1>2, <3>1, KilledJobEnds
  <2>5. fate.closed \in BOOLEAN
    BY DEF Fates
  <2> QED BY <2>1, <2>2, <2>3, <2>4, <2>5 DEF CancelWorker, Told
<1>5. ASSUME NEW why, actions[t] = Kill(t, why)
      PROVE  CarriedOut(s, actions, p, t, x)
  <2>1. x = KillIdentity(s, t, why)
    BY <1>5 DEF ApplyAction, Kill
  <2> QED BY <1>2, <2>1, KilledJobEnds
<1> QED BY <1>1, <1>3, <1>4, <1>5 DEF IsPending

-----------------------------------------------------------------------------
(* Carrying out one action after the other                                 *)

\* f[n] is the service once the actions about the jobs up to n are done.
Carries(f, n, s, decision, fate) ==
  f = [t \in 0..n |->
         IF t = 0 THEN [s EXCEPT !.broker = decision.broker]
         ELSE IF t \in DOMAIN decision.actions
         THEN ApplyAction(f[t - 1], decision.actions[t], fate)
         ELSE f[t - 1]]

\* The loop of apply_broker_actions ends: the recursion defines a function.
LEMMA CarriesExists ==
  ASSUME NEW last \in Nat, NEW s, NEW decision, NEW fate
  PROVE  \E f : Carries(f, last, s, decision, fate)
<1> DEFINE bad == {n \in 0..last : ~\E f : Carries(f, n, s, decision, fate)}
<1>1. SUFFICES ASSUME bad # {} PROVE FALSE
  BY <1>1
<1>2. IsFiniteSet(bad) /\ bad \subseteq Nat
  <2>1. IsFiniteSet(0..last) /\ 0..last \subseteq Nat
    BY FS_Interval
  <2>2. bad \subseteq 0..last
    OBVIOUS
  <2> HIDE DEF bad
  <2> QED BY <2>1, <2>2, FS_Subset
<1>3. PICK n \in bad : \A m \in bad : n =< m
  BY <1>1, <1>2, MaxAndMin
<1>4. n \in 0..last /\ ~\E f : Carries(f, n, s, decision, fate)
  BY <1>3
<1>5. CASE n = 0
  <2>1. Carries([t \in 0..0 |-> [s EXCEPT !.broker = decision.broker]],
                0, s, decision, fate)
    BY DEF Carries
  <2> QED BY <1>4, <1>5, <2>1
<1>6. CASE n # 0
  <2>1. n - 1 \in 0..last /\ ~(n =< n - 1) /\ n \in Nat /\ n - 1 \in Nat
    BY <1>4, <1>6
  <2>2. PICK f : Carries(f, n - 1, s, decision, fate)
    BY <1>3, <2>1
  <2> DEFINE next == IF n \in DOMAIN decision.actions
                     THEN ApplyAction(f[n - 1], decision.actions[n], fate)
                     ELSE f[n - 1]
             g == [t \in 0..n |-> IF t = n THEN next ELSE f[t]]
  <2>3. \A t \in 0..(n - 1) :
          f[t] = IF t = 0 THEN [s EXCEPT !.broker = decision.broker]
                 ELSE IF t \in DOMAIN decision.actions
                 THEN ApplyAction(f[t - 1], decision.actions[t], fate)
                 ELSE f[t - 1]
    BY <2>2 DEF Carries
  <2>4. ASSUME NEW t \in 0..n
        PROVE  g[t] = IF t = 0 THEN [s EXCEPT !.broker = decision.broker]
                      ELSE IF t \in DOMAIN decision.actions
                      THEN ApplyAction(g[t - 1], decision.actions[t], fate)
                      ELSE g[t - 1]
    <3>1. CASE t = n
      <4>1. t # 0 /\ t - 1 \in 0..n /\ t - 1 # n
        BY <1>6, <2>1, <3>1
      <4>2. g[t - 1] = f[n - 1] /\ g[t] = next
        BY <3>1, <4>1
      <4> QED BY <3>1, <4>1, <4>2
    <3>2. CASE t # n
      <4>1. t \in 0..(n - 1) /\ g[t] = f[t]
        BY <2>1, <3>2
      <4>2. t # 0 => t - 1 \in 0..n /\ t - 1 # n
        BY <2>1, <3>2
      <4>3. t # 0 => g[t - 1] = f[t - 1]
        BY <4>2
      <4> HIDE DEF g
      <4> QED BY <2>3, <4>1, <4>3
    <3> QED BY <3>1, <3>2
  <2>5. g = [t \in 0..n |-> g[t]]
    OBVIOUS
  <2> HIDE DEF g
  <2>6. Carries(g, n, s, decision, fate)
    BY <2>4, <2>5 DEF Carries
  <2> QED BY <1>4, <2>6
<1> QED BY <1>5, <1>6

\* The service that Apply returns is the last of them.
LEMMA ApplyIs ==
  ASSUME NEW s, Len(s.tasks) \in Nat, NEW decision, NEW fate
  PROVE  \E f : /\ Carries(f, Len(s.tasks), s, decision, fate)
                /\ Apply(s, decision, fate) = f[Len(s.tasks)]
<1>1. \E f : Carries(f, Len(s.tasks), s, decision, fate)
  BY CarriesExists
<1> DEFINE g == CHOOSE f : Carries(f, Len(s.tasks), s, decision, fate)
<1>2. Carries(g, Len(s.tasks), s, decision, fate)
  BY <1>1
<1>3. Apply(s, decision, fate) = g[Len(s.tasks)]
  BY DEF Apply, Carries
<1> QED BY <1>2, <1>3

\* No method takes a task back, and neither do two in a row.
LEMMA KeepsTransitively ==
  ASSUME NEW s, NEW x, NEW y, KeepsTasks(s, x), KeepsTasks(x, y)
  PROVE  KeepsTasks(s, y)
  BY DEF KeepsTasks

\* Once all pending actions are carried out, none is left, and the service is
\* as consistent as before.
LEMMA ApplyIsHandled ==
  ASSUME NEW p, NEW s \in Services, NEW decision, NEW y,
         y = [s EXCEPT !.broker = decision.broker],
         Consistent(y, decision.actions, p), NEW fate \in Fates,
         NEW x, x = Apply(s, decision, fate)
  PROVE  Handled(s, p, x)
<1> DEFINE last == Len(s.tasks)
           actions == decision.actions
<1>1. last \in Nat
  BY ServiceParts
<1>2. PICK f : Carries(f, last, s, decision, fate) /\ x = f[last]
  BY <1>1, ApplyIs
<1>3. f[0] = y /\ y.tasks = s.tasks
  <2>1. f[0] = y
    BY <1>1, <1>2 DEF Carries
  <2>2. y.tasks = s.tasks
    BY DEF Services
  <2> QED BY <2>1, <2>2
<1>4. \A t \in 1..last : f[t] = IF t \in DOMAIN actions
                                THEN ApplyAction(f[t - 1], actions[t], fate)
                                ELSE f[t - 1]
  <2>1. \A t \in 0..last : f[t] = IF t = 0 THEN [s EXCEPT !.broker = decision.broker]
                                  ELSE IF t \in DOMAIN decision.actions
                                  THEN ApplyAction(f[t - 1], decision.actions[t], fate)
                                  ELSE f[t - 1]
    BY <1>2 DEF Carries
  <2>2. \A t \in 1..last : t \in 0..last /\ t # 0
    BY <1>1
  <2> QED BY <2>1, <2>2
<1>5. DOMAIN actions \subseteq 1..last
  <2>1. /\ y \in Services /\ JobsAreTasks(y) /\ ArePending(y, actions)
    BY DEF Consistent
  <2>2. DOMAIN actions \subseteq Charged(y.broker)
    BY <2>1 DEF ArePending, IsPending
  <2> QED BY <1>3, <2>1, <2>2, ServiceParts DEF JobsAreTasks
<1> HIDE DEF last, actions
<1> DEFINE Done(n) == /\ Consistent(f[n], Without(actions, 1..n), p)
                      /\ KeepsTasks(s, f[n]) /\ Len(f[n].tasks) = last
           bad == {n \in 0..last : ~Done(n)}
<1>6. Done(0)
  <2>1. 1..0 = {}
    OBVIOUS
  <2>2. Consistent(y, Without(actions, {}), p)
    <3>1. /\ DOMAIN Without(actions, {}) = DOMAIN actions
          /\ \A t \in DOMAIN actions : Without(actions, {})[t] = actions[t]
      BY DEF Without, Restrict
    <3>2. Consistent(y, actions, p)
      BY DEF actions
    <3> QED BY <3>1, <3>2 DEF Consistent, ArePending
  <2>3. KeepsTasks(s, y)
    BY <1>3 DEF KeepsTasks, KeyOf
  <2>4. Len(y.tasks) = last
    BY <1>3 DEF last
  <2> QED BY <1>3, <2>1, <2>2, <2>3, <2>4 DEF actions
<1>7. ASSUME NEW n \in 1..last, Done(n - 1) PROVE Done(n)
  <2>1. n \in Nat /\ n - 1 \in 0..last /\ 1..n = (1..(n - 1)) \cup {n}
        /\ n \notin 1..(n - 1)
    BY <1>1, <1>7
  <2>2. CASE n \in DOMAIN actions
    <3> DEFINE left == Without(actions, 1..(n - 1))
    <3>1. n \in DOMAIN left /\ left[n] = actions[n]
      BY <2>1, <2>2 DEF Without, Restrict
    <3>2. f[n] = ApplyAction(f[n - 1], left[n], fate)
      BY <1>4, <2>2, <3>1
    <3> HIDE DEF left
    <3>3. Consistent(f[n - 1], left, p)
      BY <1>7 DEF left
    <3>4. CarriedOut(f[n - 1], left, p, n, f[n])
      BY <3>1, <3>2, <3>3, ActionIsCarriedOut
    <3>5. Without(left, {n}) = Without(actions, 1..n)
      <4>1. DOMAIN actions \ (1..n) = (DOMAIN actions \ (1..(n - 1))) \ {n}
        BY <2>1
      <4> QED BY <4>1 DEF left, Without, Restrict
    <3>6. /\ Consistent(f[n], Without(actions, 1..n), p)
          /\ KeepsTasks(f[n - 1], f[n]) /\ Len(f[n].tasks) = Len(f[n - 1].tasks)
      BY <3>4, <3>5 DEF CarriedOut
    <3> QED BY <1>7, <3>6, KeepsTransitively
  <2>3. CASE n \notin DOMAIN actions
    <3>1. f[n] = f[n - 1]
      BY <1>4, <2>3
    <3>2. DOMAIN actions \ (1..n) = DOMAIN actions \ (1..(n - 1))
      BY <2>1, <2>3
    <3>3. Without(actions, 1..n) = Without(actions, 1..(n - 1))
      BY <3>2 DEF Without
    <3> QED BY <1>7, <3>1, <3>3
  <2> QED BY <2>2, <2>3
<1> HIDE DEF Done
<1>8. \A n \in 0..last : Done(n)
  <2>1. SUFFICES ASSUME bad # {} PROVE FALSE
    BY <2>1
  <2>2. IsFiniteSet(bad) /\ bad \subseteq Nat
    <3>1. IsFiniteSet(0..last) /\ 0..last \subseteq Nat
      <4>1. 0 \in Int /\ last \in Int /\ 0..last \subseteq Nat
        BY <1>1
      <4> QED BY <4>1, FS_Interval
    <3>2. bad \subseteq 0..last
      OBVIOUS
    <3> HIDE DEF bad
    <3> QED BY <3>1, <3>2, FS_Subset
  <2>3. PICK n \in bad : \A m \in bad : n =< m
    BY <2>1, <2>2, MaxAndMin
  <2>4. n \in 1..last /\ n - 1 \in 0..last /\ ~(n =< n - 1)
    BY <1>1, <1>6, <2>3
  <2>5. Done(n - 1)
    BY <2>3, <2>4
  <2> QED BY <1>7, <2>3, <2>4, <2>5
<1>9. Without(actions, 1..last) = NoJobs
  <2>1. DOMAIN actions \ (1..last) = {}
    BY <1>5 DEF actions, last
  <2> QED BY <2>1 DEF Without, Restrict, NoJobs
<1>10. Done(last)
  BY <1>1, <1>8
<1> QED BY <1>2, <1>9, <1>10 DEF Done, last, Handled

\* One method after the other.
LEMMA HandledTransitively ==
  ASSUME NEW p, NEW q, NEW s, NEW x, NEW y, Handled(s, p, x), Handled(x, q, y)
  PROVE  Handled(s, q, y)
  BY KeepsTransitively DEF Handled

-----------------------------------------------------------------------------
(* The decisions that stop jobs                                            *)

\* Entries that ask charged jobs to stop and keep what they are charged.
AreStopped(b, jobs) ==
  /\ DOMAIN jobs \subseteq Charged(b)
  /\ \A j \in DOMAIN jobs :
       /\ jobs[j] \in ActiveJob
       /\ jobs[j].memory = b.active[j].memory
       /\ jobs[j].state \in {"CancelRequested", "KillRequested"}

\* What the broker holds once jobs were asked to stop.
LEMMA EscalateIs ==
  ASSUME NEW b \in Brokers, NEW jobs, AreStopped(b, jobs),
         NEW d, d = Escalate(b, jobs)
  PROVE  /\ d.broker \in Brokers
         /\ d.broker.queued = b.queued /\ d.broker.receipts = b.receipts
         /\ Charged(d.broker) = Charged(b)
         /\ \A j \in DOMAIN jobs : d.broker.active[j] = jobs[j]
         /\ \A j \in Charged(b) \ DOMAIN jobs : d.broker.active[j] = b.active[j]
         /\ \A j \in Charged(b) : d.broker.active[j].memory = b.active[j].memory
         /\ AtWork(d.broker) = AtWork(b) \ DOMAIN jobs
         /\ DOMAIN d.actions = DOMAIN jobs
         /\ \A j \in DOMAIN jobs : d.actions[j] = Ask(j, jobs[j])
<1>1. b.active \in [Charged(b) -> ActiveJob] /\ Charged(b) \subseteq Jobs
  <2>1. b.active \in Maps(Jobs, ActiveJob)
    BY DEF Brokers
  <2> QED BY <2>1, MapsAre DEF Charged
<1>2. PICK u : u = Updated(b.active, jobs)
  OBVIOUS
<1>3. /\ d.broker = [b EXCEPT !.active = u]
      /\ d.actions = [j \in DOMAIN jobs |-> Ask(j, jobs[j])]
  BY <1>2 DEF Escalate
<1>4. /\ u \in [Charged(b) -> ActiveJob]
      /\ \A j \in DOMAIN jobs : u[j] = jobs[j]
      /\ \A j \in Charged(b) \ DOMAIN jobs : u[j] = b.active[j]
  <2>1. DOMAIN b.active \cup DOMAIN jobs = Charged(b)
    BY DEF Charged, AreStopped
  <2>2. u = [j \in Charged(b) |-> IF j \in DOMAIN jobs THEN jobs[j] ELSE b.active[j]]
    BY <1>2, <2>1 DEF Updated
  <2>3. \A j \in DOMAIN jobs : j \in Charged(b) /\ jobs[j] \in ActiveJob
    BY DEF AreStopped
  <2> QED BY <1>1, <2>2, <2>3
<1>5. /\ d.broker.queued = b.queued /\ d.broker.receipts = b.receipts
      /\ d.broker.active = u
      /\ d.broker = [queued |-> b.queued, active |-> u, receipts |-> b.receipts]
  BY <1>3 DEF Brokers
<1>6. u \in Maps(Jobs, ActiveJob)
  BY <1>1, <1>4 DEF Maps
<1>7. d.broker \in Brokers
  BY <1>5, <1>6 DEF Brokers
<1>8. Charged(d.broker) = Charged(b)
  BY <1>4, <1>5 DEF Charged
<1>9. \A j \in Charged(b) : u[j].memory = b.active[j].memory
  BY <1>4 DEF AreStopped
<1>10. AtWork(d.broker) = AtWork(b) \ DOMAIN jobs
  <2>1. \A j \in DOMAIN jobs : u[j].state \notin {"Starting", "Running"}
    BY <1>4 DEF AreStopped
  <2> QED BY <1>4, <1>5, <1>8, <2>1 DEF AtWork
<1> QED BY <1>3, <1>4, <1>5, <1>7, <1>8, <1>9, <1>10

\* Jobs are asked to stop: what is still at work leaves the reserves of q free,
\* and the broker's entries tell what is pending.
LEMMA StoppedJobsArePending ==
  ASSUME NEW p, NEW q, NEW s, Consistent(s, NoJobs, p),
         NEW jobs, AreStopped(s.broker, jobs),
         NEW d, d = Escalate(s.broker, jobs),
         p = q \/ LeavesReserves(d.broker, AtWork(d.broker), q),
         NEW y, y = [s EXCEPT !.broker = d.broker]
  PROVE  Consistent(y, d.actions, q)
<1>1. /\ s \in Services /\ JobsAreTasks(s) /\ WorkersAreCharged(s)
      /\ LiveJobsAreUnsettled(s) /\ ChargesFit(s.broker)
      /\ LeavesReserves(s.broker, AtWork(s.broker), p)
      /\ SessionsAgree(s, {}) /\ LeasesAreExclusive(s)
      /\ \A u \in DOMAIN s.tasks : IsReceipted(s, u)
  BY DEF Consistent, NoJobs
<1>2. s.broker \in Brokers
  BY <1>1, ServiceParts
<1>3. /\ d.broker \in Brokers
      /\ d.broker.queued = s.broker.queued
      /\ d.broker.receipts = s.broker.receipts
      /\ Charged(d.broker) = Charged(s.broker)
      /\ \A j \in DOMAIN jobs : d.broker.active[j] = jobs[j]
      /\ \A j \in Charged(s.broker) \ DOMAIN jobs :
           d.broker.active[j] = s.broker.active[j]
      /\ \A j \in Charged(s.broker) :
           d.broker.active[j].memory = s.broker.active[j].memory
      /\ AtWork(d.broker) = AtWork(s.broker) \ DOMAIN jobs
      /\ DOMAIN d.actions = DOMAIN jobs
      /\ \A j \in DOMAIN jobs : d.actions[j] = Ask(j, jobs[j])
  BY <1>2, EscalateIs
<1>4. /\ y \in Services /\ y.tasks = s.tasks /\ y.workers = s.workers
      /\ y.store = s.store /\ y.broker = d.broker
  BY <1>1, <1>3, WithBrokerIs DEF Services
<1>5. Queued(y.broker) = Queued(s.broker)
  BY <1>3, <1>4 DEF Queued
<1>6. JobsAreTasks(y) /\ WorkersAreCharged(y) /\ LiveJobsAreUnsettled(y)
  BY <1>1, <1>3, <1>4, <1>5
  DEF JobsAreTasks, WorkersAreCharged, LiveJobsAreUnsettled
<1>7. ChargesFit(y.broker) /\ LeavesReserves(y.broker, AtWork(y.broker), q)
  <2>1. IsFiniteSet(Charged(s.broker)) /\ Charged(d.broker) \subseteq Charged(s.broker)
    BY <1>1, <1>3, JobsAreFinite
  <2>2. AtWork(d.broker) \subseteq AtWork(s.broker)
    BY <1>3
  <2>3. ChargesFit(d.broker) /\ LeavesReserves(d.broker, AtWork(d.broker), p)
    BY <1>1, <1>3, <2>1, <2>2, LighterBrokers
  <2> QED BY <1>4, <2>3
<1>8. SessionsAgree(y, DOMAIN d.actions)
  BY <1>1, <1>3, <1>4 DEF SessionsAgree
<1>9. LeasesAreExclusive(y)
  BY <1>1, <1>4 DEF LeasesAreExclusive, KeyOf
<1>10. \A t \in DOMAIN y.tasks : IsReceipted(y, t)
  BY <1>1, <1>3, <1>4 DEF IsReceipted, KeyOf
<1>11. ArePending(y, d.actions)
  <2>1. ASSUME NEW t \in DOMAIN jobs PROVE IsPending(y, t, Ask(t, jobs[t]))
    <3>1. /\ t \in Charged(y.broker) /\ y.broker.active[t] = jobs[t]
          /\ jobs[t].reason \in Reasons \cup {"None"}
          /\ jobs[t].state \in {"CancelRequested", "KillRequested"}
      BY <1>3, <1>4 DEF AreStopped, ActiveJob
    <3> QED BY <3>1 DEF IsPending, Ask
  <2> QED BY <1>3, <2>1 DEF ArePending
<1> QED BY <1>4, <1>6, <1>7, <1>8, <1>9, <1>10, <1>11 DEF Consistent

\* What a job at work, and one whose deadline has passed, becomes.
LEMMA StoppedIs ==
  ASSUME NEW job \in ActiveJob, NEW why \in Reasons
  PROVE  /\ Stopped(job, why) \in ActiveJob /\ Overdue(job) \in ActiveJob
         /\ Stopped(job, why).memory = job.memory
         /\ Overdue(job).memory = job.memory
         /\ Stopped(job, why).state \in {"CancelRequested", "KillRequested"}
         /\ Overdue(job).state \in {"CancelRequested", "KillRequested"}
<1>1. ASSUME NEW state \in {"CancelRequested", "KillRequested"},
             NEW r \in Reasons \cup {"None"}
      PROVE  /\ Escalated(job, state, r) \in ActiveJob
             /\ Escalated(job, state, r).memory = job.memory
             /\ Escalated(job, state, r).state = state
  BY DEF Escalated, ActiveJob, Escalations
<1>2. ASSUME NEW r \in Reasons
      PROVE  /\ Stopped(job, r) \in ActiveJob /\ Stopped(job, r).memory = job.memory
             /\ Stopped(job, r).state \in {"CancelRequested", "KillRequested"}
  BY <1>1 DEF Stopped
<1>3. job.state \in Escalations /\ job.reason \in Reasons \cup {"None"}
  BY DEF ActiveJob
<1>4. "StartupDeadline" \in Reasons /\ "HeartbeatDeadline" \in Reasons
  BY DEF Reasons
<1>5. \/ Overdue(job) = Stopped(job, "StartupDeadline")
      \/ Overdue(job) = Stopped(job, "HeartbeatDeadline")
      \/ Overdue(job) = Escalated(job, "KillRequested", job.reason)
  BY <1>3 DEF Overdue, Escalations
<1>6. /\ Overdue(job) \in ActiveJob /\ Overdue(job).memory = job.memory
      /\ Overdue(job).state \in {"CancelRequested", "KillRequested"}
  BY <1>1, <1>2, <1>3, <1>4, <1>5
<1> QED BY <1>2, <1>6

\* tick: every job whose deadline has passed is asked to stop.
LEMMA TickIsPending ==
  ASSUME NEW p, NEW s, Consistent(s, NoJobs, p), NEW d, d = Tick(s.broker),
         NEW y, y = [s EXCEPT !.broker = d.broker]
  PROVE  Consistent(y, d.actions, p)
<1>1. \A j \in Charged(s.broker) : s.broker.active[j] \in ActiveJob
  <2>1. s \in Services
    BY DEF Consistent
  <2> QED BY <2>1, EntriesAre
<1> DEFINE jobs == [j \in {i \in Charged(s.broker) : s.broker.active[i].late} |->
                      Overdue(s.broker.active[j])]
<1>2. AreStopped(s.broker, jobs)
  <2>1. "User" \in Reasons
    BY DEF Reasons
  <2>2. ASSUME NEW j \in Charged(s.broker)
        PROVE  /\ Overdue(s.broker.active[j]) \in ActiveJob
               /\ Overdue(s.broker.active[j]).memory = s.broker.active[j].memory
               /\ Overdue(s.broker.active[j]).state
                    \in {"CancelRequested", "KillRequested"}
    BY <1>1, <2>1, StoppedIs
  <2> QED BY <2>2 DEF AreStopped
<1>3. d = Escalate(s.broker, jobs)
  BY DEF Tick
<1> HIDE DEF jobs
<1> QED BY <1>2, <1>3, StoppedJobsArePending

\* request_cancel of an active job: it is asked to stop unless it was before.
LEMMA CancelIsPending ==
  ASSUME NEW p, NEW s, Consistent(s, NoJobs, p), NEW t \in Charged(s.broker),
         NEW why \in Reasons, NEW d, d = RequestCancel(s.broker, t, why),
         NEW y, y = [s EXCEPT !.broker = d.broker]
  PROVE  Consistent(y, d.actions, p)
<1>1. /\ \A j \in Charged(s.broker) : s.broker.active[j] \in ActiveJob
      /\ t \notin Queued(s.broker)
  <2>1. s \in Services /\ JobsAreTasks(s)
    BY DEF Consistent
  <2> QED BY <2>1, EntriesAre DEF JobsAreTasks
<1> DEFINE jobs == [i \in {t} \cap AtWork(s.broker) |->
                      Stopped(s.broker.active[i], why)]
<1>2. AreStopped(s.broker, jobs)
  <2>1. AtWork(s.broker) \subseteq Charged(s.broker)
    BY DEF AtWork
  <2>2. ASSUME NEW j \in Charged(s.broker)
        PROVE  /\ Stopped(s.broker.active[j], why) \in ActiveJob
               /\ Stopped(s.broker.active[j], why).memory = s.broker.active[j].memory
               /\ Stopped(s.broker.active[j], why).state
                    \in {"CancelRequested", "KillRequested"}
    BY <1>1, StoppedIs
  <2> QED BY <2>1, <2>2 DEF AreStopped
<1>3. d = Escalate(s.broker, jobs)
  BY <1>1 DEF RequestCancel
<1> HIDE DEF jobs
<1> QED BY <1>2, <1>3, StoppedJobsArePending

-----------------------------------------------------------------------------
(* Yielding to the foreground                                              *)

\* Finitely many jobs have finitely many admission ranks.
LEMMA RanksAreFinite ==
  ASSUME NEW b, NEW S, IsFiniteSet(S)
  PROVE  IsFiniteSet({b.active[j].admitted : j \in S})
<1> DEFINE ranks == {b.active[j].admitted : j \in S}
           rank == [j \in S |-> b.active[j].admitted]
<1>1. rank \in [S -> ranks] /\ \A r \in ranks : \E j \in S : rank[j] = r
  OBVIOUS
<1> HIDE DEF ranks, rank
<1>2. rank \in Surjection(S, ranks)
  BY <1>1 DEF Surjection
<1>3. IsFiniteSet(ranks)
  BY <1>2, FS_Surjection
<1> QED BY <1>3 DEF ranks

\* Some job of any group is the first of it to yield.
LEMMA FirstToYield ==
  ASSUME NEW b \in Brokers, NEW S, S \subseteq Charged(b), IsFiniteSet(S), S # {}
  PROVE  \E j \in S : \A i \in S : ~YieldsBefore(b, i, j)
<1>1. S \subseteq Nat /\ \A j \in S : b.active[j].admitted \in Nat
  <2>1. b.active \in Maps(Jobs, ActiveJob)
    BY DEF Brokers
  <2>2. b.active \in [Charged(b) -> ActiveJob] /\ Charged(b) \subseteq Jobs
    BY <2>1, MapsAre DEF Charged
  <2> QED BY <2>2 DEF ActiveJob, Jobs
<1> DEFINE ranks == {b.active[j].admitted : j \in S}
<1>2. IsFiniteSet(ranks) /\ ranks \subseteq Nat /\ ranks # {}
  <2>1. ranks \subseteq Nat /\ ranks # {}
    BY <1>1
  <2>2. IsFiniteSet(ranks)
    BY RanksAreFinite
  <2> QED BY <2>1, <2>2
<1> DEFINE newest == {j \in S : b.active[j].admitted = Max(ranks)}
<1>3. Max(ranks) \in ranks /\ \A r \in ranks : r =< Max(ranks)
  <2> HIDE DEF ranks
  <2> QED BY <1>2, MaxAndMin
<1>4. IsFiniteSet(newest) /\ newest \subseteq Nat /\ newest # {}
  <2>1. newest \subseteq S
    OBVIOUS
  <2>2. newest # {}
    BY <1>3
  <2> HIDE DEF newest
  <2> QED BY <1>1, <2>1, <2>2, FS_Subset
<1>5. PICK j \in newest : \A i \in newest : j =< i
  <2> HIDE DEF newest
  <2> QED BY <1>4, MaxAndMin
<1>6. ASSUME NEW i \in S, YieldsBefore(b, i, j) PROVE FALSE
  <2>1. /\ b.active[i].admitted \in Nat /\ b.active[j].admitted \in Nat
        /\ b.active[i].admitted =< b.active[j].admitted
        /\ i \in Nat /\ j \in Nat
    BY <1>1, <1>3, <1>5
  <2>2. b.active[i].admitted = b.active[j].admitted /\ i < j
    BY <1>6, <2>1 DEF YieldsBefore
  <2>3. i \in newest
    BY <1>5, <2>2
  <2> QED BY <1>5, <2>1, <2>2, <2>3
<1> QED BY <1>5, <1>6

\* No job leaves any reserve free.
LEMMA NoJobLeavesReserves ==
  ASSUME NEW b, NEW p
  PROVE  LeavesReserves(b, {}, p)
<1>1. {held \in {} \X Demands : held[2] =< Demand(b, held[1])} = {}
  OBVIOUS
<1>2. MemoryInUse(b, {}) = 0 /\ CpuInUse({}) = 0
  BY <1>1, FS_EmptySet DEF MemoryInUse, CpuInUse
<1> QED BY <1>2, LimitsAreSound DEF LeavesReserves

\* protect_foreground stops only when the jobs that go on leave the reserves.
LEMMA WhatGoesOnLeavesReserves ==
  ASSUME NEW b \in Brokers, IsFiniteSet(Charged(b)), NEW q, NEW jobs,
         AreStopped(b, jobs), DOMAIN jobs = Yielding(b, q),
         NEW d, d = Escalate(b, jobs)
  PROVE  LeavesReserves(d.broker, AtWork(d.broker), q)
<1> DEFINE on == AtWork(d.broker)
<1>1. /\ Charged(d.broker) = Charged(b)
      /\ \A j \in Charged(b) : d.broker.active[j].memory = b.active[j].memory
      /\ on = AtWork(b) \ Yielding(b, q)
  BY EscalateIs
<1>2. on \subseteq Charged(b) /\ IsFiniteSet(on)
  <2>1. on \subseteq Charged(b)
    BY <1>1 DEF AtWork
  <2> QED BY <2>1, FS_Subset
<1> HIDE DEF on
<1>3. CASE on = {}
  BY <1>3, NoJobLeavesReserves DEF on
<1>4. CASE on # {}
  <2>1. PICK j \in on : \A i \in on : ~YieldsBefore(b, i, j)
    BY <1>2, <1>4, FirstToYield
  <2> DEFINE left == Charged(b) \ {i \in AtWork(b) : YieldsBefore(b, i, j)}
  <2>2. LeavesReserves(b, left, q)
    BY <1>1, <2>1 DEF Yielding
  <2>3. on \subseteq left /\ left \subseteq Charged(b)
    BY <1>2, <2>1
  <2> HIDE DEF left
  <2>4. IsFiniteSet(left)
    BY <2>3, FS_Subset
  <2>5. \A i \in on : Demand(d.broker, i) = Demand(b, i)
    BY <1>1, <1>2 DEF Demand
  <2>6. LeavesReserves(d.broker, on, q)
    BY <2>2, <2>3, <2>4, <2>5, FewerLeaveReserves
  <2> QED BY <2>6 DEF on
<1> QED BY <1>3, <1>4

\* protect_foreground: whatever the pressure was, the reserves of the new one
\* are free of work.
LEMMA ProtectionIsPending ==
  ASSUME NEW p, NEW q, NEW s, Consistent(s, NoJobs, p),
         NEW d, d = ProtectForeground(s.broker, q),
         NEW y, y = [s EXCEPT !.broker = d.broker]
  PROVE  Consistent(y, d.actions, q)
<1>1. /\ s.broker \in Brokers /\ IsFiniteSet(Charged(s.broker))
      /\ \A j \in Charged(s.broker) : s.broker.active[j] \in ActiveJob
  <2>1. s \in Services /\ JobsAreTasks(s)
    BY DEF Consistent
  <2> QED BY <2>1, EntriesAre, ServiceParts, JobsAreFinite
<1> DEFINE jobs == [j \in Yielding(s.broker, q) |->
                      Stopped(s.broker.active[j], "ForegroundPressure")]
<1>2. AreStopped(s.broker, jobs)
  <2>1. Yielding(s.broker, q) \subseteq Charged(s.broker)
    BY DEF Yielding, AtWork
  <2>2. "ForegroundPressure" \in Reasons
    BY DEF Reasons
  <2>3. ASSUME NEW j \in Charged(s.broker), NEW stopped,
               stopped = Stopped(s.broker.active[j], "ForegroundPressure")
        PROVE  /\ stopped \in ActiveJob
               /\ stopped.memory = s.broker.active[j].memory
               /\ stopped.state \in {"CancelRequested", "KillRequested"}
    BY <1>1, <2>2, <2>3, StoppedIs
  <2> QED BY <2>1, <2>3 DEF AreStopped
<1>3. d = Escalate(s.broker, jobs) /\ DOMAIN jobs = Yielding(s.broker, q)
  BY DEF ProtectForeground
<1> HIDE DEF jobs
<1>4. LeavesReserves(d.broker, AtWork(d.broker), q)
  BY <1>1, <1>2, <1>3, WhatGoesOnLeavesReserves
<1> QED BY <1>2, <1>3, <1>4, StoppedJobsArePending

-----------------------------------------------------------------------------
(* Admission                                                               *)

\* The jobs of Q that the loop of schedule admits.
IsAdmission(b, p, Q, jobs) ==
  /\ jobs \subseteq Q
  /\ \A j \in Q :
       j \in jobs <=> Fits(b, Charged(b) \cup {i \in jobs : i < j} \cup {j}, p)

\* The loop decides one job after the other, each by those before it.
LEMMA NextIsAdmitted ==
  ASSUME NEW b, NEW p, NEW Q, Q \subseteq Nat, NEW n \in Nat,
         \A i \in Q : i < n, NEW jobs, IsAdmission(b, p, Q, jobs)
  PROVE  \E more : IsAdmission(b, p, Q \cup {n}, more)
<1>1. jobs \subseteq Q
  BY DEF IsAdmission
<1>2. {i \in jobs : i < n} = jobs /\ n \notin jobs
  <2>1. \A i \in jobs : i < n
    BY <1>1
  <2>2. ~(n < n)
    OBVIOUS
  <2> QED BY <2>1, <2>2
<1>3. CASE ~Fits(b, Charged(b) \cup jobs \cup {n}, p)
  <2>1. ~Fits(b, Charged(b) \cup {i \in jobs : i < n} \cup {n}, p)
    BY <1>2, <1>3
  <2>2. IsAdmission(b, p, Q \cup {n}, jobs)
    BY <1>1, <1>2, <2>1 DEF IsAdmission
  <2> QED BY <2>2
<1>4. CASE Fits(b, Charged(b) \cup jobs \cup {n}, p)
  <2> DEFINE more == jobs \cup {n}
  <2>1. \A j \in Q \cup {n} : {i \in more : i < j} = {i \in jobs : i < j}
    BY <1>1
  <2>2. \A j \in Q : j \in more <=> j \in jobs
    OBVIOUS
  <2>3. more \subseteq Q \cup {n} /\ n \in more
    BY <1>1
  <2> HIDE DEF more
  <2>4. IsAdmission(b, p, Q \cup {n}, more)
    BY <1>2, <1>4, <2>1, <2>2, <2>3 DEF IsAdmission
  <2> QED BY <2>4
<1> QED BY <1>3, <1>4

\* The loop ends: an admission of the whole queue exists.
LEMMA AdmissionExists ==
  ASSUME NEW b, NEW p, NEW last \in Nat, Queued(b) \subseteq 1..last
  PROVE  \E jobs : IsAdmission(b, p, Queued(b), jobs)
<1> DEFINE upto(n) == Queued(b) \cap (1..n)
           bad == {n \in 0..last : ~\E jobs : IsAdmission(b, p, upto(n), jobs)}
<1>1. SUFFICES ASSUME bad # {} PROVE FALSE
  <2>1. last \in 0..last /\ upto(last) = Queued(b)
    OBVIOUS
  <2> QED BY <1>1, <2>1
<1>2. IsFiniteSet(bad) /\ bad \subseteq Nat
  <2>1. IsFiniteSet(0..last) /\ 0..last \subseteq Nat
    BY FS_Interval
  <2>2. bad \subseteq 0..last
    OBVIOUS
  <2> HIDE DEF bad
  <2> QED BY <2>1, <2>2, FS_Subset
<1>3. PICK n \in bad : \A m \in bad : n =< m
  <2> HIDE DEF bad
  <2> QED BY <1>1, <1>2, MaxAndMin
<1>4. n \in 0..last /\ ~\E jobs : IsAdmission(b, p, upto(n), jobs)
  BY <1>3
<1>5. CASE n = 0
  <2>1. upto(n) = {}
    BY <1>5
  <2>2. IsAdmission(b, p, {}, {})
    BY DEF IsAdmission
  <2> QED BY <1>4, <2>1, <2>2
<1>6. CASE n # 0
  <2>1. n - 1 \in 0..last /\ ~(n =< n - 1) /\ n \in Nat /\ n - 1 \in Nat
    BY <1>4, <1>6
  <2>2. PICK jobs : IsAdmission(b, p, upto(n - 1), jobs)
    BY <1>3, <2>1
  <2>3. upto(n - 1) \subseteq Nat /\ \A i \in upto(n - 1) : i < n
    BY <2>1
  <2>4. upto(n) = upto(n - 1) \/ upto(n) = upto(n - 1) \cup {n}
    BY <2>1
  <2> HIDE DEF upto
  <2>5. \E more : IsAdmission(b, p, upto(n - 1) \cup {n}, more)
    BY <2>1, <2>2, <2>3, NextIsAdmitted
  <2> QED BY <1>4, <2>2, <2>4, <2>5
<1> QED BY <1>5, <1>6

\* What one call admits is queued, and fits together with what is charged.
LEMMA AdmittedFit ==
  ASSUME NEW s \in Services, JobsAreTasks(s), NEW p,
         NEW jobs, jobs = Admitted(s.broker, p)
  PROVE  /\ jobs \subseteq Queued(s.broker)
         /\ jobs # {} => Fits(s.broker, Charged(s.broker) \cup jobs, p)
<1> DEFINE b == s.broker
           last == Len(s.tasks)
<1>1. last \in Nat /\ Queued(b) \subseteq 1..last /\ IsFiniteSet(Queued(b))
  BY ServiceParts, JobsAreFinite DEF JobsAreTasks
<1>2. \E a : IsAdmission(b, p, Queued(b), a)
  BY <1>1, AdmissionExists
<1>3. IsAdmission(b, p, Queued(b), jobs)
  BY <1>2 DEF Admitted, IsAdmission
<1>4. jobs \subseteq Queued(b) /\ jobs \subseteq Nat /\ IsFiniteSet(jobs)
  <2>1. jobs \subseteq Queued(b)
    BY <1>3 DEF IsAdmission
  <2> HIDE DEF b
  <2> QED BY <1>1, <2>1, FS_Subset
<1>5. ASSUME jobs # {} PROVE Fits(b, Charged(b) \cup jobs, p)
  <2>1. PICK m \in jobs : \A j \in jobs : j =< m
    BY <1>4, <1>5, MaxAndMin
  <2>2. {i \in jobs : i < m} \cup {m} = jobs
    BY <1>4, <2>1
  <2>3. Fits(b, Charged(b) \cup {i \in jobs : i < m} \cup {m}, p)
    BY <1>3, <1>4, <2>1 DEF IsAdmission
  <2>4. Charged(b) \cup {i \in jobs : i < m} \cup {m} = Charged(b) \cup jobs
    BY <2>2
  <2> QED BY <2>3, <2>4
<1> QED BY <1>4, <1>5

\* The jobs are started, charged for what they asked, and the others are as
\* they were.
IsScheduled(b, jobs, d) ==
  /\ d.broker \in Brokers
  /\ d.broker.receipts = b.receipts
  /\ Queued(d.broker) = Queued(b) \ jobs
  /\ Charged(d.broker) = Charged(b) \cup jobs
  /\ \A j \in Charged(b) : d.broker.active[j] = b.active[j]
  /\ \A j \in Charged(d.broker) : Demand(d.broker, j) = Demand(b, j)
  /\ \A j \in jobs : d.broker.active[j].state = "Starting"
  /\ DOMAIN d.actions = jobs
  /\ \A j \in jobs : d.actions[j] = Start(j)

\* schedule starts the jobs it admits.
LEMMA ScheduleIs ==
  ASSUME NEW s \in Services, JobsAreTasks(s), NEW p,
         NEW jobs, jobs = Admitted(s.broker, p), NEW d, d = Schedule(s.broker, p)
  PROVE  IsScheduled(s.broker, jobs, d)
<1>0. PICK b : b = s.broker
  OBVIOUS
<1>1. /\ b \in Brokers /\ jobs \subseteq Queued(b)
      /\ Queued(b) \cap Charged(b) = {} /\ IsFiniteSet(Charged(b))
  BY <1>0, ServiceParts, AdmittedFit, JobsAreFinite DEF JobsAreTasks
<1>2. /\ b.active \in [Charged(b) -> ActiveJob] /\ Charged(b) \subseteq Jobs
      /\ b.queued \in [Queued(b) -> Demands] /\ Queued(b) \subseteq Jobs
  BY <1>0, ServiceParts, MapsAre DEF Charged, Queued
<1>3. NextRank(b) \in Nat
  <2> DEFINE ranks == {b.active[j].admitted : j \in Charged(b)}
  <2>1. IsFiniteSet(ranks) /\ ranks \subseteq Nat
    <3>1. ranks \subseteq Nat
      BY <1>2 DEF ActiveJob
    <3> QED BY <1>1, <3>1, RanksAreFinite
  <2> HIDE DEF ranks
  <2>2. IsFiniteSet({0} \cup ranks)
    BY <2>1, FS_Singleton, FS_Union
  <2>3. {0} \cup ranks \subseteq Nat /\ {0} \cup ranks # {}
    BY <2>1
  <2>4. Max({0} \cup ranks) \in Nat
    BY <2>2, <2>3, MaxAndMin
  <2> QED BY <2>4 DEF NextRank, ranks
<1>4. ASSUME NEW j \in jobs
      PROVE  /\ NewJob(b.queued[j], NextRank(b)) \in ActiveJob
             /\ NewJob(b.queued[j], NextRank(b)).memory = b.queued[j]
             /\ NewJob(b.queued[j], NextRank(b)).state = "Starting"
  <2>1. b.queued[j] \in Demands
    BY <1>1, <1>2
  <2> QED BY <1>3, <2>1 DEF NewJob, ActiveJob, Escalations
<1> DEFINE new == [j \in jobs |-> NewJob(b.queued[j], NextRank(b))]
           active == Updated(b.active, new)
           queued == Without(b.queued, jobs)
<1>5. /\ active \in Maps(Jobs, ActiveJob) /\ DOMAIN active = Charged(b) \cup jobs
      /\ \A j \in jobs : active[j] = NewJob(b.queued[j], NextRank(b))
      /\ \A j \in Charged(b) : active[j] = b.active[j]
  <2>1. new \in Maps(Jobs, ActiveJob) /\ DOMAIN new = jobs
    <3>1. new \in [jobs -> ActiveJob] /\ jobs \in SUBSET Jobs
      BY <1>1, <1>2, <1>4
    <3> QED BY <3>1 DEF Maps
  <2>2. b.active \in Maps(Jobs, ActiveJob)
    BY <1>1 DEF Brokers
  <2>3. \A j \in jobs : new[j] = NewJob(b.queued[j], NextRank(b))
    OBVIOUS
  <2> HIDE DEF new
  <2>4. active \in Maps(Jobs, ActiveJob)
    BY <2>1, <2>2, UpdatedIsMap
  <2>5. DOMAIN b.active = Charged(b) /\ jobs \cap Charged(b) = {}
    BY <1>1 DEF Charged
  <2>6. /\ DOMAIN active = DOMAIN b.active \cup DOMAIN new
        /\ \A j \in DOMAIN new : active[j] = new[j]
        /\ \A j \in DOMAIN b.active \ DOMAIN new : active[j] = b.active[j]
    BY DEF Updated
  <2> HIDE DEF active
  <2> QED BY <2>1, <2>3, <2>4, <2>5, <2>6
<1>6. /\ queued \in Maps(Jobs, Demands) /\ DOMAIN queued = Queued(b) \ jobs
      /\ \A j \in Queued(b) \ jobs : queued[j] = b.queued[j]
  <2>1. b.queued \in Maps(Jobs, Demands)
    BY <1>1 DEF Brokers
  <2>2. queued \in Maps(Jobs, Demands)
    BY <2>1, WithoutIsMap
  <2>3. DOMAIN queued = Queued(b) \ jobs
        /\ \A j \in Queued(b) \ jobs : queued[j] = b.queued[j]
    BY DEF Without, Restrict, Queued
  <2> QED BY <2>2, <2>3
<1>7. /\ d.actions = [j \in jobs |-> Start(j)]
      /\ d.broker = [queued |-> queued, active |-> active, receipts |-> b.receipts]
  BY <1>0, <1>1 DEF Schedule, Admit, Brokers
<1> HIDE DEF active, queued, new
<1>8. d.broker \in Brokers
  BY <1>1, <1>5, <1>6, <1>7 DEF Brokers
<1>9. /\ Charged(d.broker) = Charged(b) \cup jobs
      /\ Queued(d.broker) = Queued(b) \ jobs
  BY <1>5, <1>6, <1>7 DEF Charged, Queued
<1>10. ASSUME NEW j \in Charged(d.broker)
       PROVE  Demand(d.broker, j) = Demand(b, j)
  <2>1. CASE j \in Charged(b)
    BY <1>5, <1>7, <1>9, <2>1 DEF Demand
  <2>2. CASE j \in jobs
    <3>1. j \notin Charged(b)
      BY <1>1, <2>2
    <3> QED BY <1>4, <1>5, <1>7, <1>9, <2>2, <3>1 DEF Demand
  <2> QED BY <1>9, <2>1, <2>2
<1>11. \A j \in jobs : d.broker.active[j].state = "Starting"
  BY <1>4, <1>5, <1>7
<1>12. /\ d.broker.receipts = b.receipts
       /\ \A j \in Charged(b) : d.broker.active[j] = b.active[j]
  BY <1>5, <1>7
<1>13. DOMAIN d.actions = jobs /\ \A j \in jobs : d.actions[j] = Start(j)
  BY <1>7
<1> QED BY <1>0, <1>8, <1>9, <1>10, <1>11, <1>12, <1>13 DEF IsScheduled

\* schedule: the admitted jobs fit beside the others, and their starts are what
\* is pending.
LEMMA AdmissionIsPending ==
  ASSUME NEW p, NEW s, Consistent(s, NoJobs, p), NEW d, d = Schedule(s.broker, p),
         NEW y, y = [s EXCEPT !.broker = d.broker]
  PROVE  Consistent(y, d.actions, p)
<1>1. /\ s \in Services /\ JobsAreTasks(s) /\ WorkersAreCharged(s)
      /\ LiveJobsAreUnsettled(s) /\ ChargesFit(s.broker)
      /\ LeavesReserves(s.broker, AtWork(s.broker), p)
      /\ SessionsAgree(s, {}) /\ LeasesAreExclusive(s)
      /\ \A u \in DOMAIN s.tasks : IsReceipted(s, u)
  BY DEF Consistent, NoJobs
<1>2. PICK jobs : jobs = Admitted(s.broker, p)
  OBVIOUS
<1>3. /\ jobs \subseteq Queued(s.broker)
      /\ jobs # {} => Fits(s.broker, Charged(s.broker) \cup jobs, p)
  BY <1>1, <1>2, AdmittedFit
<1>4. /\ d.broker \in Brokers
      /\ d.broker.receipts = s.broker.receipts
      /\ Queued(d.broker) = Queued(s.broker) \ jobs
      /\ Charged(d.broker) = Charged(s.broker) \cup jobs
      /\ \A j \in Charged(s.broker) : d.broker.active[j] = s.broker.active[j]
      /\ \A j \in Charged(d.broker) : Demand(d.broker, j) = Demand(s.broker, j)
      /\ \A j \in jobs : d.broker.active[j].state = "Starting"
      /\ DOMAIN d.actions = jobs
      /\ \A j \in jobs : d.actions[j] = Start(j)
  <2>1. s \in Services /\ JobsAreTasks(s)
    BY <1>1
  <2>2. jobs = Admitted(s.broker, p) /\ d = Schedule(s.broker, p)
    BY <1>2
  <2>3. IsScheduled(s.broker, jobs, d)
    BY <2>1, <2>2, ScheduleIs
  <2> QED BY <2>3 DEF IsScheduled
<1>5. /\ y \in Services /\ y.tasks = s.tasks /\ y.workers = s.workers
      /\ y.store = s.store /\ y.broker = d.broker
  BY <1>1, <1>4, WithBrokerIs DEF Services
<1>6. jobs \cap Charged(s.broker) = {}
  BY <1>1, <1>3 DEF JobsAreTasks
<1>7. JobsAreTasks(y) /\ WorkersAreCharged(y) /\ LiveJobsAreUnsettled(y)
  BY <1>1, <1>3, <1>4, <1>5
  DEF JobsAreTasks, WorkersAreCharged, LiveJobsAreUnsettled
<1>8. ChargesFit(y.broker) /\ LeavesReserves(y.broker, AtWork(y.broker), p)
  <2>1. /\ IsFiniteSet(Charged(d.broker)) /\ IsFiniteSet(Charged(s.broker))
    BY <1>1, <1>5, <1>7, JobsAreFinite
  <2>2. CASE jobs = {}
    <3>1. /\ Charged(d.broker) \subseteq Charged(s.broker)
          /\ AtWork(d.broker) \subseteq AtWork(s.broker)
          /\ \A j \in Charged(d.broker) :
               d.broker.active[j].memory = s.broker.active[j].memory
      BY <1>4, <2>2 DEF AtWork
    <3> QED BY <1>1, <1>5, <2>1, <3>1, LighterBrokers
  <2>3. CASE jobs # {}
    <3> DEFINE all == Charged(d.broker)
    <3>1. Cardinality(all) =< WorkerSlots /\ LeavesReserves(s.broker, all, p)
      BY <1>3, <1>4, <2>3 DEF Fits
    <3>2. \A j \in all : Demand(d.broker, j) = Demand(s.broker, j)
      BY <1>4
    <3>3. AtWork(d.broker) \subseteq all
      BY DEF AtWork
    <3> HIDE DEF all
    <3>4. IsFiniteSet(all)
      BY <2>1 DEF all
    <3>5. LeavesReserves(d.broker, all, p)
      BY <3>1, <3>2, <3>4, FewerLeaveReserves
    <3>6. LeavesReserves(d.broker, AtWork(d.broker), p)
      BY <3>1, <3>2, <3>3, <3>4, FewerLeaveReserves
    <3>7. ChargesFit(d.broker)
      <4>1. Cardinality(all) \in Nat /\ MemoryInUse(d.broker, all) \in Nat
        BY <3>2, <3>4, UsageIsMonotone
      <4>2. /\ Cardinality(all) =< CpuLimit(p)
            /\ MemoryInUse(d.broker, all) =< MemoryLimit(p)
        BY <3>5 DEF LeavesReserves, CpuInUse
      <4>3. /\ Cardinality(all) =< CpuSlots
            /\ MemoryInUse(d.broker, all) =< MemoryUnits
        BY <4>1, <4>2, LimitsAreSound, CapacityAssumption
      <4> QED BY <3>1, <4>3 DEF ChargesFit, FitsTheMachine, CpuInUse, all
    <3> QED BY <1>5, <3>6, <3>7
  <2> QED BY <2>2, <2>3
<1>9. SessionsAgree(y, DOMAIN d.actions)
  BY <1>1, <1>4, <1>5 DEF SessionsAgree
<1>10. LeasesAreExclusive(y)
  BY <1>1, <1>5 DEF LeasesAreExclusive, KeyOf
<1>11. ASSUME NEW t \in DOMAIN y.tasks PROVE IsReceipted(y, t)
  <2>1. IsReceipted(s, t) /\ y.tasks[t] = s.tasks[t] /\ KeyOf(y, t) = KeyOf(s, t)
    BY <1>1, <1>5, <1>11 DEF KeyOf
  <2>2. s.tasks[t].verified => t \notin jobs
    BY <1>1, <1>3, <2>1 DEF IsReceipted, LiveJobsAreUnsettled, Settled
  <2> QED BY <1>4, <1>5, <2>1, <2>2 DEF IsReceipted
<1>12. ArePending(y, d.actions)
  <2>1. \A t \in jobs : t \notin DOMAIN y.workers
    BY <1>1, <1>5, <1>6 DEF WorkersAreCharged
  <2> QED BY <1>4, <1>5, <2>1 DEF ArePending, IsPending
<1> QED BY <1>5, <1>7, <1>8, <1>9, <1>10, <1>11, <1>12 DEF Consistent

\* schedule_queued leaves the service at rest.
LEMMA SchedulingIsHandled ==
  ASSUME NEW p, NEW s, Consistent(s, NoJobs, p), NEW fate \in Fates,
         NEW x, x = ScheduleJobs(s, p, fate)
  PROVE  Handled(s, p, x)
<1>1. s \in Services
  BY DEF Consistent
<1>2. PICK d : d = Schedule(s.broker, p)
  OBVIOUS
<1>3. PICK y : y = [s EXCEPT !.broker = d.broker]
  OBVIOUS
<1>4. Consistent(y, d.actions, p)
  BY <1>2, <1>3, AdmissionIsPending
<1>5. x = Apply(s, d, fate)
  BY <1>2 DEF ScheduleJobs
<1> QED BY <1>1, <1>3, <1>4, <1>5, ApplyIsHandled

-----------------------------------------------------------------------------
(* What a method may change without a decision of the broker               *)

\* The broker has the same jobs in the same states; some may have left the
\* queue.
SameJobs(b, c) ==
  /\ Queued(c) \subseteq Queued(b)
  /\ Charged(c) = Charged(b)
  /\ c.receipts = b.receipts
  /\ \A j \in Charged(b) : /\ c.active[j].memory = b.active[j].memory
                           /\ c.active[j].state = b.active[j].state

\* No worker is new, none is told to cancel, and a lease that is left keeps its
\* lock and has no result.
SameSessions(s, x) ==
  /\ DOMAIN x.workers \subseteq DOMAIN s.workers
  /\ \A u \in DOMAIN x.workers :
       /\ x.workers[u].cancelling <=> s.workers[u].cancelling
       /\ x.workers[u].leased => /\ s.workers[u].leased
                                 /\ KeyOf(s, u) \in x.store.locks
                                 /\ KeyOf(s, u) \notin DOMAIN x.store.results

\* No result is lost or replaced.
KeepsResults(s, x) ==
  \A k \in DOMAIN s.store.results :
    k \in DOMAIN x.store.results /\ x.store.results[k] = s.store.results[k]

\* A task changes only while it is not settled, and nothing publishes it; only
\* one without a job is restored.
SameTasks(s, x) ==
  /\ DOMAIN x.tasks = DOMAIN s.tasks /\ Len(x.tasks) = Len(s.tasks)
  /\ \A u \in DOMAIN s.tasks :
       \/ x.tasks[u] = s.tasks[u]
       \/ /\ x.tasks[u].key = s.tasks[u].key
          /\ ~x.tasks[u].verified
          /\ s.tasks[u].status \notin Settled
          /\ x.tasks[u].status # "Published"
          /\ x.tasks[u].status \in Settled =>
               u \notin Queued(x.broker) \cup Charged(x.broker)

\* Such a change leaves the service at rest.
LEMMA RestIsKept ==
  ASSUME NEW p, NEW s, Consistent(s, NoJobs, p), NEW x \in Services,
         SameJobs(s.broker, x.broker), SameSessions(s, x), KeepsResults(s, x),
         SameTasks(s, x)
  PROVE  Handled(s, p, x)
<1>1. /\ s \in Services /\ JobsAreTasks(s) /\ WorkersAreCharged(s)
      /\ LiveJobsAreUnsettled(s) /\ ChargesFit(s.broker)
      /\ LeavesReserves(s.broker, AtWork(s.broker), p)
      /\ SessionsAgree(s, {}) /\ LeasesAreExclusive(s)
      /\ \A u \in DOMAIN s.tasks : IsReceipted(s, u)
  BY DEF Consistent, NoJobs
<1>2. \A u \in DOMAIN s.tasks : KeyOf(x, u) = KeyOf(s, u)
  BY DEF SameTasks, KeyOf
<1>3. JobsAreTasks(x) /\ WorkersAreCharged(x)
  <2>1. /\ Queued(x.broker) \subseteq Queued(s.broker)
        /\ Charged(x.broker) = Charged(s.broker)
        /\ x.broker.receipts = s.broker.receipts
        /\ DOMAIN x.workers \subseteq DOMAIN s.workers
        /\ DOMAIN x.tasks = DOMAIN s.tasks
    BY DEF SameJobs, SameSessions, SameTasks
  <2>2. JobsAreTasks(x)
    BY <1>1, <2>1 DEF JobsAreTasks
  <2>3. WorkersAreCharged(x)
    BY <1>1, <2>1 DEF WorkersAreCharged
  <2> QED BY <2>2, <2>3
<1>4. LiveJobsAreUnsettled(x)
  <2>1. ASSUME NEW u \in Queued(x.broker) \cup Charged(x.broker)
        PROVE  x.tasks[u].status \notin Settled
    <3>1. u \in Queued(s.broker) \cup Charged(s.broker) /\ u \in DOMAIN s.tasks
      BY <1>1, <2>1 DEF SameJobs, JobsAreTasks
    <3>2. s.tasks[u].status \notin Settled
      BY <1>1, <3>1 DEF LiveJobsAreUnsettled
    <3> QED BY <2>1, <3>1, <3>2 DEF SameTasks
  <2> QED BY <2>1 DEF LiveJobsAreUnsettled
<1>5. ChargesFit(x.broker) /\ LeavesReserves(x.broker, AtWork(x.broker), p)
  <2>1. IsFiniteSet(Charged(s.broker))
    BY <1>1, JobsAreFinite
  <2>2. /\ Charged(x.broker) \subseteq Charged(s.broker)
        /\ AtWork(x.broker) \subseteq AtWork(s.broker)
        /\ \A j \in Charged(x.broker) :
             x.broker.active[j].memory = s.broker.active[j].memory
    BY DEF SameJobs, AtWork
  <2> QED BY <1>1, <2>1, <2>2, LighterBrokers
<1>6. SessionsAgree(x, {})
  <2>1. ASSUME NEW t \in Charged(x.broker)
        PROVE  /\ x.broker.active[t].state \in {"Running", "CancelRequested"}
               /\ t \in DOMAIN x.workers =>
                    (x.workers[t].cancelling
                       <=> x.broker.active[t].state = "CancelRequested")
    <3>1. t \in Charged(s.broker)
          /\ x.broker.active[t].state = s.broker.active[t].state
      BY <2>1 DEF SameJobs
    <3>2. t \in DOMAIN x.workers =>
            t \in DOMAIN s.workers
              /\ (x.workers[t].cancelling <=> s.workers[t].cancelling)
      BY DEF SameSessions
    <3> QED BY <1>1, <3>1, <3>2 DEF SessionsAgree
  <2> QED BY <2>1 DEF SessionsAgree
<1>7. LeasesAreExclusive(x)
  <2>1. ASSUME NEW t \in DOMAIN x.workers
        PROVE  /\ t \in DOMAIN s.workers /\ KeyOf(x, t) = KeyOf(s, t)
               /\ x.workers[t].leased => /\ s.workers[t].leased
                                         /\ KeyOf(s, t) \in x.store.locks
                                         /\ KeyOf(s, t) \notin DOMAIN x.store.results
    BY <1>1, <1>2 DEF SameSessions, JobsAreTasks
  <2> QED BY <1>1, <2>1 DEF LeasesAreExclusive
<1>8. ASSUME NEW t \in DOMAIN x.tasks PROVE IsReceipted(x, t)
  <2>1. t \in DOMAIN s.tasks /\ IsReceipted(s, t) /\ KeyOf(x, t) = KeyOf(s, t)
    BY <1>1, <1>2, <1>8 DEF SameTasks
  <2>2. CASE x.tasks[t] = s.tasks[t]
    <3>1. x.broker.receipts \ Charged(x.broker) = s.broker.receipts \ Charged(s.broker)
      BY DEF SameJobs
    <3> QED BY <2>1, <2>2, <3>1 DEF IsReceipted, KeepsResults
  <2>3. CASE x.tasks[t] # s.tasks[t]
    BY <2>1, <2>3 DEF IsReceipted, SameTasks
  <2> QED BY <2>2, <2>3
<1>9. KeepsTasks(s, x)
  BY <1>2 DEF KeepsTasks, SameTasks
<1>10. ArePending(x, NoJobs) /\ DOMAIN NoJobs = {}
  BY DEF ArePending, NoJobs
<1> QED BY <1>3, <1>4, <1>5, <1>6, <1>7, <1>8, <1>9, <1>10
  DEF Consistent, Handled, SameTasks

\* A job that ends between two calls leaves the service at rest.
LEMMA EndIsHandled ==
  ASSUME NEW p, NEW s, NEW t, NEW x, CarriedOut(s, NoJobs, p, t, x)
  PROVE  Handled(s, p, x)
<1>1. Without(NoJobs, {t}) = NoJobs
  BY DEF Without, Restrict, NoJobs
<1> QED BY <1>1 DEF CarriedOut, Handled

\* set_status and fail, for a task that is not settled.
LEMMA StatusIsHandled ==
  ASSUME NEW p, NEW s, Consistent(s, NoJobs, p), NEW t \in DOMAIN s.tasks,
         s.tasks[t].status \notin Settled, NEW status \in Pending \cup Ended,
         status # "Published",
         status \in Settled => t \notin Queued(s.broker) \cup Charged(s.broker),
         NEW x, x = WithStatus(s, t, status)
  PROVE  Handled(s, p, x)
<1>1. s \in Services /\ IsReceipted(s, t) /\ LeasesAreExclusive(s)
  BY DEF Consistent
<1>2. /\ x \in Services
      /\ x.broker = s.broker /\ x.workers = s.workers /\ x.store = s.store
      /\ DOMAIN x.tasks = DOMAIN s.tasks /\ Len(x.tasks) = Len(s.tasks)
      /\ \A u \in DOMAIN s.tasks \ {t} : x.tasks[u] = s.tasks[u]
      /\ x.tasks[t].key = s.tasks[t].key
      /\ (x.tasks[t].verified <=> s.tasks[t].verified)
      /\ x.tasks[t].status = status
  BY <1>1, StatusIs
<1>3. ~s.tasks[t].verified
  BY <1>1 DEF IsReceipted, Settled
<1>4. SameTasks(s, x)
  BY <1>2, <1>3 DEF SameTasks
<1>5. SameJobs(s.broker, x.broker) /\ KeepsResults(s, x)
  BY <1>2 DEF SameJobs, KeepsResults
<1>6. SameSessions(s, x)
  BY <1>1, <1>2 DEF SameSessions, LeasesAreExclusive
<1> QED BY <1>2, <1>4, <1>5, <1>6, RestIsKept

-----------------------------------------------------------------------------
(* What a worker reports                                                   *)

\* Giving up a lease between two calls.
LEMMA UnlockingIsHandled ==
  ASSUME NEW p, NEW s, Consistent(s, NoJobs, p), NEW t \in DOMAIN s.workers,
         NEW x, x = Unlocked(s, t)
  PROVE  Handled(s, p, x) /\ DOMAIN x.workers = DOMAIN s.workers
         /\ x.broker = s.broker /\ x.tasks = s.tasks
<1>1. s \in Services /\ LeasesAreExclusive(s)
  BY DEF Consistent
<1>2. /\ x \in Services
      /\ x.tasks = s.tasks /\ x.broker = s.broker
      /\ DOMAIN x.workers = DOMAIN s.workers
      /\ \A u \in DOMAIN s.workers \ {t} : x.workers[u] = s.workers[u]
      /\ (x.workers[t].cancelling <=> s.workers[t].cancelling)
      /\ ~x.workers[t].leased
      /\ x.store.results = s.store.results
      /\ \A k \in s.store.locks :
           k \in x.store.locks \/ (s.workers[t].leased /\ k = KeyOf(s, t))
  BY <1>1, UnlockedIs
<1>3. SameSessions(s, x)
  BY <1>1, <1>2 DEF SameSessions, LeasesAreExclusive
<1>4. SameJobs(s.broker, x.broker) /\ KeepsResults(s, x) /\ SameTasks(s, x)
  BY <1>2 DEF SameJobs, KeepsResults, SameTasks
<1>5. Handled(s, p, x)
  BY <1>2, <1>3, <1>4, RestIsKept
<1> QED BY <1>2, <1>5

\* Publishing: the result is new, it is in the store before the lock is gone,
\* and broker and tasks do not know of it yet.
LEMMA StoringIsHandled ==
  ASSUME NEW p, NEW s, Consistent(s, NoJobs, p), NEW t \in DOMAIN s.workers,
         s.workers[t].leased, NEW result \in Results,
         NEW x, x = Stored(s, t, result)
  PROVE  /\ Handled(s, p, x)
         /\ DOMAIN x.workers = DOMAIN s.workers
         /\ x.broker = s.broker /\ x.tasks = s.tasks
         /\ KeyOf(x, t) \in DOMAIN x.store.results
         /\ x.store.results[KeyOf(x, t)] = result
<1>1. s \in Services /\ LeasesAreExclusive(s) /\ JobsAreTasks(s)
  BY DEF Consistent
<1>2. PICK y : y = Unlocked(s, t)
  OBVIOUS
<1>3. /\ y \in Services
      /\ y.tasks = s.tasks /\ y.broker = s.broker
      /\ DOMAIN y.workers = DOMAIN s.workers
      /\ \A u \in DOMAIN s.workers \ {t} : y.workers[u] = s.workers[u]
      /\ (y.workers[t].cancelling <=> s.workers[t].cancelling)
      /\ ~y.workers[t].leased
      /\ y.store.results = s.store.results
      /\ \A k \in s.store.locks :
           k \in y.store.locks \/ (s.workers[t].leased /\ k = KeyOf(s, t))
  BY <1>1, <1>2, UnlockedIs
<1>4. PICK key : key = KeyOf(s, t)
  OBVIOUS
<1>5. PICK results : results = Updated(s.store.results, [k \in {key} |-> result])
  OBVIOUS
<1>6. key \in Keys /\ key \notin DOMAIN s.store.results
  <2>1. t \in DOMAIN s.tasks
    BY <1>1 DEF JobsAreTasks
  <2>2. key \in Keys
    BY <1>1, <1>4, <2>1, EntriesAre
  <2> QED BY <1>1, <1>4, <2>2 DEF LeasesAreExclusive
<1>7. /\ results \in Maps(Keys, Results)
      /\ DOMAIN results = DOMAIN s.store.results \cup {key}
      /\ \A k \in DOMAIN s.store.results : results[k] = s.store.results[k]
      /\ results[key] = result
  <2>1. [k \in {key} |-> result] \in [{key} -> Results] /\ {key} \in SUBSET Keys
    BY <1>6
  <2>2. [k \in {key} |-> result] \in Maps(Keys, Results)
    BY <2>1 DEF Maps
  <2>3. s.store.results \in Maps(Keys, Results)
    BY <1>1, ServiceParts
  <2>4. results \in Maps(Keys, Results)
    BY <1>5, <2>2, <2>3, UpdatedIsMap
  <2> QED BY <1>5, <1>6, <2>4 DEF Updated
<1>8. /\ x = [y EXCEPT !.store.results = results]
  BY <1>2, <1>3, <1>4, <1>5, UnlockedIs DEF Stored, KeyOf
<1>9. /\ x.tasks = y.tasks /\ x.broker = y.broker /\ x.workers = y.workers
      /\ x.store = [y.store EXCEPT !.results = results]
      /\ x = [tasks |-> y.tasks, broker |-> y.broker, workers |-> y.workers,
              store |-> x.store]
  BY <1>3, <1>8 DEF Services
<1>10. x.store \in Stores /\ x.store.results = results
       /\ x.store.locks = y.store.locks
  BY <1>3, <1>7, <1>9, ServiceParts DEF Stores
<1>11. x \in Services
  BY <1>3, <1>9, <1>10, ServiceParts DEF Services
<1>12. SameSessions(s, x)
  <2>1. ASSUME NEW u \in DOMAIN s.workers, u # t, s.workers[u].leased
        PROVE  /\ KeyOf(s, u) # key /\ KeyOf(s, u) \in y.store.locks
               /\ KeyOf(s, u) \notin DOMAIN results
    BY <1>1, <1>3, <1>4, <1>7, <2>1 DEF LeasesAreExclusive
  <2> QED BY <1>3, <1>9, <1>10, <2>1 DEF SameSessions
<1>13. SameJobs(s.broker, x.broker) /\ KeepsResults(s, x) /\ SameTasks(s, x)
  BY <1>3, <1>7, <1>9, <1>10 DEF SameJobs, KeepsResults, SameTasks
<1>14. Handled(s, p, x)
  BY <1>11, <1>12, <1>13, RestIsKept
<1>15. KeyOf(x, t) = key
  BY <1>3, <1>4, <1>9 DEF KeyOf
<1> QED BY <1>3, <1>7, <1>9, <1>10, <1>14, <1>15

\* Dropping a worker whose job stays charged.
LEMMA DroppingIsHandled ==
  ASSUME NEW p, NEW s, Consistent(s, NoJobs, p), NEW t \in DOMAIN s.workers,
         NEW x, x = Dropped(s, t)
  PROVE  Handled(s, p, x) /\ x.broker = s.broker /\ x.tasks = s.tasks
<1>1. s \in Services /\ LeasesAreExclusive(s)
  BY DEF Consistent
<1>2. /\ x \in Services
      /\ x.tasks = s.tasks /\ x.broker = s.broker
      /\ x.workers = Without(s.workers, {t})
      /\ x.store.results = s.store.results
      /\ \A k \in s.store.locks :
           k \in x.store.locks \/ (s.workers[t].leased /\ k = KeyOf(s, t))
  BY <1>1, DroppedIs
<1>3. /\ DOMAIN x.workers = DOMAIN s.workers \ {t}
      /\ \A u \in DOMAIN s.workers \ {t} : x.workers[u] = s.workers[u]
  BY <1>2 DEF Without, Restrict
<1>4. SameSessions(s, x)
  BY <1>1, <1>2, <1>3 DEF SameSessions, LeasesAreExclusive
<1>5. SameJobs(s.broker, x.broker) /\ KeepsResults(s, x) /\ SameTasks(s, x)
  BY <1>2 DEF SameJobs, KeepsResults, SameTasks
<1>6. Handled(s, p, x)
  BY <1>2, <1>4, <1>5, RestIsKept
<1> QED BY <1>2, <1>6

\* A failure, a cancellation or a refused record ends the job.
LEMMA DroppingEnds ==
  ASSUME NEW p, NEW s, Consistent(s, NoJobs, p), NEW t \in DOMAIN s.workers,
         NEW x, x \in {ReceiveCancelled(s, t), ReceiveFailed(s, t),
                       RefuseProgress(s, t)}
  PROVE  Handled(s, p, x)
<1>1. PICK status \in {"Cancelled", "Failed"} :
        x = WithStatus(Acknowledged(Dropped(s, t), t), t, status)
  BY DEF ReceiveCancelled, ReceiveFailed, RefuseProgress, Fail
<1>2. CarriedOut(s, NoJobs, p, t, x)
  BY <1>1, DroppedJobEnds
<1> QED BY <1>2, EndIsHandled

\* A broker whose jobs keep their states and demands, deadlines apart.
LEMMA RetimedBroker ==
  ASSUME NEW b \in Brokers, NEW now \in [Charged(b) -> ActiveJob],
         \A j \in Charged(b) : /\ now[j].memory = b.active[j].memory
                               /\ now[j].state = b.active[j].state,
         NEW c, c = [b EXCEPT !.active = now]
  PROVE  /\ c \in Brokers /\ SameJobs(b, c)
         /\ c.queued = b.queued /\ c.active = now
<1>1. /\ c.queued = b.queued /\ c.receipts = b.receipts /\ c.active = now
      /\ c = [queued |-> b.queued, active |-> now, receipts |-> b.receipts]
  BY DEF Brokers
<1>2. Charged(b) \subseteq Jobs /\ now \in Maps(Jobs, ActiveJob)
  <2>1. b.active \in Maps(Jobs, ActiveJob)
    BY DEF Brokers
  <2>2. Charged(b) \subseteq Jobs
    BY <2>1, MapsAre DEF Charged
  <2> QED BY <2>2 DEF Maps
<1>3. c \in Brokers
  BY <1>1, <1>2 DEF Brokers
<1>4. SameJobs(b, c)
  BY <1>1 DEF SameJobs, Charged, Queued
<1> QED BY <1>1, <1>3, <1>4

\* A broker with the same jobs, some of them later or no longer queued.
LEMMA SameJobsAreHandled ==
  ASSUME NEW p, NEW s, Consistent(s, NoJobs, p), NEW c \in Brokers,
         SameJobs(s.broker, c), NEW x, x = [s EXCEPT !.broker = c]
  PROVE  Handled(s, p, x) /\ x.workers = s.workers /\ x.tasks = s.tasks
<1>1. s \in Services /\ LeasesAreExclusive(s)
  BY DEF Consistent
<1>2. /\ x \in Services /\ x.broker = c
      /\ x.tasks = s.tasks /\ x.workers = s.workers /\ x.store = s.store
  BY <1>1, WithBrokerIs DEF Services
<1>3. SameSessions(s, x)
  BY <1>1, <1>2 DEF SameSessions, LeasesAreExclusive
<1>4. KeepsResults(s, x) /\ SameTasks(s, x)
  BY <1>2 DEF KeepsResults, SameTasks
<1>5. Handled(s, p, x)
  BY <1>2, <1>3, <1>4, RestIsKept
<1> QED BY <1>2, <1>5

\* What observe_progress leaves.
LEMMA ProgressIs ==
  ASSUME NEW b \in Brokers, NEW t \in Charged(b), NEW c, c = ObserveProgress(b, t)
  PROVE  c \in Brokers /\ SameJobs(b, c)
<1> DEFINE now == [b.active EXCEPT ![t].late = FALSE]
<1>1. b.active \in [Charged(b) -> ActiveJob]
  <2>1. b.active \in Maps(Jobs, ActiveJob)
    BY DEF Brokers
  <2> QED BY <2>1, MapsAre DEF Charged
<1>2. [b.active[t] EXCEPT !.late = FALSE] \in ActiveJob
      /\ [b.active[t] EXCEPT !.late = FALSE].memory = b.active[t].memory
      /\ [b.active[t] EXCEPT !.late = FALSE].state = b.active[t].state
  BY <1>1 DEF ActiveJob
<1>3. now \in [Charged(b) -> ActiveJob]
      /\ \A j \in Charged(b) : /\ now[j].memory = b.active[j].memory
                               /\ now[j].state = b.active[j].state
  BY <1>1, <1>2
<1>4. c = [b EXCEPT !.active = now]
  BY DEF ObserveProgress, Brokers
<1> HIDE DEF now
<1> QED BY <1>3, <1>4, RetimedBroker

\* The progress of a running job, and what is left of a job that is not.
LEMMA ProgressIsHandled ==
  ASSUME NEW p, NEW s, Consistent(s, NoJobs, p), NEW t \in DOMAIN s.workers,
         s.workers[t].reports < MaximumReports, NEW x, x = ReceiveProgress(s, t)
  PROVE  Handled(s, p, x)
<1>1. CASE ~IsRunning(s.broker, t)
  <2>1. x = RefuseProgress(s, t)
    BY <1>1 DEF ReceiveProgress
  <2> QED BY <2>1, DroppingEnds
<1>2. CASE IsRunning(s.broker, t)
  <2>1. /\ s \in Services /\ LeasesAreExclusive(s) /\ JobsAreTasks(s)
        /\ LiveJobsAreUnsettled(s) /\ s.broker \in Brokers
    BY ServiceParts DEF Consistent
  <2>2. t \in Charged(s.broker) /\ t \in DOMAIN s.tasks
        /\ s.tasks[t].status \notin Settled
    BY <1>2, <2>1 DEF IsRunning, JobsAreTasks, LiveJobsAreUnsettled
  <2>3. PICK c : c = ObserveProgress(s.broker, t)
    OBVIOUS
  <2>4. c \in Brokers /\ SameJobs(s.broker, c)
    BY <2>1, <2>2, <2>3, ProgressIs
  <2>5. PICK y : y = [s EXCEPT !.workers[t].reports = @ + 1, !.broker = c]
    OBVIOUS
  <2>6. /\ y.tasks = s.tasks /\ y.store = s.store /\ y.broker = c
        /\ y.workers = [s.workers EXCEPT ![t].reports = @ + 1]
        /\ y = [tasks |-> s.tasks, broker |-> c, workers |-> y.workers,
                store |-> s.store]
    BY <2>1, <2>5 DEF Services
  <2>7. s.workers \in [DOMAIN s.workers -> Worker] /\ DOMAIN s.workers \subseteq Jobs
    BY <2>1, ServiceParts, MapsAre
  <2>8. [s.workers[t] EXCEPT !.reports = @ + 1] \in Worker
    BY <2>7, ServiceAssumption DEF Worker
  <2>9. /\ y.workers \in [DOMAIN s.workers -> Worker]
        /\ \A u \in DOMAIN s.workers \ {t} : y.workers[u] = s.workers[u]
        /\ y.workers[t] = [s.workers[t] EXCEPT !.reports = @ + 1]
    BY <2>6, <2>7, <2>8
  <2>10. y.workers \in Maps(Jobs, Worker)
    BY <2>7, <2>9 DEF Maps
  <2>11. y \in Services
    BY <2>1, <2>4, <2>6, <2>10, ServiceParts DEF Services
  <2>12. /\ (y.workers[t].cancelling <=> s.workers[t].cancelling)
         /\ (y.workers[t].leased <=> s.workers[t].leased)
    BY <2>7, <2>9 DEF Worker
  <2>13. SameSessions(s, y)
    BY <2>1, <2>6, <2>9, <2>12 DEF SameSessions, LeasesAreExclusive
  <2>14. SameJobs(s.broker, y.broker) /\ KeepsResults(s, y) /\ SameTasks(s, y)
    BY <2>4, <2>6 DEF KeepsResults, SameTasks
  <2>15. Handled(s, p, y)
    BY <2>11, <2>13, <2>14, RestIsKept
  <2>16. x = WithStatus(y, t, "Running")
    BY <1>2, <2>3, <2>5 DEF ReceiveProgress
  <2>17. "Running" \in Pending \cup Ended /\ "Running" \notin Settled
    BY DEF Pending, Settled
  <2>18. Consistent(y, NoJobs, p)
    BY <2>15 DEF Handled
  <2>19. Handled(y, p, x)
    BY <2>2, <2>6, <2>16, <2>17, <2>18, StatusIsHandled
  <2> QED BY <2>15, <2>19, HandledTransitively
<1> QED BY <1>1, <1>2

\* A receive that fails: what is late by now is stopped, or else the worker
\* itself is.
LEMMA ErrorIsHandled ==
  ASSUME NEW p, NEW s, Consistent(s, NoJobs, p), NEW t \in DOMAIN s.workers,
         NEW waited, NEW fate \in Fates,
         NEW x, x = ReceiveError(s, t, waited, fate)
  PROVE  Handled(s, p, x)
<1> DEFINE now == [j \in Charged(s.broker) |->
                     [s.broker.active[j] EXCEPT !.late = @ \/ j \in waited]]
<1>1. /\ s \in Services /\ WorkersAreCharged(s) /\ s.broker \in Brokers
      /\ \A j \in Charged(s.broker) : s.broker.active[j] \in ActiveJob
  BY ServiceParts, EntriesAre DEF Consistent
<1>2. now \in [Charged(s.broker) -> ActiveJob]
      /\ \A j \in Charged(s.broker) : /\ now[j].memory = s.broker.active[j].memory
                                      /\ now[j].state = s.broker.active[j].state
  <2>1. ASSUME NEW j \in Charged(s.broker)
        PROVE  /\ [s.broker.active[j] EXCEPT !.late = @ \/ j \in waited] \in ActiveJob
               /\ [s.broker.active[j] EXCEPT !.late = @ \/ j \in waited].memory
                    = s.broker.active[j].memory
               /\ [s.broker.active[j] EXCEPT !.late = @ \/ j \in waited].state
                    = s.broker.active[j].state
    BY <1>1 DEF ActiveJob
  <2> QED BY <2>1
<1>3. PICK c : c = [s.broker EXCEPT !.active = now]
  OBVIOUS
<1>4. PICK ticked : ticked = Tick(c)
  OBVIOUS
<1>5. x = IF ticked.actions = NoJobs
          THEN Apply(s, RequestCancel(ticked.broker, t, "ProgressDeadline"), fate)
          ELSE Apply(s, ticked, fate)
  BY <1>3, <1>4 DEF ReceiveError
<1> HIDE DEF now
<1>6. /\ c \in Brokers /\ SameJobs(s.broker, c)
  BY <1>1, <1>2, <1>3, RetimedBroker
<1>7. PICK l : l = [s EXCEPT !.broker = c]
  OBVIOUS
<1>8. Consistent(l, NoJobs, p) /\ l.broker = c
  <2>1. Handled(s, p, l)
    BY <1>6, <1>7, SameJobsAreHandled
  <2>2. l.broker = c
    BY <1>1, <1>7 DEF Services
  <2> QED BY <2>1, <2>2 DEF Handled
<1>9. PICK y : y = [s EXCEPT !.broker = ticked.broker]
  OBVIOUS
<1>10. y = [l EXCEPT !.broker = ticked.broker] /\ y.broker = ticked.broker
       /\ y.workers = s.workers
  BY <1>1, <1>7, <1>9 DEF Services
<1>11. Consistent(y, ticked.actions, p)
  BY <1>4, <1>8, <1>10, TickIsPending
<1>12. CASE ticked.actions # NoJobs
  BY <1>1, <1>5, <1>9, <1>11, <1>12, ApplyIsHandled
<1>13. CASE ticked.actions = NoJobs
  <2>1. PICK d : d = RequestCancel(ticked.broker, t, "ProgressDeadline")
    OBVIOUS
  <2>2. PICK z : z = [s EXCEPT !.broker = d.broker]
    OBVIOUS
  <2>3. z = [y EXCEPT !.broker = d.broker]
    BY <1>1, <1>9, <2>2 DEF Services
  <2>4. Consistent(y, NoJobs, p)
    BY <1>11, <1>13
  <2>5. t \in Charged(y.broker)
    BY <1>10, <2>4 DEF Consistent, WorkersAreCharged
  <2>6. d = RequestCancel(y.broker, t, "ProgressDeadline")
        /\ "ProgressDeadline" \in Reasons
    BY <1>10, <2>1 DEF Reasons
  <2>7. Consistent(z, d.actions, p)
    BY <2>3, <2>4, <2>5, <2>6, CancelIsPending
  <2>8. x = Apply(s, d, fate)
    BY <1>5, <1>13, <2>1
  <2> QED BY <1>1, <2>2, <2>7, <2>8, ApplyIsHandled
<1> QED BY <1>12, <1>13

-----------------------------------------------------------------------------
(* Completions                                                             *)

\* accept_completion: the receipt is issued and the job is over.
LEMMA CompleteIs ==
  ASSUME NEW b \in Brokers, NEW t \in Jobs, NEW c, c = Complete(b, t)
  PROVE  /\ c \in Brokers
         /\ c.queued = b.queued /\ c.active = Without(b.active, {t})
         /\ c.receipts = b.receipts \cup {t}
<1>1. PICK active : active = Without(b.active, {t})
  OBVIOUS
<1>2. active \in Maps(Jobs, ActiveJob)
  <2>1. b.active \in Maps(Jobs, ActiveJob)
    BY DEF Brokers
  <2> QED BY <1>1, <2>1, WithoutIsMap
<1>3. /\ c = [queued |-> b.queued, active |-> active,
              receipts |-> b.receipts \cup {t}]
  BY <1>1 DEF Complete, AcknowledgeTerminal, Brokers
<1>4. c \in Brokers
  BY <1>2, <1>3 DEF Brokers
<1> QED BY <1>1, <1>3, <1>4

\* What the task of a completed job may show: a completion only with a sound
\* result.
IsOutcome(s, t, task) ==
  /\ task \in Task
  /\ task.key = s.tasks[t].key
  /\ task.verified <=> task.status = "Published"
  /\ task.verified => /\ KeyOf(s, t) \in DOMAIN s.store.results
                      /\ s.store.results[KeyOf(s, t)] = "Sound"

\* What accept_published leaves when the broker takes the completion.
Completed(s, t, task) ==
  [Dropped(s, t) EXCEPT !.broker = Complete(s.broker, t),
                        !.tasks = [s.tasks EXCEPT ![t] = task]]

\* A completed job ends, whatever its task shows.
LEMMA CompletedJobEnds ==
  ASSUME NEW p, NEW s, Consistent(s, NoJobs, p), NEW t \in DOMAIN s.workers,
         NEW task, IsOutcome(s, t, task), NEW x, x = Completed(s, t, task)
  PROVE  Handled(s, p, x)
<1>0. PICK d, c : d = Dropped(s, t) /\ c = Complete(s.broker, t)
  OBVIOUS
<1>1. /\ s \in Services /\ JobsAreTasks(s) /\ LeasesAreExclusive(s)
      /\ WorkersAreCharged(s) /\ s.broker \in Brokers
  BY ServiceParts DEF Consistent
<1>2. t \in Charged(s.broker) /\ t \in DOMAIN s.tasks /\ t \in Jobs
  BY <1>1, EntriesAre DEF JobsAreTasks, WorkersAreCharged
<1>3. /\ d \in Services /\ d.tasks = s.tasks /\ d.broker = s.broker
      /\ d.workers = Without(s.workers, {t})
      /\ d.store.results = s.store.results
      /\ \A k \in s.store.locks :
           k \in d.store.locks \/ (s.workers[t].leased /\ k = KeyOf(s, t))
  BY <1>0, <1>1, DroppedIs
<1>4. /\ c \in Brokers
      /\ c.queued = s.broker.queued /\ c.active = Without(s.broker.active, {t})
      /\ c.receipts = s.broker.receipts \cup {t}
  BY <1>0, <1>1, <1>2, CompleteIs
<1>5. PICK done : done = [s.tasks EXCEPT ![t] = task]
  OBVIOUS
<1>6. /\ done \in Seq(Task) /\ DOMAIN done = DOMAIN s.tasks
      /\ Len(done) = Len(s.tasks) /\ done[t] = task
      /\ \A u \in DOMAIN s.tasks \ {t} : done[u] = s.tasks[u]
  BY <1>1, <1>2, <1>5, ServiceParts DEF IsOutcome
<1>7. /\ x.tasks = done /\ x.broker = c /\ x.workers = d.workers
      /\ x.store = d.store
      /\ x = [tasks |-> done, broker |-> c, workers |-> d.workers,
              store |-> d.store]
  BY <1>0, <1>3, <1>5 DEF Completed, Services
<1>8. x \in Services
  BY <1>3, <1>4, <1>6, <1>7, ServiceParts DEF Services
<1>9. KeyOf(x, t) = KeyOf(s, t)
  BY <1>6, <1>7 DEF KeyOf, IsOutcome
<1>10. Charged(x.broker) = Charged(s.broker) \ {t}
  BY <1>4, <1>7 DEF Charged, Without, Restrict
<1>11. IsReceipted(x, t)
  <2>1. x.tasks[t] = task /\ x.store.results = s.store.results
    BY <1>3, <1>6, <1>7
  <2>2. t \in x.broker.receipts \ Charged(x.broker)
    BY <1>4, <1>7, <1>10
  <2> QED BY <1>9, <2>1, <2>2 DEF IsReceipted, IsOutcome
<1>12. \A u \in DOMAIN s.workers \ {t} :
         s.workers[u].leased => KeyOf(s, u) \in x.store.locks
  BY <1>1, <1>3, <1>7 DEF LeasesAreExclusive
<1>13. /\ x.broker.queued = s.broker.queued
       /\ x.broker.active = Without(s.broker.active, {t})
       /\ x.broker.receipts \in {s.broker.receipts, s.broker.receipts \cup {t}}
       /\ x.workers = Without(s.workers, {t})
       /\ x.store.results = s.store.results
       /\ DOMAIN x.tasks = DOMAIN s.tasks /\ Len(x.tasks) = Len(s.tasks)
       /\ \A u \in DOMAIN s.tasks \ {t} : x.tasks[u] = s.tasks[u]
  BY <1>3, <1>4, <1>6, <1>7
<1>14. CarriedOut(s, NoJobs, p, t, x)
  BY <1>2, <1>8, <1>9, <1>11, <1>12, <1>13, JobEnds
<1> QED BY <1>14, EndIsHandled

\* accept_published: a task shows a completion exactly when the broker took it.
LEMMA AcceptanceIsHandled ==
  ASSUME NEW p, NEW s, Consistent(s, NoJobs, p), NEW t \in DOMAIN s.workers,
         NEW result \in {"Sound", "Oversized", "Unfit"},
         KeyOf(s, t) \in DOMAIN s.store.results,
         s.store.results[KeyOf(s, t)] = result,
         NEW x, x = AcceptPublished(s, t, result)
  PROVE  Handled(s, p, x)
<1>1. /\ s \in Services /\ JobsAreTasks(s) /\ LiveJobsAreUnsettled(s)
      /\ WorkersAreCharged(s)
      /\ \A u \in DOMAIN s.tasks : IsReceipted(s, u)
  BY DEF Consistent
<1>2. /\ t \in Charged(s.broker) /\ t \in DOMAIN s.tasks /\ s.tasks[t] \in Task
      /\ s.tasks[t].status \notin Settled
  BY <1>1, EntriesAre DEF JobsAreTasks, WorkersAreCharged, LiveJobsAreUnsettled
<1>3. ~s.tasks[t].verified
  BY <1>1, <1>2 DEF IsReceipted, Settled
<1>4. PICK d : d = Dropped(s, t)
  OBVIOUS
<1>5. Handled(s, p, d) /\ d.broker = s.broker /\ d.tasks = s.tasks
  BY <1>4, DroppingIsHandled
<1>7. d \in Services
  BY <1>5 DEF Handled, Consistent
<1>8. CASE x = Fail(d, t)
  <2>1. Consistent(d, NoJobs, p)
    BY <1>5 DEF Handled
  <2>2. "Failed" \in Pending \cup Ended /\ "Failed" \notin Settled
    BY DEF Ended, Settled
  <2>3. x = WithStatus(d, t, "Failed")
    BY <1>8 DEF Fail
  <2>4. Handled(d, p, x)
    BY <1>2, <1>5, <2>1, <2>2, <2>3, StatusIsHandled
  <2> QED BY <1>5, <2>4, HandledTransitively
<1>9. CASE x = Fail([d EXCEPT !.broker = Complete(@, t)], t)
  <2>1. PICK task : task = [s.tasks[t] EXCEPT !.status = "Failed"]
    OBVIOUS
  <2>2. /\ task \in Task /\ task.key = s.tasks[t].key /\ ~task.verified
        /\ task.status # "Published"
    BY <1>2, <1>3, <2>1 DEF Task, Ended
  <2>3. IsOutcome(s, t, task)
    BY <2>2 DEF IsOutcome
  <2>4. PICK y : y = [d EXCEPT !.broker = Complete(s.broker, t)]
    OBVIOUS
  <2>5. y.tasks = s.tasks /\ x = [y EXCEPT !.tasks[t].status = "Failed"]
    BY <1>5, <1>7, <1>9, <2>4 DEF Fail, WithStatus, Services
  <2>6. x = [y EXCEPT !.tasks = [s.tasks EXCEPT ![t] = task]]
    BY <2>1, <2>5
  <2>7. x = Completed(s, t, task)
    BY <1>4, <2>4, <2>6 DEF Completed
  <2> QED BY <2>3, <2>7, CompletedJobEnds
<1>10. CASE /\ result = "Sound"
            /\ x = WithStatus([d EXCEPT !.broker = Complete(@, t),
                                        !.tasks[t].verified = TRUE],
                              t, "Published")
  <2>1. PICK task : task = [s.tasks[t] EXCEPT !.verified = TRUE,
                                              !.status = "Published"]
    OBVIOUS
  <2>2. /\ task \in Task /\ task.key = s.tasks[t].key /\ task.verified
        /\ task.status = "Published"
    BY <1>2, <2>1 DEF Task, Ended
  <2>3. IsOutcome(s, t, task)
    BY <1>10, <2>2 DEF IsOutcome
  <2>4. PICK y : y = [d EXCEPT !.broker = Complete(s.broker, t),
                               !.tasks[t].verified = TRUE]
    OBVIOUS
  <2>5. /\ y = [d EXCEPT !.broker = Complete(s.broker, t),
                         !.tasks = [s.tasks EXCEPT ![t].verified = TRUE]]
        /\ y.tasks = [s.tasks EXCEPT ![t].verified = TRUE]
    BY <1>5, <1>7, <2>4 DEF Services
  <2>6. x = [y EXCEPT !.tasks[t].status = "Published"]
    BY <1>5, <1>10, <2>4 DEF WithStatus
  <2>7. x = [y EXCEPT !.tasks = [y.tasks EXCEPT ![t].status = "Published"]]
    BY <2>6
  <2>8. [y.tasks EXCEPT ![t].status = "Published"] = [s.tasks EXCEPT ![t] = task]
    <3>1. y.tasks[t] = [s.tasks[t] EXCEPT !.verified = TRUE]
      BY <1>2, <2>5
    <3>2. [y.tasks[t] EXCEPT !.status = "Published"] = task
      BY <2>1, <3>1
    <3>3. [y.tasks EXCEPT ![t].status = "Published"]
            = [y.tasks EXCEPT ![t] = [y.tasks[t] EXCEPT !.status = "Published"]]
      OBVIOUS
    <3>4. [y.tasks EXCEPT ![t] = task] = [s.tasks EXCEPT ![t] = task]
      BY <2>5
    <3> QED BY <3>2, <3>3, <3>4
  <2>9. x = Completed(s, t, task)
    BY <1>4, <1>7, <2>5, <2>7, <2>8 DEF Completed, Services
  <2> QED BY <2>3, <2>9, CompletedJobEnds
<1>11. IsRunning(s.broker, t) \in BOOLEAN
  BY DEF IsRunning
<1> QED BY <1>4, <1>8, <1>9, <1>10, <1>11 DEF AcceptPublished

\* Whatever is received of a worker.
LEMMA ReadingIsHandled ==
  ASSUME NEW p, NEW s, Consistent(s, NoJobs, p), NEW t \in DOMAIN s.workers,
         NEW fate \in Fates, NEW x \in Received(s, t, fate)
  PROVE  Handled(s, p, x)
<1>1. ASSUME NEW y, Consistent(y, NoJobs, p), t \in DOMAIN y.workers,
             x \in Errors(y, t, fate)
      PROVE  Handled(y, p, x)
  <2>1. PICK waited : x = ReceiveError(y, t, waited, fate)
    BY <1>1 DEF Errors
  <2> QED BY <1>1, <2>1, ErrorIsHandled
<1>2. CASE x \in Errors(s, t, fate)
  BY <1>1, <1>2
<1>3. CASE x \in Records(s, t)
  <2>1. CASE x \in {ReceiveCancelled(s, t), ReceiveFailed(s, t),
                    RefuseProgress(s, t)}
    BY <2>1, DroppingEnds
  <2>2. CASE s.workers[t].reports < MaximumReports /\ x = ReceiveProgress(s, t)
    BY <2>2, ProgressIsHandled
  <2> QED BY <1>3, <2>1, <2>2 DEF Records
<1>4. CASE s.workers[t].leased /\ x \in Errors(Unlocked(s, t), t, fate)
  <2>1. PICK y : y = Unlocked(s, t)
    OBVIOUS
  <2>2. Handled(s, p, y) /\ DOMAIN y.workers = DOMAIN s.workers
    BY <2>1, UnlockingIsHandled
  <2>3. Consistent(y, NoJobs, p)
    BY <2>2 DEF Handled
  <2>4. Handled(y, p, x)
    BY <1>1, <1>4, <2>1, <2>2, <2>3
  <2> QED BY <2>2, <2>4, HandledTransitively
<1>5. CASE s.workers[t].leased /\ x \in Errors(Stored(s, t, "Unclaimable"), t, fate)
  <2>1. PICK y : y = Stored(s, t, "Unclaimable")
    OBVIOUS
  <2>2. "Unclaimable" \in Results
    BY DEF Results
  <2>3. Handled(s, p, y) /\ DOMAIN y.workers = DOMAIN s.workers
    BY <1>5, <2>1, <2>2, StoringIsHandled
  <2>4. Consistent(y, NoJobs, p)
    BY <2>3 DEF Handled
  <2>5. Handled(y, p, x)
    BY <1>1, <1>5, <2>1, <2>3, <2>4
  <2> QED BY <2>3, <2>5, HandledTransitively
<1>6. ASSUME s.workers[t].leased, NEW result \in {"Sound", "Oversized", "Unfit"},
             x = AcceptPublished(Stored(s, t, result), t, result)
      PROVE  Handled(s, p, x)
  <2>1. PICK y : y = Stored(s, t, result)
    OBVIOUS
  <2>2. result \in Results
    BY DEF Results
  <2>3. /\ Handled(s, p, y) /\ DOMAIN y.workers = DOMAIN s.workers
        /\ KeyOf(y, t) \in DOMAIN y.store.results
        /\ y.store.results[KeyOf(y, t)] = result
    BY <1>6, <2>1, <2>2, StoringIsHandled
  <2>4. Consistent(y, NoJobs, p)
    BY <2>3 DEF Handled
  <2>5. Handled(y, p, x)
    BY <1>6, <2>1, <2>3, <2>4, AcceptanceIsHandled
  <2> QED BY <2>3, <2>5, HandledTransitively
<1>7. CASE s.workers[t].leased /\ x \in Completions(s, t, fate)
  <2>1. \/ x \in Errors(Unlocked(s, t), t, fate)
        \/ x \in Errors(Stored(s, t, "Unclaimable"), t, fate)
        \/ \E result \in {"Sound", "Oversized", "Unfit"} :
             x = AcceptPublished(Stored(s, t, result), t, result)
    <3>1. s \in Services
      BY DEF Consistent
    <3>2. s.workers[t].reports \in Nat /\ s.workers[t].cancelling \in BOOLEAN
      BY <3>1, EntriesAre, ServiceAssumption DEF Worker
    <3> QED BY <1>7, <3>2 DEF Completions
  <2> QED BY <1>4, <1>5, <1>6, <1>7, <2>1
<1> QED BY <1>2, <1>3, <1>7 DEF Received

-----------------------------------------------------------------------------
(* New tasks                                                               *)

\* A service with one more task, which has no job yet.
TaskAdded(s, task) == [s EXCEPT !.tasks = Append(@, task)]

\* allocate_id: the new task is the last, and no job has its number.
LEMMA TaskIsAdded ==
  ASSUME NEW p, NEW s, Consistent(s, NoJobs, p), NEW task \in Task,
         task.status \notin Settled, ~task.verified,
         NEW n, n = Len(s.tasks) + 1, NEW y, y = TaskAdded(s, task)
  PROVE  /\ Consistent(y, NoJobs, p) /\ KeepsTasks(s, y)
         /\ Len(y.tasks) = n /\ n \in DOMAIN y.tasks /\ y.tasks[n] = task
         /\ n \notin Queued(y.broker) \cup Charged(y.broker)
         /\ y.broker = s.broker
<1>1. /\ s \in Services /\ JobsAreTasks(s) /\ WorkersAreCharged(s)
      /\ LiveJobsAreUnsettled(s) /\ ChargesFit(s.broker)
      /\ LeavesReserves(s.broker, AtWork(s.broker), p)
      /\ SessionsAgree(s, {}) /\ LeasesAreExclusive(s)
      /\ \A u \in DOMAIN s.tasks : IsReceipted(s, u)
  BY DEF Consistent, NoJobs
<1>2. /\ y.tasks = Append(s.tasks, task) /\ y.broker = s.broker
      /\ y.workers = s.workers /\ y.store = s.store
      /\ y = [tasks |-> y.tasks, broker |-> s.broker, workers |-> s.workers,
              store |-> s.store]
  BY <1>1 DEF TaskAdded, Services
<1>3. /\ y.tasks \in Seq(Task) /\ Len(y.tasks) = n /\ n \in DOMAIN y.tasks
      /\ y.tasks[n] = task /\ DOMAIN y.tasks = DOMAIN s.tasks \cup {n}
      /\ n \notin DOMAIN s.tasks
      /\ \A u \in DOMAIN s.tasks : y.tasks[u] = s.tasks[u]
  BY <1>1, <1>2, ServiceParts
<1>4. y \in Services
  BY <1>1, <1>2, <1>3, ServiceParts DEF Services
<1>5. n \notin Queued(y.broker) \cup Charged(y.broker)
  BY <1>1, <1>2, <1>3 DEF JobsAreTasks
<1>6. \A u \in DOMAIN s.tasks : KeyOf(y, u) = KeyOf(s, u)
  BY <1>3 DEF KeyOf
<1>7. JobsAreTasks(y) /\ WorkersAreCharged(y)
  BY <1>1, <1>2, <1>3 DEF JobsAreTasks, WorkersAreCharged
<1>8. LiveJobsAreUnsettled(y)
  <2>1. \A u \in Queued(s.broker) \cup Charged(s.broker) :
          u \in DOMAIN s.tasks /\ s.tasks[u].status \notin Settled
    BY <1>1 DEF JobsAreTasks, LiveJobsAreUnsettled
  <2> QED BY <1>2, <1>3, <2>1 DEF LiveJobsAreUnsettled
<1>9. /\ ChargesFit(y.broker) /\ LeavesReserves(y.broker, AtWork(y.broker), p)
      /\ SessionsAgree(y, {})
  BY <1>1, <1>2 DEF SessionsAgree
<1>10. LeasesAreExclusive(y)
  <2>1. \A u \in DOMAIN s.workers : KeyOf(y, u) = KeyOf(s, u)
    BY <1>1, <1>6 DEF JobsAreTasks
  <2> QED BY <1>1, <1>2, <2>1 DEF LeasesAreExclusive
<1>11. ASSUME NEW u \in DOMAIN y.tasks PROVE IsReceipted(y, u)
  <2>1. CASE u = n
    <3>1. ~y.tasks[u].verified /\ y.tasks[u].status # "Published"
      BY <1>3, <2>1 DEF Settled
    <3> QED BY <3>1 DEF IsReceipted
  <2>2. CASE u \in DOMAIN s.tasks
    <3>1. y.tasks[u] = s.tasks[u] /\ KeyOf(y, u) = KeyOf(s, u) /\ IsReceipted(s, u)
      BY <1>1, <1>3, <1>6, <2>2
    <3> QED BY <1>2, <3>1 DEF IsReceipted
  <2> QED BY <1>3, <1>11, <2>1, <2>2
<1>12. ArePending(y, NoJobs) /\ DOMAIN NoJobs = {}
  BY DEF ArePending, NoJobs
<1>13. KeepsTasks(s, y)
  BY <1>3, <1>6 DEF KeepsTasks
<1> QED BY <1>2, <1>3, <1>4, <1>5, <1>7, <1>8, <1>9, <1>10, <1>11, <1>12, <1>13
  DEF Consistent

\* The ticket of a task that has no job joins the queue.
LEMMA SubmittedIsQueued ==
  ASSUME NEW p, NEW s, Consistent(s, NoJobs, p), NEW t \in DOMAIN s.tasks,
         t \notin Queued(s.broker) \cup Charged(s.broker),
         s.tasks[t].status \notin Settled, NEW memory \in Demands,
         NEW y, y = [s EXCEPT !.broker = Submit(@, t, memory)]
  PROVE  Consistent(y, NoJobs, p) /\ y.tasks = s.tasks
<1>1. /\ s \in Services /\ JobsAreTasks(s) /\ WorkersAreCharged(s)
      /\ LiveJobsAreUnsettled(s) /\ ChargesFit(s.broker)
      /\ LeavesReserves(s.broker, AtWork(s.broker), p)
      /\ SessionsAgree(s, {}) /\ LeasesAreExclusive(s)
      /\ \A u \in DOMAIN s.tasks : IsReceipted(s, u)
  BY DEF Consistent, NoJobs
<1>2. PICK queued : queued = Updated(s.broker.queued, [i \in {t} |-> memory])
  OBVIOUS
<1>3. queued \in Maps(Jobs, Demands) /\ DOMAIN queued = Queued(s.broker) \cup {t}
  <2>1. [i \in {t} |-> memory] \in [{t} -> Demands] /\ {t} \in SUBSET Jobs
    BY <1>1, EntriesAre
  <2>2. [i \in {t} |-> memory] \in Maps(Jobs, Demands)
    BY <2>1 DEF Maps
  <2>3. s.broker.queued \in Maps(Jobs, Demands)
    BY <1>1, ServiceParts
  <2>4. queued \in Maps(Jobs, Demands)
    BY <1>2, <2>2, <2>3, UpdatedIsMap
  <2> QED BY <1>2, <2>4 DEF Updated, Queued
<1>4. PICK b : b = Submit(s.broker, t, memory)
  OBVIOUS
<1>5. /\ b.queued = queued /\ b.active = s.broker.active
      /\ b.receipts = s.broker.receipts
      /\ b = [queued |-> queued, active |-> s.broker.active,
              receipts |-> s.broker.receipts]
  <2>1. s.broker \in Brokers
    BY <1>1, ServiceParts
  <2> QED BY <1>2, <1>4, <2>1 DEF Submit, Brokers
<1>6. b \in Brokers
  BY <1>1, <1>3, <1>5, ServiceParts DEF Brokers
<1>7. /\ y \in Services /\ y.broker = b
      /\ y.tasks = s.tasks /\ y.workers = s.workers /\ y.store = s.store
  BY <1>1, <1>4, <1>6, WithBrokerIs DEF Services
<1>8. /\ Queued(y.broker) = Queued(s.broker) \cup {t}
      /\ Charged(y.broker) = Charged(s.broker)
      /\ AtWork(y.broker) = AtWork(s.broker)
  BY <1>3, <1>5, <1>7 DEF Queued, Charged, AtWork
<1>9. JobsAreTasks(y) /\ WorkersAreCharged(y) /\ LiveJobsAreUnsettled(y)
  BY <1>1, <1>5, <1>7, <1>8
  DEF JobsAreTasks, WorkersAreCharged, LiveJobsAreUnsettled
<1>10. ChargesFit(y.broker) /\ LeavesReserves(y.broker, AtWork(y.broker), p)
  <2>1. IsFiniteSet(Charged(s.broker))
    BY <1>1, JobsAreFinite
  <2>2. /\ Charged(y.broker) \subseteq Charged(s.broker)
        /\ AtWork(y.broker) \subseteq AtWork(s.broker)
        /\ \A j \in Charged(y.broker) :
             y.broker.active[j].memory = s.broker.active[j].memory
    BY <1>5, <1>7, <1>8
  <2> QED BY <1>1, <2>1, <2>2, LighterBrokers
<1>11. SessionsAgree(y, {}) /\ LeasesAreExclusive(y)
  BY <1>1, <1>5, <1>7, <1>8 DEF SessionsAgree, LeasesAreExclusive, KeyOf
<1>12. \A u \in DOMAIN y.tasks : IsReceipted(y, u)
  BY <1>1, <1>5, <1>7, <1>8 DEF IsReceipted, KeyOf
<1>13. ArePending(y, NoJobs) /\ DOMAIN NoJobs = {}
  BY DEF ArePending, NoJobs
<1> QED BY <1>7, <1>9, <1>10, <1>11, <1>12, <1>13 DEF Consistent

\* A task without a job is restored from a valid result, or fails.
LEMMA RestoringIsHandled ==
  ASSUME NEW p, NEW s, Consistent(s, NoJobs, p), NEW t \in DOMAIN s.tasks,
         t \notin Queued(s.broker) \cup Charged(s.broker),
         s.tasks[t].status \notin Settled, NEW x, x = RestoreCached(s, t)
  PROVE  Handled(s, p, x)
<1>1. PICK status \in {"Restored", "Failed"} : x = WithStatus(s, t, status)
  BY DEF RestoreCached, Fail
<1>2. status \in Pending \cup Ended /\ status # "Published"
  BY DEF Ended
<1> QED BY <1>1, <1>2, StatusIsHandled

-----------------------------------------------------------------------------
(* The methods                                                             *)

\* The service becomes what a method leaves.
LEMMA BecomesIs ==
  ASSUME NEW x \in Services, Becomes(x)
  PROVE  Service' = x
  BY DEF Becomes, Service, Services

\* A step that keeps the invariant and every task.
Keeps == ServiceInvariant' /\ KeepsTasks(Service, Service')

\* A method that leaves the service at rest keeps both.
LEMMA MethodKeeps ==
  ASSUME ServiceInvariant, NEW q, pressure' = q, q \subseteq Foreground,
         NEW x, Handled(Service, q, x), Becomes(x),
         cursor' \in 0..MaximumRuns, UNCHANGED <<restarts, runs>>
  PROVE  Keeps
<1>1. Consistent(x, NoJobs, q) /\ KeepsTasks(Service, x)
      /\ Len(x.tasks) = Len(tasks)
  BY DEF Handled, Service
<1>2. x \in Services
  BY <1>1 DEF Consistent
<1>3. Service' = x
  BY <1>2, BecomesIs
<1>4. Len(tasks') = Len(tasks)
  BY <1>1 DEF Becomes
<1> QED BY <1>1, <1>3, <1>4 DEF Keeps, ServiceInvariant

\* run, run_inference and retry.
LEMMA RunKeeps ==
  ASSUME ServiceInvariant, NEW k \in Keys, Run(k)
  PROVE  Keeps
<1>1. PICK s : s = Service
  OBVIOUS
<1>2. Consistent(s, NoJobs, pressure) /\ s.tasks = tasks
  BY <1>1 DEF ServiceInvariant, Service
<1> DEFINE new(status) == [key |-> k, status |-> status, verified |-> FALSE]
<1>3. ASSUME NEW status \in {"Queued", "Failed"}
      PROVE  /\ Consistent(WithTask(k, status), NoJobs, pressure)
             /\ KeepsTasks(s, WithTask(k, status))
             /\ Len(WithTask(k, status).tasks) = NextTask
             /\ NextTask \in DOMAIN WithTask(k, status).tasks
             /\ WithTask(k, status).tasks[NextTask].status \notin Settled
             /\ NextTask \notin Queued(WithTask(k, status).broker)
                                  \cup Charged(WithTask(k, status).broker)
  <2>1. new(status) \in Task /\ new(status).status \notin Settled
        /\ ~new(status).verified
    BY DEF Task, Pending, Ended, Settled
  <2>2. PICK task : task = new(status)
    OBVIOUS
  <2>3. PICK y : y = TaskAdded(s, task)
    OBVIOUS
  <2>4. y = WithTask(k, status)
    BY <1>1, <2>2, <2>3 DEF WithTask, TaskAdded
  <2>5. PICK n : n = Len(s.tasks) + 1
    OBVIOUS
  <2>6. n = NextTask
    BY <1>2, <2>5 DEF NextTask
  <2>7. task \in Task /\ task.status \notin Settled /\ ~task.verified
    BY <2>1, <2>2
  <2>8. /\ Consistent(y, NoJobs, pressure) /\ KeepsTasks(s, y)
        /\ Len(y.tasks) = n /\ n \in DOMAIN y.tasks /\ y.tasks[n] = task
        /\ n \notin Queued(y.broker) \cup Charged(y.broker)
    BY <1>2, <2>3, <2>5, <2>7, TaskIsAdded
  <2> QED BY <2>4, <2>6, <2>7, <2>8
<1>4. ASSUME NEW status \in {"Queued", "Failed"}, NEW y, NEW x,
             y.tasks = WithTask(k, status).tasks,
             Handled(y, pressure, x), Becomes(x)
      PROVE  Keeps
  <2>1. Consistent(x, NoJobs, pressure) /\ KeepsTasks(y, x)
        /\ Len(x.tasks) = Len(y.tasks)
    BY <1>4 DEF Handled
  <2>2. KeepsTasks(s, y)
    BY <1>3, <1>4 DEF KeepsTasks, KeyOf
  <2>3. KeepsTasks(s, x)
    BY <2>1, <2>2, KeepsTransitively
  <2>4. x \in Services
    BY <2>1 DEF Consistent
  <2>5. Service' = x /\ tasks' = x.tasks
    BY <1>4, <2>4, BecomesIs DEF Becomes
  <2>6. Len(tasks') = NextTask
    BY <1>3, <1>4, <2>1, <2>5
  <2>7. Len(tasks') =< runs' /\ runs' \in 0..MaximumRuns
    <3>1. runs < MaximumRuns /\ runs' = runs + 1 /\ Len(tasks) =< runs
          /\ runs \in 0..MaximumRuns
      BY DEF Run, ServiceInvariant
    <3>2. Len(tasks) \in Nat
      BY <1>2, ServiceParts DEF Consistent
    <3> QED BY <2>6, <3>1, <3>2, ServiceAssumption DEF NextTask
  <2>8. UNCHANGED <<pressure, cursor, restarts>>
    BY DEF Run
  <2> QED BY <1>1, <2>1, <2>3, <2>5, <2>7, <2>8 DEF Keeps, ServiceInvariant
<1>5. CASE RunCached(k)
  <2>1. PICK y : y = WithTask(k, "Queued")
    OBVIOUS
  <2>2. PICK x : x = RestoreCached(y, NextTask)
    OBVIOUS
  <2>3. Becomes(x)
    BY <1>5, <2>1, <2>2 DEF RunCached
  <2>4. Handled(y, pressure, x)
    BY <1>3, <2>1, <2>2, RestoringIsHandled
  <2> QED BY <1>4, <2>1, <2>3, <2>4
<1>6. CASE RunRefused(k)
  <2>1. PICK x : x = WithTask(k, "Failed")
    OBVIOUS
  <2>2. Becomes(x)
    BY <1>6, <2>1 DEF RunRefused
  <2>3. Handled(x, pressure, x)
    BY <1>3, <2>1 DEF Handled, KeepsTasks
  <2> QED BY <1>4, <2>1, <2>2, <2>3
<1>7. CASE RunSubmitted(k)
  <2>1. PICK w : w = WithTask(k, "Queued")
    OBVIOUS
  <2>2. PICK y : y = [w EXCEPT !.broker = Submit(@, NextTask, MemoryOf[k])]
    OBVIOUS
  <2>3. MemoryOf[k] \in Demands
    BY <1>7, ServiceAssumption, CapacityAssumption
    DEF RunSubmitted, IsImpossible, Demands
  <2>4. Consistent(y, NoJobs, pressure) /\ y.tasks = w.tasks
    BY <1>3, <2>1, <2>2, <2>3, SubmittedIsQueued
  <2>5. PICK fate \in Fates : Becomes(ScheduleJobs(y, pressure, fate))
    BY <1>7, <2>1, <2>2 DEF RunSubmitted, FatesFor
  <2>6. PICK x : x = ScheduleJobs(y, pressure, fate)
    OBVIOUS
  <2>7. Handled(y, pressure, x)
    BY <2>4, <2>6, SchedulingIsHandled
  <2> QED BY <1>4, <2>1, <2>4, <2>5, <2>6, <2>7
<1> QED BY <1>5, <1>6, <1>7 DEF Run

\* What request_cancel leaves of the broker for a queued job.
Dequeued(b, t) == [b EXCEPT !.queued = Without(@, {t})]

\* A queued job is forgotten before it was admitted.
LEMMA DequeuingIsHandled ==
  ASSUME NEW p, NEW s, Consistent(s, NoJobs, p), NEW t \in Queued(s.broker),
         NEW c, c = Dequeued(s.broker, t),
         NEW x, x = [s EXCEPT !.broker = c]
  PROVE  /\ Handled(s, p, x) /\ x.tasks = s.tasks
         /\ t \notin Queued(x.broker) \cup Charged(x.broker)
<1>1. s \in Services /\ s.broker \in Brokers /\ JobsAreTasks(s)
  BY ServiceParts DEF Consistent
<1>2. PICK queued : queued = Without(s.broker.queued, {t})
  OBVIOUS
<1>3. queued \in Maps(Jobs, Demands) /\ DOMAIN queued = Queued(s.broker) \ {t}
  <2>1. s.broker.queued \in Maps(Jobs, Demands)
    BY <1>1, ServiceParts
  <2>2. queued \in Maps(Jobs, Demands)
    BY <1>2, <2>1, WithoutIsMap
  <2> QED BY <1>2, <2>2 DEF Without, Restrict, Queued
<1>4. /\ c.queued = queued /\ c.active = s.broker.active
      /\ c.receipts = s.broker.receipts
      /\ c = [queued |-> queued, active |-> s.broker.active,
              receipts |-> s.broker.receipts]
  BY <1>1, <1>2 DEF Dequeued, Brokers
<1>5. c \in Brokers
  BY <1>1, <1>3, <1>4, ServiceParts DEF Brokers
<1>6. SameJobs(s.broker, c) /\ t \notin Queued(c) \cup Charged(c)
  BY <1>1, <1>3, <1>4 DEF SameJobs, Queued, Charged, JobsAreTasks
<1>7. Handled(s, p, x) /\ x.tasks = s.tasks
  BY <1>5, <1>6, SameJobsAreHandled
<1>8. x.broker = c
  BY <1>1 DEF Services
<1> QED BY <1>6, <1>7, <1>8

\* Cancelling a task that is queued, at work, or being cancelled already.
LEMMA CancelKeeps ==
  ASSUME ServiceInvariant, NEW t \in DOMAIN tasks, Cancel(t)
  PROVE  Keeps
<1>1. PICK s : s = Service
  OBVIOUS
<1>2. /\ Consistent(s, NoJobs, pressure) /\ s \in Services
      /\ s.tasks = tasks /\ s.broker = broker
  BY <1>1 DEF ServiceInvariant, Service, Consistent
<1>3. PICK d : d = RequestCancel(s.broker, t, "User")
  OBVIOUS
<1>4. PICK y : y = [s EXCEPT !.broker = d.broker]
  OBVIOUS
<1>5. PICK w : w = WithStatus(y, t, "Cancelled")
  OBVIOUS
<1>6. t \in Queued(s.broker) \cup Charged(s.broker)
  BY <1>2 DEF Cancel
<1>7. PICK fate \in Fates :
        IF d.actions = NoJobs THEN Becomes(ScheduleJobs(w, pressure, fate))
                              ELSE Becomes(Apply(s, d, fate))
  BY <1>1, <1>2, <1>3, <1>4, <1>5 DEF Cancel, FatesFor
<1>8. t \in DOMAIN s.tasks /\ s.tasks[t].status \notin Settled
  BY <1>2, <1>6 DEF Consistent, LiveJobsAreUnsettled
<1>9. /\ y.tasks = s.tasks
      /\ Consistent(y, d.actions, pressure)
      /\ d.actions # NoJobs => t \in Charged(s.broker)
  <2>1. CASE t \in Queued(s.broker)
    <3>1. PICK c : c = Dequeued(s.broker, t)
      OBVIOUS
    <3>2. d.actions = NoJobs /\ d.broker = c
      BY <1>3, <2>1, <3>1 DEF RequestCancel, Dequeued
    <3>3. y = [s EXCEPT !.broker = c] /\ Consistent(s, NoJobs, pressure)
      BY <1>2, <1>4, <3>2
    <3>4. Handled(s, pressure, y) /\ y.tasks = s.tasks
      BY <2>1, <3>1, <3>3, DequeuingIsHandled
    <3> QED BY <3>2, <3>4 DEF Handled
  <2>2. CASE t \in Charged(s.broker)
    <3>1. "User" \in Reasons
      BY DEF Reasons
    <3>2. Consistent(y, d.actions, pressure)
      BY <1>2, <1>3, <1>4, <2>2, <3>1, CancelIsPending
    <3>3. y.tasks = s.tasks
      BY <1>2, <1>4 DEF Services
    <3> QED BY <2>2, <3>2, <3>3
  <2> QED BY <1>6, <2>1, <2>2
<1>10. \E x : Handled(s, pressure, x) /\ Becomes(x)
  <2>1. CASE d.actions # NoJobs
    <3>1. PICK x : x = Apply(s, d, fate)
      OBVIOUS
    <3>2. Handled(s, pressure, x)
      BY <1>2, <1>4, <1>9, <3>1, ApplyIsHandled
    <3> QED BY <1>7, <2>1, <3>1, <3>2
  <2>2. CASE d.actions = NoJobs
    <3>1. Consistent(y, NoJobs, pressure)
      BY <1>9, <2>2
    <3>2. Handled(s, pressure, y)
      BY <1>9, <3>1 DEF Handled, KeepsTasks, KeyOf
    <3>3. "Cancelled" \in Pending \cup Ended /\ "Cancelled" \notin Settled
      BY DEF Ended, Settled
    <3>4. t \in DOMAIN y.tasks /\ y.tasks[t].status \notin Settled
      BY <1>8, <1>9
    <3>5. Handled(y, pressure, w)
      BY <1>5, <3>1, <3>3, <3>4, StatusIsHandled
    <3>6. Consistent(w, NoJobs, pressure)
      BY <3>5 DEF Handled
    <3>7. PICK x : x = ScheduleJobs(w, pressure, fate)
      OBVIOUS
    <3>8. Handled(w, pressure, x)
      BY <3>6, <3>7, SchedulingIsHandled
    <3>9. Handled(s, pressure, w)
      BY <3>2, <3>5, HandledTransitively
    <3>10. Handled(s, pressure, x)
      BY <3>8, <3>9, HandledTransitively
    <3> QED BY <1>7, <2>2, <3>7, <3>10
  <2> QED BY <2>1, <2>2
<1>11. /\ UNCHANGED <<pressure, cursor, restarts, runs>>
       /\ pressure \subseteq Foreground /\ cursor \in 0..MaximumRuns
  BY DEF Cancel, ServiceInvariant
<1> QED BY <1>1, <1>10, <1>11, MethodKeeps

\* set_foreground_pressure: protection comes before scheduling.
LEMMA PressureKeeps ==
  ASSUME ServiceInvariant, NEW q \in Pressures, SetForegroundPressure(q)
  PROVE  Keeps
<1>1. PICK s : s = Service
  OBVIOUS
<1>2. /\ Consistent(s, NoJobs, pressure) /\ s \in Services /\ s.broker = broker
  BY <1>1 DEF ServiceInvariant, Service, Consistent
<1>3. PICK d : d = ProtectForeground(s.broker, q)
  OBVIOUS
<1>4. PICK fate \in Fates :
        Becomes(ScheduleJobs(Apply(s, d, fate), q, fate))
  BY <1>1, <1>2, <1>3 DEF SetForegroundPressure, FatesFor
<1>5. PICK y : y = [s EXCEPT !.broker = d.broker]
  OBVIOUS
<1>6. PICK w : w = Apply(s, d, fate)
  OBVIOUS
<1>7. PICK x : x = ScheduleJobs(w, q, fate)
  OBVIOUS
<1>8. Consistent(y, d.actions, q)
  BY <1>2, <1>3, <1>5, ProtectionIsPending
<1>9. Handled(s, q, w)
  BY <1>2, <1>5, <1>6, <1>8, ApplyIsHandled
<1>10. Consistent(w, NoJobs, q)
  BY <1>9 DEF Handled
<1>11. Handled(w, q, x)
  BY <1>7, <1>10, SchedulingIsHandled
<1>12. Handled(s, q, x) /\ Becomes(x)
  BY <1>4, <1>6, <1>7, <1>9, <1>11, HandledTransitively
<1>13. /\ pressure' = q /\ q \subseteq Foreground
       /\ UNCHANGED <<cursor, restarts, runs>> /\ cursor \in 0..MaximumRuns
  BY ServiceAssumption DEF SetForegroundPressure, ServiceInvariant
<1> QED BY <1>1, <1>12, <1>13, MethodKeeps

\* The worker that is polled is one the service holds.
LEMMA PolledIsHeld ==
  ASSUME NEW p, NEW s, Consistent(s, NoJobs, p), NEW t, t = NextPolled(s)
  PROVE  t = 0 \/ t \in DOMAIN s.workers
<1> DEFINE held == DOMAIN s.workers
           after == {u \in held : u > cursor}
<1>1. held \subseteq Nat /\ IsFiniteSet(held)
  <2>1. s \in Services /\ JobsAreTasks(s)
    BY DEF Consistent
  <2> QED BY <2>1, EntriesAre, JobsAreFinite DEF JobsAreTasks, Jobs
<1>2. after \subseteq held
  OBVIOUS
<1>3. t = IF held = {} THEN 0 ELSE IF after # {} THEN Min(after) ELSE Min(held)
  BY DEF NextPolled
<1> HIDE DEF held, after
<1>4. IsFiniteSet(after) /\ after \subseteq Nat
  BY <1>1, <1>2, FS_Subset
<1>5. after # {} => Min(after) \in held
  BY <1>2, <1>4, MaxAndMin
<1>6. held # {} => Min(held) \in held
  BY <1>1, MaxAndMin
<1> QED BY <1>3, <1>5, <1>6 DEF held

\* poll: deadlines, scheduling, one worker, and scheduling again.
LEMMA PollKeeps ==
  ASSUME ServiceInvariant, Poll
  PROVE  Keeps
<1>1. PICK s : s = Service
  OBVIOUS
<1>2. /\ Consistent(s, NoJobs, pressure) /\ s \in Services /\ s.broker = broker
      /\ s.tasks = tasks
  BY <1>1 DEF ServiceInvariant, Service, Consistent
<1>3. PICK d : d = Tick(s.broker)
  OBVIOUS
<1>4. PICK fate \in Fates :
        \E y \in {ScheduleJobs(Apply(s, d, fate), pressure, fate)} :
          /\ cursor' = NextPolled(y)
          /\ \/ NextPolled(y) = 0 /\ Becomes(y)
             \/ \E t \in {NextPolled(y)} \ {0} :
                  \E read \in Received(y, t, fate) :
                    Becomes(ScheduleJobs(read, pressure, fate))
          /\ UNCHANGED <<pressure, restarts, runs>>
  BY <1>1, <1>2, <1>3 DEF Poll, FatesFor
<1>5. PICK y :
        /\ y = ScheduleJobs(Apply(s, d, fate), pressure, fate)
        /\ cursor' = NextPolled(y)
        /\ \/ NextPolled(y) = 0 /\ Becomes(y)
           \/ \E t \in {NextPolled(y)} \ {0} :
                \E read \in Received(y, t, fate) :
                  Becomes(ScheduleJobs(read, pressure, fate))
        /\ UNCHANGED <<pressure, restarts, runs>>
  BY <1>4
<1>6. PICK z : z = [s EXCEPT !.broker = d.broker]
  OBVIOUS
<1>7. PICK w : w = Apply(s, d, fate)
  OBVIOUS
<1>8. Consistent(z, d.actions, pressure)
  BY <1>2, <1>3, <1>6, TickIsPending
<1>9. Handled(s, pressure, w)
  BY <1>2, <1>6, <1>7, <1>8, ApplyIsHandled
<1>10. Consistent(w, NoJobs, pressure)
  BY <1>9 DEF Handled
<1>11. y = ScheduleJobs(w, pressure, fate)
  BY <1>5, <1>7
<1>12. Handled(w, pressure, y)
  BY <1>10, <1>11, SchedulingIsHandled
<1>13. Handled(s, pressure, y)
  BY <1>9, <1>12, HandledTransitively
<1>14. Consistent(y, NoJobs, pressure) /\ Len(y.tasks) = Len(tasks)
  BY <1>2, <1>13 DEF Handled
<1>15. NextPolled(y) = 0 \/ NextPolled(y) \in DOMAIN y.workers
  BY <1>14, PolledIsHeld
<1>16. cursor' \in 0..MaximumRuns
  <2>1. DOMAIN y.workers \subseteq 1..Len(tasks)
    <3>1. y \in Services /\ JobsAreTasks(y)
      BY <1>14 DEF Consistent
    <3> QED BY <1>14, <3>1, ServiceParts DEF JobsAreTasks
  <2>2. Len(tasks) =< runs /\ runs \in 0..MaximumRuns /\ Len(tasks) \in Nat
    BY <1>2, ServiceParts DEF ServiceInvariant
  <2> QED BY <1>5, <1>15, <2>1, <2>2, ServiceAssumption
<1>17. \E x : Handled(s, pressure, x) /\ Becomes(x)
  <2>1. CASE Becomes(y)
    BY <1>13, <2>1
  <2>2. ASSUME NEW t \in {NextPolled(y)} \ {0}, NEW read \in Received(y, t, fate),
               Becomes(ScheduleJobs(read, pressure, fate))
        PROVE  \E x : Handled(s, pressure, x) /\ Becomes(x)
    <3>1. t \in DOMAIN y.workers
      BY <1>15, <2>2
    <3>2. Handled(y, pressure, read)
      BY <1>14, <2>2, <3>1, ReadingIsHandled
    <3>3. Consistent(read, NoJobs, pressure)
      BY <3>2 DEF Handled
    <3>4. PICK x : x = ScheduleJobs(read, pressure, fate)
      OBVIOUS
    <3>5. Handled(read, pressure, x)
      BY <3>3, <3>4, SchedulingIsHandled
    <3>6. Handled(s, pressure, read)
      BY <1>13, <3>2, HandledTransitively
    <3>7. Handled(s, pressure, x)
      BY <3>5, <3>6, HandledTransitively
    <3> QED BY <2>2, <3>4, <3>7
  <2> QED BY <1>5, <2>1, <2>2
<1>18. UNCHANGED <<pressure, restarts, runs>> /\ pressure \subseteq Foreground
  BY <1>5 DEF ServiceInvariant
<1> QED BY <1>1, <1>16, <1>17, <1>18, MethodKeeps

\* terminate_active: every worker is killed.
LEMMA TerminationKeeps ==
  ASSUME ServiceInvariant, TerminateActive
  PROVE  Keeps
<1>1. PICK s : s = Service
  OBVIOUS
<1>2. /\ Consistent(s, NoJobs, pressure) /\ s \in Services
      /\ s.broker = broker /\ s.workers = workers
  BY <1>1 DEF ServiceInvariant, Service, Consistent
<1>3. PICK d : d = [broker  |-> broker,
                    actions |-> [t \in DOMAIN workers |-> Kill(t, "User")]]
  OBVIOUS
<1>4. PICK fate \in Fates : Becomes(Apply(s, d, fate))
  BY <1>1, <1>3 DEF TerminateActive, FatesFor
<1>5. PICK x : x = Apply(s, d, fate)
  OBVIOUS
<1>6. s = [s EXCEPT !.broker = d.broker]
  BY <1>2, <1>3 DEF Services
<1>7. Consistent(s, d.actions, pressure)
  <2>1. DOMAIN d.actions = DOMAIN s.workers
        /\ \A t \in DOMAIN s.workers : d.actions[t] = Kill(t, "User")
    BY <1>2, <1>3
  <2>2. ArePending(s, d.actions)
    <3>1. "User" \in Reasons \cup {"None"}
      BY DEF Reasons
    <3>2. DOMAIN s.workers \subseteq Charged(s.broker)
      BY <1>2 DEF Consistent, WorkersAreCharged
    <3> QED BY <2>1, <3>1, <3>2 DEF ArePending, IsPending
  <2>3. SessionsAgree(s, DOMAIN d.actions)
    BY <1>2 DEF Consistent, SessionsAgree, NoJobs
  <2> QED BY <1>2, <2>2, <2>3 DEF Consistent
<1>8. Handled(s, pressure, x)
  BY <1>2, <1>5, <1>6, <1>7, ApplyIsHandled
<1>9. /\ UNCHANGED <<pressure, cursor, restarts, runs>>
      /\ pressure \subseteq Foreground /\ cursor \in 0..MaximumRuns
  BY DEF TerminateActive, ServiceInvariant
<1> QED BY <1>1, <1>4, <1>5, <1>8, <1>9, MethodKeeps

\* A deadline passes between two calls.
LEMMA DeadlineKeeps ==
  ASSUME ServiceInvariant, NEW t, DeadlinePasses(t)
  PROVE  Keeps
<1>1. PICK s : s = Service
  OBVIOUS
<1>2. /\ Consistent(s, NoJobs, pressure) /\ s \in Services
      /\ s.broker = broker
  BY <1>1 DEF ServiceInvariant, Service, Consistent
<1>3. s.broker \in Brokers /\ t \in Charged(s.broker)
  BY <1>2, ServiceParts DEF DeadlinePasses
<1> DEFINE now == [s.broker.active EXCEPT ![t].late = TRUE]
<1>4. s.broker.active \in [Charged(s.broker) -> ActiveJob]
  BY <1>2, ServiceParts, MapsAre DEF Charged
<1>5. now \in [Charged(s.broker) -> ActiveJob]
      /\ \A j \in Charged(s.broker) : /\ now[j].memory = s.broker.active[j].memory
                                      /\ now[j].state = s.broker.active[j].state
  <2>1. /\ [s.broker.active[t] EXCEPT !.late = TRUE] \in ActiveJob
        /\ [s.broker.active[t] EXCEPT !.late = TRUE].memory
             = s.broker.active[t].memory
        /\ [s.broker.active[t] EXCEPT !.late = TRUE].state
             = s.broker.active[t].state
    BY <1>3, <1>4 DEF ActiveJob
  <2> QED BY <1>3, <1>4, <2>1
<1>6. PICK c : c = [s.broker EXCEPT !.active = now]
  OBVIOUS
<1>7. broker' = c
  BY <1>2, <1>3, <1>6 DEF DeadlinePasses, Brokers
<1> HIDE DEF now
<1>8. c \in Brokers /\ SameJobs(s.broker, c)
  BY <1>3, <1>5, <1>6, RetimedBroker
<1>9. PICK x : x = [s EXCEPT !.broker = c]
  OBVIOUS
<1>10. Handled(s, pressure, x)
  BY <1>2, <1>8, <1>9, SameJobsAreHandled
<1>11. /\ UNCHANGED <<tasks, workers, store, pressure, cursor, restarts, runs>>
       /\ pressure \subseteq Foreground /\ cursor \in 0..MaximumRuns
  BY DEF DeadlinePasses, ServiceInvariant
<1>12. Becomes(x)
  BY <1>1, <1>7, <1>9, <1>11 DEF Becomes, Service
<1> QED BY <1>1, <1>10, <1>11, <1>12, MethodKeeps

-----------------------------------------------------------------------------
(* The invariant holds                                                     *)

\* A service that opens a store, whatever an earlier one left in it.
LEMMA FreshIsConsistent ==
  ASSUME NEW p, NEW disk \in Stores,
         NEW s, s = [tasks |-> <<>>, broker |-> NewBroker, workers |-> NoJobs,
                     store |-> disk]
  PROVE  Consistent(s, NoJobs, p)
<1>1. /\ s.tasks = <<>> /\ s.broker = NewBroker /\ s.workers = NoJobs
      /\ s.store = disk
      /\ s.broker = [queued |-> NoJobs, active |-> NoJobs, receipts |-> {}]
      /\ DOMAIN NoJobs = {} /\ DOMAIN s.tasks = {}
  BY DEF NewBroker, NoJobs
<1>2. /\ NoJobs \in Maps(Jobs, Demands) /\ NoJobs \in Maps(Jobs, ActiveJob)
      /\ NoJobs \in Maps(Jobs, Worker)
  <2>1. {} \in SUBSET Jobs /\ NoJobs \in [{} -> Demands]
        /\ NoJobs \in [{} -> ActiveJob] /\ NoJobs \in [{} -> Worker]
    BY DEF NoJobs
  <2> QED BY <2>1 DEF Maps
<1>3. s \in Services
  <2>1. s.broker \in Brokers
    BY <1>1, <1>2 DEF Brokers
  <2>2. s.tasks \in Seq(Task)
    BY <1>1
  <2> QED BY <1>1, <1>2, <2>1, <2>2 DEF Services
<1>4. Queued(s.broker) = {} /\ Charged(s.broker) = {} /\ AtWork(s.broker) = {}
      /\ s.broker.receipts = {} /\ DOMAIN s.workers = {}
  BY <1>1 DEF Queued, Charged, AtWork
<1>5. /\ JobsAreTasks(s) /\ WorkersAreCharged(s) /\ LiveJobsAreUnsettled(s)
      /\ SessionsAgree(s, {}) /\ LeasesAreExclusive(s)
      /\ \A t \in DOMAIN s.tasks : IsReceipted(s, t)
      /\ ArePending(s, NoJobs)
  BY <1>1, <1>4 DEF JobsAreTasks, WorkersAreCharged, LiveJobsAreUnsettled,
                    SessionsAgree, LeasesAreExclusive, ArePending
<1>6. LeavesReserves(s.broker, AtWork(s.broker), p)
  BY <1>4, NoJobLeavesReserves
<1>7. ChargesFit(s.broker)
  <2>1. {held \in {} \X Demands : held[2] =< Demand(s.broker, held[1])} = {}
    OBVIOUS
  <2>2. MemoryInUse(s.broker, {}) = 0 /\ Cardinality({}) = 0
    BY <2>1, FS_EmptySet DEF MemoryInUse
  <2>3. 0 =< WorkerSlots /\ 0 =< CpuSlots /\ 0 =< MemoryUnits
    BY CapacityAssumption
  <2> QED BY <1>4, <2>2, <2>3 DEF ChargesFit, FitsTheMachine, CpuInUse
<1> QED BY <1>1, <1>3, <1>5, <1>6, <1>7 DEF Consistent

\* The first service opens an empty store.
LEMMA ServiceStarts == Init => ServiceInvariant
<1> SUFFICES ASSUME Init PROVE ServiceInvariant
  OBVIOUS
<1>1. store \in Stores
  <2>1. NoJobs \in [{} -> Results] /\ {} \in SUBSET Keys
    BY DEF NoJobs
  <2>2. NoJobs \in Maps(Keys, Results)
    BY <2>1 DEF Maps
  <2> QED BY <2>2 DEF Init, Stores
<1>2. Service = [tasks |-> <<>>, broker |-> NewBroker, workers |-> NoJobs,
                 store |-> store]
  BY DEF Init, Service
<1>3. Consistent(Service, NoJobs, pressure)
  BY <1>1, <1>2, FreshIsConsistent
<1> QED BY <1>3, ServiceAssumption DEF Init, ServiceInvariant

\* The service is closed or the program dies, and another opens the store.
LEMMA RestartKeeps ==
  ASSUME ServiceInvariant, NEW ending \in Endings, Restart(ending)
  PROVE  ServiceInvariant' /\ restarts' # restarts
<1>1. store \in Stores
  BY ServiceParts DEF ServiceInvariant, Consistent, Service
<1>2. store' \in Stores
  BY <1>1 DEF Restart, Stores
<1>3. Service' = [tasks |-> <<>>, broker |-> NewBroker, workers |-> NoJobs,
                  store |-> store']
  BY DEF Restart, Service
<1>4. Consistent(Service', NoJobs, pressure')
  BY <1>2, <1>3, FreshIsConsistent
<1>5. /\ pressure' \subseteq Foreground /\ cursor' \in 0..MaximumRuns
      /\ Len(tasks') =< runs' /\ runs' \in 0..MaximumRuns
      /\ restarts' \in 0..MaximumRestarts /\ restarts' # restarts
  BY ServiceAssumption DEF Restart, ServiceInvariant
<1> QED BY <1>4, <1>5 DEF ServiceInvariant

\* Every step keeps the invariant, and within one service every task.
LEMMA ServiceStep ==
  ASSUME ServiceInvariant, [Next]_vars
  PROVE  /\ ServiceInvariant'
         /\ restarts' = restarts => KeepsTasks(Service, Service')
<1>1. ASSUME Keeps PROVE ServiceInvariant' /\ KeepsTasks(Service, Service')
  BY <1>1 DEF Keeps
<1>2. CASE UNCHANGED vars
  <2>1. Service' = Service
    BY <1>2 DEF vars, Service
  <2>2. ServiceInvariant'
    BY <1>2, <2>1 DEF vars, ServiceInvariant
  <2> QED BY <2>1, <2>2 DEF KeepsTasks
<1>3. ASSUME NEW k \in Keys, Run(k) PROVE Keeps
  BY <1>3, RunKeeps
<1>4. ASSUME NEW t \in DOMAIN tasks, Cancel(t) PROVE Keeps
  BY <1>4, CancelKeeps
<1>5. ASSUME NEW q \in Pressures, SetForegroundPressure(q) PROVE Keeps
  BY <1>5, PressureKeeps
<1>6. CASE Poll
  BY <1>1, <1>6, PollKeeps
<1>7. CASE TerminateActive
  BY <1>1, <1>7, TerminationKeeps
<1>8. ASSUME NEW t \in DOMAIN tasks, DeadlinePasses(t) PROVE Keeps
  BY <1>8, DeadlineKeeps
<1>9. ASSUME NEW ending \in Endings, Restart(ending)
      PROVE  ServiceInvariant' /\ restarts' # restarts
  BY <1>9, RestartKeeps
<1> QED BY <1>1, <1>2, <1>3, <1>4, <1>5, <1>6, <1>7, <1>8, <1>9 DEF Next

\* The inductive invariant of the worker service: between two calls nothing is
\* pending, broker, workers, store and tasks agree, and all of it fits.
THEOREM ServiceIsConsistent == Spec => []ServiceInvariant
<1>1. Init => ServiceInvariant
  BY ServiceStarts
<1>2. ServiceInvariant /\ [Next]_vars => ServiceInvariant'
  BY ServiceStep
<1> QED BY <1>1, <1>2, PTL DEF Spec

\* What the invariant says of the variables.
LEMMA InvariantParts ==
  ASSUME ServiceInvariant
  PROVE  /\ Service \in Services /\ JobsAreTasks(Service)
         /\ WorkersAreCharged(Service) /\ LiveJobsAreUnsettled(Service)
         /\ ChargesFit(broker) /\ LeavesReserves(broker, AtWork(broker), pressure)
         /\ SessionsAgree(Service, {}) /\ LeasesAreExclusive(Service)
         /\ \A t \in DOMAIN tasks : IsReceipted(Service, t)
         /\ Service.tasks = tasks /\ Service.broker = broker
         /\ Service.workers = workers /\ Service.store = store
<1>1. /\ Service.tasks = tasks /\ Service.broker = broker
      /\ Service.workers = workers /\ Service.store = store
  BY DEF Service
<1>2. Consistent(Service, NoJobs, pressure) /\ DOMAIN NoJobs = {}
  BY DEF ServiceInvariant, NoJobs
<1> QED BY <1>1, <1>2 DEF Consistent

\* The tables of the service, the broker and the store keep their types, and
\* every job is one of a task (allocate_id, submit, schedule).
THEOREM ServiceTypes == Spec => []TypeOK
<1>1. ServiceInvariant => TypeOK
  <2> SUFFICES ASSUME ServiceInvariant PROVE TypeOK
    OBVIOUS
  <2>1. /\ Service \in Services /\ JobsAreTasks(Service)
        /\ Service.tasks = tasks /\ Service.broker = broker
        /\ Service.workers = workers /\ Service.store = store
    BY InvariantParts
  <2>2. /\ tasks \in Seq(Task)
        /\ broker.queued \in Maps(Jobs, Demands)
        /\ broker.active \in Maps(Jobs, ActiveJob)
        /\ workers \in Maps(Jobs, Worker)
        /\ store.results \in Maps(Keys, Results) /\ store.locks \in SUBSET Keys
    BY <2>1, ServiceParts
  <2>3. /\ broker.queued \in [Queued(broker) -> Demands]
        /\ broker.active \in [Charged(broker) -> ActiveJob]
        /\ workers \in [DOMAIN workers -> Worker]
        /\ store.results \in [DOMAIN store.results -> Results]
        /\ DOMAIN store.results \subseteq Keys
    BY <2>2, MapsAre DEF Queued, Charged
  <2>4. /\ Queued(broker) \cup Charged(broker) \cup broker.receipts
             \cup DOMAIN workers \subseteq DOMAIN tasks
        /\ Queued(broker) \cap Charged(broker) = {}
    BY <2>1 DEF JobsAreTasks
  <2> QED BY <2>2, <2>3, <2>4 DEF TypeOK, ServiceInvariant
<1> QED BY <1>1, ServiceIsConsistent, PTL

\* On every machine: each worker process is paid for in the broker, and all
\* that is charged fits (resource_usage, fits, acknowledge_terminal).
THEOREM WorkersAlwaysFit == Spec => []WorkersFitTheMachine
<1>1. ServiceInvariant => WorkersFitTheMachine
  BY InvariantParts
  DEF WorkersFitTheMachine, WorkersAreCharged, ChargesFit, FitsTheMachine
<1> QED BY <1>1, ServiceIsConsistent, PTL

\* For any reserves and any sequence of foreground pressures: jobs that were
\* not asked to stop leave the reserves free (protect_foreground, schedule).
THEOREM WorkAlwaysRespectsReserves == Spec => []WorkRespectsReserves
<1>1. ServiceInvariant => WorkRespectsReserves
  BY InvariantParts DEF WorkRespectsReserves, LeavesReserves
<1> QED BY <1>1, ServiceIsConsistent, PTL

\* Broker, service and session always agree about who was asked to stop
\* (apply_broker_action, kill_identity).
THEOREM CancellationsAlwaysReachTheWorker == Spec => []CancellationsReachTheWorker
<1>1. ServiceInvariant => CancellationsReachTheWorker
  <2> SUFFICES ASSUME ServiceInvariant PROVE CancellationsReachTheWorker
    OBVIOUS
  <2>1. /\ SessionsAgree(Service, {}) /\ WorkersAreCharged(Service)
        /\ Service.broker = broker /\ Service.workers = workers
    BY InvariantParts
  <2> QED BY <2>1 DEF CancellationsReachTheWorker, SessionsAgree, WorkersAreCharged
<1> QED BY <1>1, ServiceIsConsistent, PTL

\* For any number of tasks and services over one store: one worker per cache
\* key, and each holds its lock (ModelStore::acquire, CacheLease).
THEOREM OneWorkerAlwaysPerKey == Spec => []OneWorkerPerKey
<1>1. ServiceInvariant => OneWorkerPerKey
  <2> SUFFICES ASSUME ServiceInvariant PROVE OneWorkerPerKey
    OBVIOUS
  <2>1. /\ LeasesAreExclusive(Service)
        /\ Service.workers = workers /\ Service.store = store
    BY InvariantParts
  <2> QED BY <2>1 DEF OneWorkerPerKey, LeasesAreExclusive
<1> QED BY <1>1, ServiceIsConsistent, PTL

\* A verified completion always has its receipt and its sound result in the
\* store (accept_published, verified_completion).
THEOREM CompletionsAreAlwaysReceipted == Spec => []CompletionsAreReceipted
<1>1. ServiceInvariant => CompletionsAreReceipted
  <2> SUFFICES ASSUME ServiceInvariant PROVE CompletionsAreReceipted
    OBVIOUS
  <2>1. /\ \A t \in DOMAIN tasks : IsReceipted(Service, t)
        /\ Service.tasks = tasks /\ Service.broker = broker /\ Service.store = store
    BY InvariantParts
  <2> QED BY <2>1 DEF CompletionsAreReceipted, IsReceipted
<1> QED BY <1>1, ServiceIsConsistent, PTL

\* No deadline, cancellation or foreground pressure takes back what was
\* published or restored (set_status, fail).
THEOREM PublishedStaysFinal == Spec => PublishedIsFinal
<1> DEFINE Final == restarts' = restarts =>
              \A t \in DOMAIN tasks :
                tasks[t].status \in {"Published", "Restored"} => tasks'[t] = tasks[t]
<1>1. ServiceInvariant /\ [Next]_vars => [Final]_vars
  <2> SUFFICES ASSUME ServiceInvariant, [Next]_vars PROVE Final
    OBVIOUS
  <2>1. restarts' = restarts => KeepsTasks(Service, Service')
    BY ServiceStep
  <2>2. Service.tasks = tasks /\ Service'.tasks = tasks'
    BY DEF Service
  <2> QED BY <2>1, <2>2 DEF KeepsTasks, Settled
<1> QED BY <1>1, ServiceIsConsistent, PTL DEF PublishedIsFinal, Spec

=============================================================================
