---------------------------- MODULE WorkerBroker ----------------------------
(***************************************************************************)
(* The value held by one `WorkerBroker` (src/worker_broker.rs) and the     *)
(* effect of its methods.  The broker decides which analysis jobs may have *)
(* a worker process, when a job must yield to playback or to a deadline,   *)
(* and whether a completion counts; it starts and kills nothing itself but *)
(* returns actions its owner carries out (ModelTaskService).               *)
(*                                                                         *)
(* Data abstraction.  A JobIdentity is the number of the model task it was *)
(* made for: the service submits generation 1 of "model-task-<id>" only.   *)
(* Jobs are compared as numbers; the code's maps compare the names as      *)
(* text, which orders jobs differently from the tenth task on.             *)
(* Every ticket of the service demands one cpu slot and the user-initiated *)
(* priority, so the aged score of `schedule` orders the queue by sequence. *)
(* Scratch space and accelerators, checked the way memory is but without a *)
(* reserve, are left out.  Memory comes in units.  Time is one flag per    *)
(* active job: `late` says that the deadline of its present state will     *)
(* have passed at the next tick, and `admitted` ranks the jobs by          *)
(* admission time.                                                         *)
(*                                                                         *)
(* The actions one call returns are about different jobs, so they are kept *)
(* as a map from the job to its action.                                    *)
(***************************************************************************)
EXTENDS Integers, Sequences, FiniteSetsExt

CONSTANTS
  CpuSlots,       \* capacity.cpu_slots
  MemoryUnits,    \* capacity.memory_bytes
  WorkerSlots,    \* capacity.worker_slots
  CpuReserve,     \* realtime_cpu_reserve and render_cpu_reserve
  MemoryReserve   \* realtime_memory_reserve and render_memory_reserve

\* ForegroundPressure: realtime_audio_active, render_work_pending.
Foreground == {"Realtime", "Render"}

\* What `BrokerCapacity::validate` accepts.
ASSUME CapacityAssumption ==
  /\ CpuSlots \in Nat \ {0}
  /\ MemoryUnits \in Nat \ {0}
  /\ WorkerSlots \in Nat \ {0}
  /\ CpuReserve \in [Foreground -> Nat]
  /\ MemoryReserve \in [Foreground -> Nat]
  /\ CpuReserve["Realtime"] + CpuReserve["Render"] <= CpuSlots
  /\ MemoryReserve["Realtime"] + MemoryReserve["Render"] <= MemoryUnits

-----------------------------------------------------------------------------
(* Records                                                                 *)

Escalations == {"Starting", "Running", "CancelRequested", "KillRequested"}
Reasons == {"User", "ForegroundPressure", "StartupDeadline",
            "HeartbeatDeadline", "ProgressDeadline"}

\* A demand that `submit` does not refuse.
Demands == 1..MemoryUnits

ActiveJob == [memory : Demands, admitted : Nat, late : BOOLEAN,
              state : Escalations, reason : Reasons \cup {"None"}]

\* `queued` maps a job to its demand: names grow with the sequence number.
NoJobs == [j \in {} |-> j]
NewBroker == [queued |-> NoJobs, active |-> NoJobs, receipts |-> {}]

Start(j)             == [do |-> "Start", job |-> j, reason |-> "None"]
SendCancel(j, why)   == [do |-> "SendCancel", job |-> j, reason |-> why]
Kill(j, why)         == [do |-> "Kill", job |-> j, reason |-> why]

\* The entries of g replace or join those of f.
Updated(f, g) == [x \in DOMAIN f \cup DOMAIN g |->
                    IF x \in DOMAIN g THEN g[x] ELSE f[x]]
Without(f, S) == Restrict(f, DOMAIN f \ S)

-----------------------------------------------------------------------------
(* Resources                                                               *)

Queued(b)  == DOMAIN b.queued
Charged(b) == DOMAIN b.active

Demand(b, j) == IF j \in Charged(b) THEN b.active[j].memory ELSE b.queued[j]

\* The sum of the jobs' demands, each counted unit by unit.
CpuInUse(jobs)       == Cardinality(jobs)
MemoryInUse(b, jobs) ==
  Cardinality({held \in jobs \X Demands : held[2] <= Demand(b, held[1])})

Withheld(reserve, pressure) ==
  (IF "Realtime" \in pressure THEN reserve["Realtime"] ELSE 0)
    + (IF "Render" \in pressure THEN reserve["Render"] ELSE 0)

CpuLimit(pressure)    == CpuSlots - Withheld(CpuReserve, pressure)
MemoryLimit(pressure) == MemoryUnits - Withheld(MemoryReserve, pressure)

LeavesReserves(b, jobs, pressure) ==
  /\ CpuInUse(jobs) <= CpuLimit(pressure)
  /\ MemoryInUse(b, jobs) <= MemoryLimit(pressure)

\* Fault: the reserves of playback and rendering are forgotten.
FitsTheMachine(b, jobs, pressure) ==
  /\ Cardinality(jobs) <= WorkerSlots
  /\ CpuInUse(jobs) <= CpuSlots
  /\ MemoryInUse(b, jobs) <= MemoryUnits

\* The jobs in use and the one that `fits` is asked about, taken together.
Fits(b, jobs, pressure) ==
  /\ Cardinality(jobs) <= WorkerSlots
  /\ LeavesReserves(b, jobs, pressure)

-----------------------------------------------------------------------------
(* Admission                                                               *)

IsImpossible(memory) == memory > MemoryUnits

Submit(b, j, memory) ==
  [b EXCEPT !.queued = Updated(@, [i \in {j} |-> memory])]

\* `schedule` admits the first queued job that fits until none does.  Usage
\* only grows meanwhile, so a job is admitted when it fits beside those in use
\* and those admitted before it.
Admitted(b, pressure) ==
  CHOOSE jobs \in SUBSET Queued(b) :
    \A j \in Queued(b) :
      j \in jobs <=>
        Fits(b, Charged(b) \cup {i \in jobs : i < j} \cup {j}, pressure)

\* Jobs admitted by one call share its `now`.
NextRank(b) == 1 + Max({0} \cup {b.active[j].admitted : j \in Charged(b)})

NewJob(memory, rank) ==
  [memory |-> memory, admitted |-> rank, late |-> FALSE,
   state |-> "Starting", reason |-> "None"]

Admit(b, jobs) ==
  [b EXCEPT !.active =
     Updated(@, [j \in jobs |-> NewJob(b.queued[j], NextRank(b))])]

\* Fault: an admitted job stays in the queue.
ScheduleAndKeep(b, pressure) ==
  [broker  |-> Admit(b, Admitted(b, pressure)),
   actions |-> [j \in Admitted(b, pressure) |-> Start(j)]]

Schedule(b, pressure) ==
  [broker  |-> [Admit(b, Admitted(b, pressure)) EXCEPT
                  !.queued = Without(@, Admitted(b, pressure))],
   actions |-> [j \in Admitted(b, pressure) |-> Start(j)]]

-----------------------------------------------------------------------------
(* Escalation                                                              *)

Escalated(job, state, why) ==
  [job EXCEPT !.state = state, !.reason = why, !.late = FALSE]

\* What request_cancel and protect_foreground do to a job still at work.
Stopped(job, why) ==
  IF job.state = "Starting" THEN Escalated(job, "KillRequested", why)
                            ELSE Escalated(job, "CancelRequested", why)

Ask(j, job) == IF job.state = "KillRequested" THEN Kill(j, job.reason)
                                              ELSE SendCancel(j, job.reason)

\* Fault: what is asked to stop gives its resources back at once.
EscalateAndRelease(b, jobs) ==
  [broker  |-> [b EXCEPT !.active = Without(@, DOMAIN jobs)],
   actions |-> [j \in DOMAIN jobs |-> Ask(j, jobs[j])]]

\* The given jobs get these entries, and each of them is asked to stop.
Escalate(b, jobs) ==
  [broker  |-> [b EXCEPT !.active = Updated(@, jobs)],
   actions |-> [j \in DOMAIN jobs |-> Ask(j, jobs[j])]]

AtWork(b) == {j \in Charged(b) : b.active[j].state \in {"Starting", "Running"}}

\* Newest first; jobs admitted together yield in the order of their names.
YieldsBefore(b, i, j) ==
  \/ b.active[i].admitted > b.active[j].admitted
  \/ b.active[i].admitted = b.active[j].admitted /\ i < j

\* The loop goes on while the jobs that have not yielded, those being
\* cancelled included, use more than the reserves leave.
Yielding(b, pressure) ==
  {j \in AtWork(b) :
     ~LeavesReserves(b, Charged(b) \ {i \in AtWork(b) : YieldsBefore(b, i, j)},
                     pressure)}

ProtectForeground(b, pressure) ==
  Escalate(b, [j \in Yielding(b, pressure) |->
                 Stopped(b.active[j], "ForegroundPressure")])

\* request_cancel on a job that is queued or active; any other is refused.
RequestCancel(b, j, why) ==
  IF j \in Queued(b)
  THEN [broker |-> [b EXCEPT !.queued = Without(@, {j})], actions |-> NoJobs]
  ELSE Escalate(b, [i \in {j} \cap AtWork(b) |-> Stopped(b.active[i], why)])

\* The heartbeat deadline and the progress deadline have the same effect but
\* for the reason: `tick` looks at the heartbeat first.  A job that is being
\* killed is declared unresponsive, which the service treats as a kill.
Overdue(job) ==
  CASE job.state = "Starting" -> Stopped(job, "StartupDeadline")
    [] job.state = "Running"  -> Stopped(job, "HeartbeatDeadline")
    [] job.state \in {"CancelRequested", "KillRequested"} ->
         Escalated(job, "KillRequested", job.reason)

Tick(b) == Escalate(b, [j \in {i \in Charged(b) : b.active[i].late} |->
                          Overdue(b.active[j])])

-----------------------------------------------------------------------------
(* Observations of a worker                                                *)

IsRunning(b, j) == j \in Charged(b) /\ b.active[j].state = "Running"

\* The service observes a start only of a job that is starting.
ObserveStarted(b, j) ==
  [b EXCEPT !.active[j] = [@ EXCEPT !.state = "Running", !.late = FALSE]]

ObserveProgress(b, j) == [b EXCEPT !.active[j].late = FALSE]

AcknowledgeTerminal(b, j) == [b EXCEPT !.active = Without(@, {j})]

\* Fault: the receipt is issued and the job stays active.
CompleteAndKeep(b, j) == [b EXCEPT !.receipts = @ \cup {j}]

\* accept_completion for a running job whose output is within its budget.
Complete(b, j) ==
  [AcknowledgeTerminal(b, j) EXCEPT !.receipts = @ \cup {j}]

=============================================================================
