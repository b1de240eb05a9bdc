# A TLA+ development for audec

audec is a desktop application that takes recordings apart into an editable
project. Its core is a set of Rust components that share one pattern: slow work
runs in the background on a captured snapshot, and its result may come back
after the project, the document, the session or the request it was captured for
has changed. What may then still be published, marked saved or acknowledged is
the question these modules answer.

Five parts are modelled: the task coordinator that admits and shares background
work, the comparison executor built on it, the document with its package on
disk, the service that runs model analyses in worker processes, and the way a
rendered revision becomes audible. TLC checks all of them on small instances.
What the passing runs check of their safety is also proved, for every value of
the constants.

## 1. Inventory

Paths are relative to the repository's `src/`. "Hard" names what makes a
component hard to test; the hazards are listed with their lines in
`PROJECT.json`.

### Modelled

**TaskCoordinator** (`task_coordinator.rs`)
- State: sessions and their generations; live tasks (owner, generation, flight,
  state, deadline, progress); flights (key, resource, subscribers, cancellation
  flag); the single-flight index; running slots by resource; terminal records.
- Operations: `observe_session`, `close_session`, `submit`, `cancel_task`,
  `cancel_owner`, `dispatch_next`, `report_progress`, `complete`,
  `validate_for_publication`. It runs behind its owner's mutex and never calls
  out.
- Hard: several panes share one computation and leave it in any order;
  sessions advance while work is queued, running or waiting to be published;
  deadlines pass; slots and limits.
- Correct when its tables agree after every call, slots are neither leaked nor
  released twice, a result is published at most once and only for a request
  whose authority was never interrupted, and every request is resolved.

**ComparisonProductExecutor** (`comparison_runtime/executor.rs`)
- State: the coordinator and the outcome cells, shared by all panes; per pane
  the active request.
- Operations: `capture` (main thread), a job's `execute` (a thread; runs the
  computation or follows another job's), `publish`, `cancel_owner`.
- Hard: a follower waits for a cell only the runner fills; a pane cancels what
  another pane shares; captures fail half-way.
- Correct when every job returns, nobody waits on a cell that no thread will
  fill, and a pane is given only its newest selection.

**Document persistence** (`project_store.rs`, `project_session_lifecycle.rs`,
the journal of `live_project.rs`, `ui/workbench_project_io.rs`)
- State: the package (manifest, revision-scoped payloads, recovery manifests,
  journal segments); the installed project with its saved mark, pending journal
  records and durable cursor; the lifecycle's identity, repository and document
  epoch; the workbench's authorities and last autosaved revision.
- Operations: commands, Save, Save As, autosave, New, Open, Open audio,
  Recovery, and the background tasks that write payloads, manifest, rotation,
  journal segment and compaction one file-system step at a time.
- Hard: edits during saves, saves during saves, completions for a document that
  is gone, a crash or a failed write between any two steps, compaction by two
  tasks at once, a journal that belongs to another history.
- Correct when no manifest names a missing payload, no command leaves the
  journal, the cursor covers only durable records, and "clean" means that disk
  and document agree.

**Model workers** (`model_task_service.rs`, `worker_broker.rs`, and of
`worker_runtime.rs`, `model_supervisor.rs`, `model_store.rs` and
`model_wire.rs` what the service sees of them)
- State: the service's tasks; the broker's queue, active jobs and receipts; the
  worker processes; published results, cache-key locks and sandboxes on disk.
- Operations: run, retry, cancel, `set_foreground_pressure`, poll (schedule,
  tick, receive), `terminate_active`; a service ends by closing or crashing and
  another follows over the same store.
- Hard: answers that race cancellations and deadlines, playback that takes
  resources back from jobs being started, run or stopped, half-failed launches,
  locks that outlive a crash.
- Correct when processes and charges agree and fit the machine, jobs at work
  leave playback its reserve, one worker at most computes a key, a published
  result is verified, stored and final, and every task ends.

**Render publication** (`project_audio_controller.rs`, `render_service.rs`,
`render_runtime.rs`, `audio.rs`, `ui/workbench_publication.rs`)
- State: the controller (desired target, render in flight, mailbox of partial
  cohorts, pending action); the service (target, staged, in flight, active); the
  renderer on the audio thread (active and fallback cohort, ticket, receipt) and
  the mailbox of atomic pointers between them; the transport.
- Operations: a revision is requested; its render offers parts, completes,
  fails, is cancelled or superseded; a host opens, is replaced or lost; the
  interface ticks; play, pause, seek, loop; frames of the audio callback.
- Hard: receipts that cross newer cohorts and cancellations, parts staged over
  parts, a loop that changes while a ticket waits for its wrap.
- Correct when both threads agree on what is on its way, what is heard is
  exchanged in one step and only forward, every frame has a complete cohort
  under it, and a finished render is heard in the end.

### Not modelled

| Component | State and operations | Why not |
|---|---|---|
| ProjectHistory (`live_project.rs`, `command_record.rs`) | undo and redo stacks, gestures, coalescing | sequential, unit-tested; an undo is one more command of `ProjectDocument` |
| AnalysisProductRuntime | subscribers per shared flight, published products, on a TaskCoordinator | its coordinator is modelled; its own tables would need a module as large as `ComparisonExecutor` |
| Render products and dependencies | catalogues with budgets, invalidation graph | which tiles a cohort shares is data no property here tells apart |
| DeviceService | ready, running, recovering, faulted | one thread and a counter of attempts |
| ContentStore | objects, pins, leases, collection plans | worth a model; there is none yet |
| WorkspaceAuthority | layout, revision, pending actuation | one actuation at a time; not modelled yet |
| Plugins | shared-memory turns between controller and worker | correctness of memory orderings, which interleaved steps do not show |
| Auditions, comparison panes | generation checks of short-lived sessions | the same pattern as in `ComparisonExecutor` |

The editable domains, codecs, media and export, signal processing, the control
socket and the user interface are out of scope; `PROJECT.json` says why. They
are most of the repository's 317 000 lines: views, signal processing and
conversions have little a state machine could say, so the modules stand for a
small share of the source, the one in which order decides.

### How they interact

```
 panes ── capture/submit ──> executor, analysis runtime ──> TaskCoordinator
   ^                               | threads                    |
   └──── publish if authorised <───┴──── complete / receipts <──┘

 workbench ── commands ──> ProjectSession ──> ProjectController (journal)
    |  Save / autosave: capture            finish_save: acknowledge, mark saved
    └──> ProjectDocumentLifecycle ──> background task ──> ProjectStore ──> disk

 workbench ── run / cancel / pressure / poll ──> ModelTaskService <──> WorkerBroker
                                                    |  pipes, locks, results
                                                    └──> worker processes, ModelStore

 workbench ── request, tick ──> ProjectAudioController ── RenderService
    render jobs ── parts, completion ──^        | tickets   ^ receipts
                                                v           |
                             audio callback: TransportSource, CohortRenderer
```

The coordinator and the document meet only through revisions: a comparison
captured at one project revision is dropped when the project has moved on.
Likewise a render is of a revision, and playback reaches the model workers only
as a foreground pressure the host reports.

## 2. Modules

| Module | Models |
|---|---|
| `CoordinatorState` | the struct of `TaskCoordinator` as a record and each of its methods as an operator from struct to struct |
| `CoordinatorInvariants` | what holds of such a record whenever its lock is free |
| `TaskCoordinator` | requesters, worker threads, adapters and clock around one coordinator |
| `RequestAuthority` | the abstract promise: a request goes from unknown to pending, then is published once or withdrawn for good |
| `CoordinatorProofs` | a lemma for each method of `CoordinatorState`: it keeps the struct sound |
| `AdmissionProofs` | whom a method concerns, and what follows for limits, duplicates, progress and the order of dispatch |
| `TaskCoordinatorProofs` | the theorems on `TaskCoordinator`, and that it implements `RequestAuthority` |
| `ComparisonExecutor` | panes, background jobs and the coordinator they share |
| `ComparisonExecutorProofs` | the theorems on `ComparisonExecutor`, from the same lemmas about methods |
| `ProjectPackage` | one package on disk, its atomic steps, and recovery from it |
| `ProjectDocument` | the installed document, its background tasks, replacement and crashes |
| `ProjectDocumentProofs` | the theorems on `ProjectDocument` |
| `WorkerBroker` | the value of one broker and each of its methods |
| `ModelTaskService` | the service, its workers, the store, and the host around it |
| `ModelTaskServiceProofs` | the theorems on `ModelTaskService`: lemmas about the broker's methods, then about the service's |
| `RenderPublication` | controller, render service, render jobs, transport and audio thread |
| `RenderPublicationProofs` | the theorems on `RenderPublication`, and that it implements `AudibleMaster` |
| `AudibleMaster` | the abstract promise: what is heard is exchanged in one step, only forward, and again only once the control thread knows |
| `OrderProofs` | first elements of finite sets, which the other proofs cite |
| `MC...` | small instances |

`CoordinatorState` is used twice, by `TaskCoordinator` and by
`ComparisonExecutor`. The code serialises every call with a mutex, so a call is
one step. `Expired`, the first thing `submit`, `dispatch_next` and `complete`
do, is part of each of those actions. Recipes are model values; two requests
share a flight when their keys are equal.

In `ComparisonExecutor` the steps of a job are those another thread can see: the
report to the coordinator, the stored outcome, the return. A follower is a job
without a runner's duty that looks at the cell and at its own cancellation.

In `ProjectPackage` a project is the sequence of command batches applied to it,
so its revision is its length, two timelines that part at a revision differ from
there on, and a domain's payload is the subsequence of its own edits. The
baseline a new project or a recording starts from is the empty sequence. A
journal frame carries its sequence number and the project it led to, a segment
is the set of its frames and whether compaction wrote it, and recoveries are
projects by the time in their file name. Two segments with equal frames and
origin have one name in the code, and are one here; segment names, and so name
conflicts, are the code's. Replay is stated by what it
reaches: the longest run of frames, numbered without a gap and each extending the
project before it.

In `ProjectDocument` a save task carries what `capture_save` captures, plus
`heard`: whether the workbench's authorities will still listen to its
completion. `identity` joins `manifest_path` and `origin`; `files` is the
lifecycle's repository, which an unsaved document gets from its first autosave.
`saved_project` is read by properties only.

In `ModelTaskService` one thread owns the service, so a method is a step; what
interleaves is the time, the host and the workers. A worker is what the service
knows of it. What a read or write to a worker gives (a record, a completion, an
error, a closed pipe) is chosen when the service makes it, once for a call. A
recipe is its cache key. Time is one flag for each active job, raised by
`DeadlinePasses`, which says that the deadline of its present state lies before
the next tick. The service submits generation 1 and the user-initiated priority
only, so the broker's queue is a map from a job to its demand, ordered by the
job's number, and `schedule` admits from it in that order. Memory comes in units,
and what is in use is the number of units held. The actions a method returns are
about different jobs, so they are a map from the job to its action, and `Apply`
carries them out job by job. A kill the broker orders is carried out at once, as `kill_identity` does: dropping the
runtime kills and reaps the process.

In `RenderPublication` a plan is the generation it renders, and a timeline the
number of structural generations up to it. A cohort is complete or partial. The
frame position is left out, so while the transport plays it may come to the end
of its loop or of the timeline at any frame; a transport command takes effect at
a frame boundary, with the session's own record of it. Steps of the audio thread
are atomic: there is at most one publication between the threads, which
`ServiceFollowsTheRenderer` shows. `plan_generations` is reduced to the
generation that completed last. A renderer whose host was lost plays on until
the next one is open, as the code leaves it.

Several definitions are followed or preceded by a faulty variant ("Fault: ...").
No specification uses them. They are plausible bugs, and each shows that one
property would notice.

## 3. Runs

| Run | Question | Bounds |
|---|---|---|
| `CoordinatorSharing` | do the tables agree after every call? | 3 panes in 2 sessions, 2 recipes, 1 slot, 3 tasks, limits of 2 active tasks and 2 queued flights, 2 generations, one session closes, 2 progress reports |
| `CoordinatorRequests` | is only wanted work started, dispatch decided, publication authorised, every request resolved? | 2 panes in 1 session, 2 tasks with 2 priorities and deadlines, 1 slot, fair workers |
| `ComparisonJobs` | do runners, followers and publications agree, and does every job return? | 2 panes, 1 comparison, 2 and 1 selections, 1 edit, fair threads |
| `ComparisonSlots` | has every dispatched flight a thread? | **no**, 2 slots, 3 selections |
| `DocumentSaves` | is what is marked saved, acknowledged or published really so? | 2 commands, revisions up to 2, 1 explicit save at a time with autosaves beside it, 2 installs, 1 fault (failed write or crash) |
| `DocumentOverwrite` | does a clean document match project.json? | **no** with 2 explicit saves at once |
| `DocumentReplaced` | does the cursor cover only durable records? | **no** when New replaces a document with an autosave in flight |
| `DocumentReplay` | does reopening bring back what was acknowledged? | **no** in a package saved over |
| `WorkerTasks` | do broker, service, workers and store agree, and does every task end? | 2 runs over 2 services, 1 restart, 2 worker slots, 3 cpu and 4 memory units, jobs of 1 and 3 units, reserves of 1 cpu for playback and 1 cpu and 1 memory for rendering, 1 report per worker, polling host |
| `WorkerLocks` | is a locked key always being computed? | **no** with a second service over the store, even one closed in good order |
| `RenderPublication` | do the threads agree, is what is heard whole and newer, is a finished render heard? | 4 revisions, the second with a new timeline, 1 loop region, 1 restart, 2 partial cohorts |
| `RenderParts` | is a part taken only while its render runs? | **no** after a render that failed |

Why the bounds are enough. Three tasks are the fewest that let one leave a
shared flight, one stay and one start a competing flight for the same key. One
slot makes every other flight wait. The code treats each advance of a session
alike; one closes in `CoordinatorSharing`. In the document, retention limits of 1
checkpoint and 2 segments (8 and 8 in the code) make rotation prune and
compaction run at the second autosave; two tasks at once are what every race in
`ProjectStore` needs; two commands are enough for two timelines of equal
revision with different contents. One domain suffices for the saves because a
manifest written before its payloads already fails with one; a payload refused
half-way differs only in how many are left behind. Two jobs fill the worker
slots, and with the heavy one the memory, so that one waits for, yields to or
follows the other; two runs are a run and its retry, or one before and one after
a restart. Four revisions give a timeline that is replaced and then three
revisions on one timeline, which a cancelled publication needs; two parts are the
fewest that can be published one over the other. `MaxTasks`, `MaxGeneration`,
`MaxClock`, `MaxSelections`, `MaxRevision`, `MaxInstalls`, `MaxPrimarySaves`,
`MaxFaults`, `MaximumRuns`, `MaximumReports`, `MaximumRestarts`,
`MaxGenerations` and `MaxOffers` bound counters the code does not bound.
`RestartLimit` is 1 (3 in the code).

Restrictions that matter: `PublicationNeedsAuthority` is checked without closing
sessions: closing a session and observing it again at the same generation makes
its receipts valid again, although the comment on `close_session` speaks of
revoking them. `AcknowledgedFramesAreDurable` and
`CleanDocumentsMatchTheirLastSave` hold in `DocumentSaves`, where New does not
replace an installed document and one explicit save runs at a time; the two
violation runs drop exactly these restrictions.

`CHECK_DEADLOCK FALSE` stands in the configurations whose system stops when a
bound is reached: all but those of the coordinator.

### Fairness

`CoordinatorRequests`: the executor's loop polls `dispatch_next` whenever a slot
may be free, each call first expires and retires what is over, a dispatched
worker reports (`TaskDispatch` demands it), and adapters handle receipts. No
requester, no owner and no clock is forced. `ComparisonJobs`: threads are
scheduled, and a waiting follower wakes every 20 ms to look at its cell and its
token. `WorkerTasks`: the host goes on polling while there are workers or queued
jobs, which is when `poll` asks to be called again, and each active job's
deadline passes in the end; nothing is assumed of the workers, which may stay
silent for ever. For a job to start at all the reserves must leave room for it,
as those of the instance do. `RenderPublication`: the interface ticks, stopped
frames are rendered, and a playing transport comes to the end of its loop or of
the timeline; nothing is assumed of renders and of the musician. All are weak
fairness, some with the enabling condition written out.

## 4. What the runs found

1. `ComparisonSlots`: a capture that finds no free slot returns an error but
   leaves its flight queued. The next capture dispatches that flight, fails as
   well, and no thread ever completes it; its slot is lost.
2. `DocumentOverwrite`: two saves run at once, the older renames its manifest
   last, and the document is clean with an older project on disk.
3. `DocumentReplaced`: a new lifecycle starts at document epoch 0 again, so an
   autosave of the previous document passes the epoch test; if both documents
   start with the same commands it acknowledges the new one's journal.
4. `DocumentReplay`: a project saved into a package with a journal numbers its
   commands from 1 again; on reopening, records with one sequence number are set
   aside in pairs and acknowledged commands are not replayed. (An autosave
   checkpoint may still hold them.)
5. `WorkerLocks`: a second service over one store names its first task like an
   earlier one; its sandbox exists already, the reservation fails after it
   created the lock, and nothing removes the lock: the key can be computed no
   more.
6. `RenderParts`: `fail_render` keeps the mailbox of partial cohorts. A part the
   failed render left there is staged by the next tick and becomes audible, and
   submitting it clears the failure the service had recorded.

Met while modelling, with no text of the repository that denies them: a task
cancelled twice shows Cancelled while its worker runs on; progress that was in
the pipe before the cancellation makes a task Failed instead of Cancelled; a
completion the broker refuses as too large keeps its slot until a deadline
passes, and a retry then finds that result in the store; a candidate staged
under one loop waits for as long as another loop plays.

## 5. Proofs

36 theorems hold for every set of owners, recipes, commands, domains, packages,
loops and cache keys, every machine, every limit and every bound on a counter.
They assume what the modules' ASSUMEs say, which TLC evaluates in the runs of
each module:

| Assumption | Says | Because |
|---|---|---|
| `ConfigAssumption` | limits are positive; each owner has a session, each key a resource | `TaskCoordinator::new` checks the limits; sessions and resources are fields of a request |
| `InputAssumption` | what requesters and workers pass has its type | Rust's types |
| `ComparisonAssumption` | each pane has a session of its own; a key is a comparison, a selection and a revision; the one resource has a limit | `comparison_runtime/executor.rs` builds its requests and its configuration so |
| `PackageAssumption` | each command edits one domain; the payloads are written in some order; limits are positive, and two segments are needed to merge | constants of `project_store.rs` |
| `DocumentAssumption` | recovery packages are not among the user's; bounds are numbers | the recovery directory is the application's own |
| `RenderAssumption` | there is a revision; bounds are numbers | |
| `CapacityAssumption` | cpu, memory and worker slots are positive; the reserves for playback and for rendering together fit the machine | `BrokerCapacity::validate` |
| `ServiceAssumption` | each model demands memory (perhaps more than there is); the queue has a limit; pressures are sets of the two kinds; bounds are numbers | the registry, the service's configuration, Rust's types |
| `NoneAssumption` (twice) | `None` is none of the records it stands in for | Rust's `Option` |

### What is proved

| Theorem | Property |
|---|---|
| `TypeCorrect`, `TasksAccountedFor`, `SubscriptionsMutual`, `EligibleTasksCurrent`, `CancellationExact`, `IndexIsExact`, `SlotsMatch`, `AdmissionBounded`, `OneRequestEach`, `ProgressShared`, `DispatchDecided` of `TaskCoordinatorProofs` | every invariant of the two coordinator runs |
| `StartedWorkIsWanted` | the action property `OnlyWantedWorkStarts` |
| `AuthorityIsKept` | `TaskCoordinator` implements `RequestAuthority`, when no session may be closed |
| `TypeCorrect`, `RunnersHold`, `FollowersAnswered`, `NewestIsPublished` of `ComparisonExecutorProofs` | the executor's invariants and its action property |
| `DocumentTypeCorrect`, `ManifestsStayWhole`, `JournalFollows`, `SavedMarkHolds`, `CommandsAreKept` | the document's invariants, and that its journal loses nothing |
| `CleanDocumentsMatch` | a clean document is what its manifest holds, with one explicit save at a time and nothing opened over an open document |
| `AcknowledgedIsDurable` | the cursor covers only durable records, when New and Open audio replace no open document |
| `TypeCorrect`, `FramesAreCovered`, `ThreadsAgree` of `RenderPublicationProofs` | the invariants of the render publication |
| `ExchangeIsAtomic` | `RenderPublication` implements `AudibleMaster` |
| `ServiceIsConsistent` | the inductive invariant of `ModelTaskService` |
| `ServiceTypes`, `WorkersAlwaysFit`, `WorkAlwaysRespectsReserves`, `CancellationsAlwaysReachTheWorker`, `OneWorkerAlwaysPerKey`, `CompletionsAreAlwaysReceipted` | every invariant of `WorkerTasks` |
| `PublishedStaysFinal` | its action property `PublishedIsFinal` |

Three theorems have a hypothesis, and each is needed. Without
`ClosableSessions = {}` a session closed and observed again at the same
generation revives its receipts. `DocumentOverwrite` shows what two explicit saves
at once do to `CleanDocumentsMatch`, and `DocumentReplaced` what New does to
`AcknowledgedIsDurable`. A package opened over an open document that still saves
into it can be read before that save's manifest lands, which is why
`CleanDocumentsMatch` excludes it. Each hypothesis leaves the rest of the
behaviour in: autosaves beside saves, failures, crashes and compaction by any
number of tasks.

### Along which argument

**The coordinator.** No invariant is inductive alone. A join needs the index to
name a live flight; the index is exact only because flags are; flags speak of
subscribers, who must be live tasks; and retirement removes a task, its
subscription and its index entry together. The inductive invariant is

    Inv == Sound(coordinator) /\ Slots(coordinator) /\ EligibleCurrent(coordinator)
           /\ clock, receipts and published have their types

where `Sound` collects type, accounting, mutual subscription, agreement of
states, exact flags and exact index, and `Slots` adds that the running flights of
a resource are a finite set. `Put...` lemmas say which fields an update of the
struct leaves alone. One lemma per method shows that it leads from a sound struct
to a sound one, and what it does to slots and eligibility: most methods only
withdraw eligibility and keep the slots, and two lemmas
(`CurrentIfNothingGranted`, `SameSlotsKept`) settle all of those at once.
Inside a method, exact flags are broken and repaired: `MarkCancellingConsistent`
keeps everything but exactness, and `CancelUnobservedSound` restores it.

`AdmissionProofs` then says of each method whom it concerns: `Leaves` (it only
removes), `Admits` (one task), `Starts` (one flight) and `Reports` (one flight's
subscribers). Every step of `TaskCoordinator` is of one of these four kinds
(`StepKind`), and what is left is four short arguments for each property:
- *Limits.* `submit` discounts the owner's older tasks, which it is about to
  supersede, so live tasks may exceed the limit. What stays within it are the
  eligible ones: no task that was discounted is one of them.
- *One request.* The lookup in `submit` finds the owner's task only through the
  index. That it finds every eligible one rests on the index being exact and on
  eligible tasks being current: an older generation's task of the same owner and
  recipe is never eligible beside it.
- *Progress.* `report_progress` stops at the first subscriber it would regress,
  so subscribers could part; `EarlierHaveSeen` adds that those without a report
  joined after those with one, so whoever refuses comes first and nothing is
  written.
- *Dispatch.* A finite set that a relation orders totally has a first element.
  `OrderProofs` shows it from the well-foundedness of the subset relation, by a
  minimal set without one.

For the refinement, `Settled` says that a receipt or a publication belongs to an
id handed out and no longer live, and that a receipt's session is at least at its
generation; sessions only grow unless one may be closed. With it every kind of
step maps to a step of `RequestAuthority` or to none.

**The executor** uses the same lemmas: a capture or a cancellation `Carries` the
running flights on with their subscribers. `JobsHold` ties jobs, cells and
outcomes to the coordinator: a runner's flight runs until it reports and has an
outcome afterwards, each flight has one runner, and a follower is `Answered`:
either the runner has yet to report and will find it among the subscribers, or
the outcome has a gate for it and is stored or about to be.

**The document.** Every step of a save task is a `Moves`: it captured the same
document, publishes a manifest or not, and changes the segments in one of four
ways. Over these,
- a manifest is whole because payloads are never rewritten and the task has
  written all it names (`PayloadsWritten`);
- no frame is lost because, whatever a task is about to remove, *another*
  compacted segment holds its frames (`SourcesCovered`). The point is two tasks
  that compact at once: what one relies on the other may remove, but only when
  a third segment holds that, and two compacted segments that hold each other's
  frames are the same file;
- the journal follows its cursor (`Pending`) because an acknowledgement is taken
  only with the cursor it was captured at, and replay numbers what it finds
  without gaps;
- the saved mark is content and not only a revision because the saved project,
  and what every heard save captured, are prefixes of the installed one
  (`Marked`), so equal lengths mean equal projects;
- for `CleanDocumentsMatch`, `Matching` says where the one explicit save stands:
  once it published, its project is on disk, and no save that may still publish
  captured less than what is marked saved;
- for `AcknowledgedIsDurable`, `Durable` says that an autosave of the document's
  epoch goes to the document's own files, that a written delta stays on disk
  (which needs `SourcesCovered`), and that material is only loaded into an empty
  workbench.

TLC checked these strengthenings on the bounds of `DocumentSaves` before they were
proved. Recursion had to be avoided in the model: replay is described by where it
stops, whose existence for every finite journal is again `OrderProofs`.

**The render publication.** The invariant says where the one publication under way
is: in the mailbox, with the renderer, or in a receipt nobody has collected, and
in each case what both sides take to be playing (`AgreedOn`). What waits behind it
may follow it (`Served`), and numbers reserved for parts bound how many there are
(`AskedFor`).
Each operation of the service gets a lemma about the fields it touches, each step
of the audio thread one about the renderer, and the refinement of `AudibleMaster`
reads the exchange off the step that activates a ticket.

**The worker service.** One method of the service may call the broker several
times, and between a broker's answer and its being carried out the tables
disagree: a job is charged and has no worker, or was told to stop and does not
know. The invariant is therefore stated with what is still to be done,
`Consistent(s, actions, p)`: under pressure `p`, service `s` agrees with its
broker except for the jobs of `actions`, and each of these is a start of a job
without a worker, a cancellation of a job the broker is stopping, or a kill. Its
parts are
- workers are charged, what is charged fits the machine, and jobs at work leave
  what `p` reserves;
- sessions agree with the broker about who was asked to stop;
- a lease holds the lock of a key that has no result, and shares it with nobody;
- a task is verified exactly when it is Published, and then has its receipt and
  a sound result; a job that is queued or charged is of a task not yet settled.

Between two methods nothing is pending: that is `ServiceInvariant`. TLC checked
it, apart from the membership in sets of records, on the bounds of `WorkerTasks`
before it was proved.

The proof has three layers.
- *Decisions.* `tick`, `request_cancel`, `protect_foreground` and `schedule` take
  a consistent service with nothing pending to one with their actions pending.
  For `protect_foreground` the point is where its loop stops: the first of the
  jobs that go on (`FirstToYield`) found the reserves free with all before it
  gone, and every other job that goes on was counted then; less work uses less
  (`UsageIsMonotone`). For `schedule`, which is stated
  by what it admits, that such a set exists for every queue (`AdmissionExists`)
  and that its jobs fit beside those at work (`AdmittedFit`) has to be shown.
- *Actions.* One lemma for each way a job ends or starts says that the service
  stays consistent with one action fewer: `JobEnds`, `StartedJobRuns`,
  `ToldWorkerAgrees`, `KilledJobEnds`. `Apply` is a recursive function over the
  jobs that have an action; `ApplyIsHandled` follows by taking a smallest set of
  actions that would refute it, so no induction theorem is needed.
- *Methods.* Each operation of the service is a decision, its actions, and what a
  worker reports; each ends with nothing pending (`Handled`) and keeps every
  settled task (`KeepsTasks`), which is `PublishedIsFinal`.

A crash or a close leaves nothing but the store, and an empty service is
consistent with any store. That is also why the invariant does not deny the lock
`WorkerLocks` finds: a lock without a lease harms no other property, it only
stays.

### Only model-checked

Every safety property of a passing run is stated by a theorem. What remains to
TLC is liveness (`EveryRequestIsResolved`, `CancelledFlightsAreRemoved`,
`EveryJobReturns`, `EveryTaskEnds`, `FinishedRendersAreHeard`), which is beyond
the proof system here. Three properties hold as theorems only under the
hypotheses named above, in the runs by their bounds. What a violation run denies
cannot be proved.

## 6. Left out

- TaskCoordinator: diagnostics, and the eviction of old terminal snapshots.
- ComparisonExecutor: progress reports, and products the pane's controller
  refuses after the executor's own tests.
- Document: the workspace and its own dirty mark, media and its hydration,
  malformed or truncated journal files, Save / Discard / Cancel (any answer is
  allowed), exports. Listing the segments and reading them is one step. File
  system steps are atomic and ordered: the code syncs each file before it links
  or renames it.
- Workers: priorities and their aging, scratch space, accelerators, more than one
  generation of a job (the service uses none of them), the wire format and
  hashing. Two services at once over one store.
- Render: reported failures and status, the retired cohort kept for comparison,
  auditions, exports, catalogue budgets, the transport's seqlock and positions,
  a request repeated for the revision whose render failed. A completion whose
  receipt lost its authority while its revision is still desired cannot happen:
  the render session is only ever advanced by a newer request.

## 7. What could follow

- Proofs: a safe order of New and autosave, by which `AcknowledgedIsDurable`
  would need no hypothesis; that a lock without a worker is only ever left by a
  crash or a failed reservation.
- Models: split listing and reading of journal segments, an abstract durable
  document which `ProjectDocument` refines, AnalysisProductRuntime on
  `CoordinatorState`, ContentStore with pins and collection.
