------------------------- MODULE RenderPublication -------------------------
(***************************************************************************)
(* How a rendered revision becomes audible.  Three parties act:            *)
(*   - the control thread: `ProjectAudioController`                        *)
(*     (src/project_audio_controller.rs) asks for renders, takes their     *)
(*     results and ticks; it owns the `RenderService`                      *)
(*     (src/render_service.rs) and the `RenderRuntime` around it;          *)
(*   - the render jobs, which offer partial cohorts while they run and end *)
(*     with a complete one, a failure or a cancellation;                   *)
(*   - the audio thread: `CohortRenderer` (src/render_runtime.rs) driven   *)
(*     frame by frame by `TransportSource` (src/audio.rs).                 *)
(* Control and audio share a mailbox of atomic pointers only.              *)
(*                                                                         *)
(* Abstractions.  A plan is the generation of the revision it renders; the *)
(* timeline of a plan is the number of Structural generations up to it.  A *)
(* cohort is complete (ready) or partial; which tiles a partial one has is *)
(* left out.  The frame position is left out: while the transport plays it *)
(* may at any time reach the loop's end or the timeline's.  A transport    *)
(* command takes effect when the audio thread sees it, at the start of a   *)
(* frame; the session's mode is behind the audio thread's only after the   *)
(* transport came to the end by itself, until the next tick.  The service's *)
(* `transport` is assigned by every call before it is read, so it is an    *)
(* argument here.  Audio steps are atomic: at most one publication is on   *)
(* its way, so within a step the audio thread and a control step touch the *)
(* same pointer at most once.  target_failure and diagnostics, which are   *)
(* only shown, auditions, exports and the product catalogue are left out.  *)
(***************************************************************************)
EXTENDS Naturals, FiniteSets

CONSTANTS
  MaxGenerations,   \* revisions published by the session
  Structural,       \* the revisions that change the timeline or the format
  Loops,            \* loop regions
  RestartLimit,     \* RENDER_RESTART_LIMIT
  MaxOffers,        \* partial cohorts offered, of all renders
  None              \* no cohort, ticket, loop or envelope

Generations == 1..MaxGenerations

ASSUME RenderAssumption ==
  /\ MaxGenerations \in Nat \ {0}
  /\ Structural \subseteq Generations
  /\ RestartLimit \in Nat
  /\ MaxOffers \in Nat
  /\ None \notin Loops

VARIABLES
  published,    \* the newest revision of the session
  controller,   \* ProjectAudioController: what is asked for
  service,      \* RenderRuntime and RenderService: what is on its way
  attached,     \* renderer_control is Some
  running,      \* the generations a job renders
  offer,        \* ProgressiveCohortMailbox of the controller's job
  offers,       \* how many partial cohorts were offered
  audio,        \* CohortRenderer and PublicationMailbox
  session,      \* the transport as the controller's session knows it
  playing       \* TransportSource.mode is Playing

vars == <<published, controller, service, attached, running, offer, offers,
          audio, session, playing>>
transport == <<session, playing>>

-----------------------------------------------------------------------------
(* Records                                                                 *)

Transports == [rolling : BOOLEAN, loop : Loops \cup {None}]

MaxSequence == MaxGenerations + MaxOffers
Cohorts == [plan : Generations, sequence : 1..MaxSequence, ready : BOOLEAN]
Candidates == [cohort : Cohorts, loop : Loops \cup {None}]
Gates == {"Immediate", "NextRenderQuantum"} \cup Loops
Tickets == [cohort : Cohorts, gate : Gates]
Envelopes == [cohort : Cohorts, outcome : {"Activated", "Cancelled"},
              retired : Cohorts \cup {None}]

\* None stands for the absence of any of them.
ASSUME NoneAssumption ==
  None \notin Cohorts \cup Candidates \cup Tickets \cup Envelopes

Controllers == [desired : 0..MaxGenerations, restarts : 0..RestartLimit,
                inFlight : 0..MaxGenerations, progressive : 0..MaxGenerations,
                failed : BOOLEAN, compiled : 0..MaxGenerations,
                pending : Tickets \cup {None}]
Services == [target : 0..MaxGenerations, active : Cohorts \cup {None},
             staged : Candidates \cup {None}, inflight : Tickets \cup {None},
             sequence : 0..MaxSequence]
Renderers == [active : Cohorts \cup {None}, fallback : Cohorts \cup {None},
              ticket : Tickets \cup {None}, incoming : Tickets \cup {None},
              answer : Envelopes \cup {None}, receipt : Envelopes \cup {None},
              cancelThrough : 0..MaxSequence]

\* What ProjectAudioController::new and RenderRuntime::new start with.
NewController == [desired |-> 0, restarts |-> 0, inFlight |-> 0,
                  progressive |-> 0, failed |-> FALSE, compiled |-> 0,
                  pending |-> None]
NewService == [target |-> 0, active |-> None, staged |-> None,
               inflight |-> None, sequence |-> 0]
NewRenderer(cohort) == [active |-> cohort, fallback |-> None, ticket |-> None,
                        answer |-> None, incoming |-> None, receipt |-> None,
                        cancelThrough |-> 0]

Timeline(plan) == Cardinality({g \in Structural : g <= plan})

\* control.format() and control.timeline() are those of the first cohort,
\* which every later one of that renderer shares.
SameTimeline(plan) == Timeline(service.active.plan) = Timeline(plan)

-----------------------------------------------------------------------------
(* RenderService                                                           *)

SubmitTarget(s, plan) ==
  [s EXCEPT !.target = plan,
            !.staged = IF @ # None /\ @.cohort.plan # plan THEN None ELSE @]

\* A candidate made for another loop is not armed under the present one.
WaitsForItsLoop(s, now) ==
  /\ now.rolling
  /\ s.active # None
  /\ now.loop # None
  /\ s.staged.loop # now.loop

GateFor(s, now) ==
  IF ~now.rolling THEN "Immediate"
  ELSE IF s.active = None \/ now.loop = None THEN "NextRenderQuantum"
  ELSE now.loop

ArmStaged(s, now) ==
  IF s.inflight # None \/ s.staged = None \/ WaitsForItsLoop(s, now) THEN s
  ELSE [s EXCEPT !.inflight = [cohort |-> s.staged.cohort,
                               gate |-> GateFor(s, now)],
                 !.staged = None]

\* RenderRuntime numbers the cohort, RenderService takes or refuses it.
StageCohort(s, plan, ready, now) ==
  LET cohort   == [plan |-> plan, sequence |-> s.sequence + 1, ready |-> ready]
      numbered == [s EXCEPT !.sequence = @ + 1]
  IN IF \/ plan # s.target
        \/ ~ready /\ s.active = None
        \/ s.staged # None /\ s.staged.cohort.sequence > cohort.sequence
     THEN numbered
     ELSE ArmStaged([numbered EXCEPT !.staged = [cohort |-> cohort,
                                                 loop |-> now.loop]], now)

RecordFailure(s) == [s EXCEPT !.staged = None]

\* poll_publication: the receipt is for the publication in flight, and names
\* the cohort the service retires.
Answers(s, envelope) ==
  /\ s.inflight # None
  /\ envelope.cohort = s.inflight.cohort
  /\ envelope.outcome = "Activated" => envelope.retired = s.active

\* Fault: a cancelled publication is acknowledged like an activated one.
AnsweredAlike(s, envelope) ==
  [s EXCEPT !.inflight = None, !.active = s.inflight.cohort]

Answered(s, envelope) ==
  IF s.inflight = None \/ envelope.cohort # s.inflight.cohort THEN s
  ELSE
  [s EXCEPT !.inflight = None,
            !.active = IF envelope.outcome = "Activated"
                       THEN s.inflight.cohort ELSE @]

-----------------------------------------------------------------------------
(* CohortRenderer, on the audio thread                                     *)

\* Fault: a stop or a jump does not release a ticket that waits for a boundary.
AcceptsItsOwn(gate, boundary) ==
  \/ gate = "Immediate"
  \/ gate = "NextRenderQuantum" /\ boundary = "RenderQuantum"
  \/ gate \in Loops /\ gate = boundary

Accepts(gate, boundary) ==
  \/ boundary \in {"Stopped", "Discontinuity"}
  \/ gate = "Immediate"
  \/ gate = "NextRenderQuantum" /\ boundary = "RenderQuantum"
  \/ gate \in Loops /\ gate = boundary

FlushReceipt(a) ==
  IF a.answer # None /\ a.receipt = None
  THEN [a EXCEPT !.receipt = a.answer, !.answer = None]
  ELSE a

PollTicket(a) ==
  LET flushed == FlushReceipt(a)
  IN IF flushed.ticket # None THEN flushed
     ELSE [flushed EXCEPT !.ticket = flushed.incoming, !.incoming = None]

\* Fault: the cohort being retired always becomes the fallback.
FallbackOfLast(a, next) == IF next.ready THEN None ELSE a.active

\* A partial cohort keeps a complete one under it.
FallbackUnder(a, next) ==
  IF next.ready THEN None
  ELSE IF a.active.ready THEN a.active ELSE a.fallback

Activated(a) ==
  FlushReceipt([a EXCEPT
    !.ticket = None,
    !.answer = [cohort |-> a.ticket.cohort, outcome |-> "Activated",
                retired |-> a.active],
    !.fallback = FallbackUnder(a, a.ticket.cohort),
    !.active = a.ticket.cohort])

Cancelled(a) ==
  FlushReceipt([a EXCEPT
    !.ticket = None,
    !.answer = [cohort |-> a.ticket.cohort, outcome |-> "Cancelled",
                retired |-> None]])

ActivateIf(a, boundary) ==
  LET polled == PollTicket(a)
  IN IF polled.ticket = None THEN polled
     ELSE IF polled.ticket.cohort.sequence <= polled.cancelThrough
          THEN Cancelled(polled)
     ELSE IF Accepts(polled.ticket.gate, boundary) THEN Activated(polled)
     ELSE polled

\* seek looks at the ticket it already holds: the jump from the end of that
\* ticket's loop to its start is a wrap, any other jump a discontinuity.
SeekBoundary(a, loop) ==
  IF a.ticket # None /\ a.ticket.gate = loop THEN loop ELSE "Discontinuity"

-----------------------------------------------------------------------------
(* ProjectAudioController                                                  *)

\* current_target_compiled
CurrentTargetCompiled(c, s) ==
  s.target = c.desired /\ c.compiled = c.desired

\* issue_render; only a render with a cohort to fall back on offers parts.
IssueRender(c, generation, restarts) ==
  [c EXCEPT !.desired = generation,
            !.restarts = restarts,
            !.inFlight = generation,
            !.progressive = IF attached THEN generation ELSE 0,
            !.failed = FALSE]

\* Fault: the limit is tested one restart late.
MayRestartOnceMore(c) == c.restarts <= RestartLimit

MayRestart(c) == c.restarts < RestartLimit

\* restart_target_if_idle, which follows the end of every render.
NeedsRestart(c, s) ==
  /\ c.inFlight = 0
  /\ c.desired # 0
  /\ ~CurrentTargetCompiled(c, s)
  /\ ~c.failed

\* The state after a render of `generation` ended and left c and s.
AfterRender(generation, c, s) ==
  LET restarts  == NeedsRestart(c, s) /\ MayRestart(c)
      exhausted == NeedsRestart(c, s) /\ ~MayRestart(c)
  IN /\ controller' = IF restarts THEN IssueRender(c, c.desired, c.restarts + 1)
                      ELSE IF exhausted THEN [c EXCEPT !.failed = TRUE]
                      ELSE c
     /\ service' = IF exhausted THEN RecordFailure(s) ELSE s
     /\ running' = (running \ {generation})
                   \cup (IF restarts THEN {c.desired} ELSE {})
     /\ offer' = (offer /\ ~restarts)
     /\ UNCHANGED offers

\* queue_action and arm_action: a ticket the service has just armed goes
\* into the mailbox, or waits in the controller while that is full.
Queue(c, a, before, after) ==
  IF after.inflight = before.inflight \/ after.inflight = None
  THEN <<c, a>>
  ELSE IF a.incoming = None
       THEN <<c, [a EXCEPT !.incoming = after.inflight]>>
       ELSE <<[c EXCEPT !.pending = after.inflight], a>>

-----------------------------------------------------------------------------
(* Renders: the session asks, jobs run and end                             *)

Init ==
  /\ published = 0
  /\ controller = NewController
  /\ service = NewService
  /\ attached = FALSE
  /\ running = {}
  /\ offer = FALSE
  /\ offers = 0
  /\ audio = NewRenderer(None)
  /\ session = [rolling |-> FALSE, loop |-> None]
  /\ playing = FALSE

\* request_project_audio: a new revision, or the last one again after the
\* controller that asked for it was lost with its host.  The job of an older
\* revision is told to stop and runs on for a while.
Request(generation) ==
  /\ \/ generation = published + 1
     \/ generation = published /\ controller.desired = 0
  /\ published' = generation
  /\ controller' = IssueRender(controller, generation, 0)
  /\ running' = running \cup {generation}
  /\ offer' = FALSE
  /\ UNCHANGED <<service, attached, offers, audio, transport>>

\* try_render_tiles: the job deposits what it has so far.  A job whose
\* timeline is not the renderer's renders whole and offers nothing; the
\* mailbox of an older job is out of the controller's reach.
Deposit ==
  /\ controller.inFlight # 0
  /\ controller.inFlight \in running
  /\ controller.progressive = controller.inFlight
  /\ SameTimeline(controller.inFlight)
  /\ offers < MaxOffers
  /\ offer' = TRUE
  /\ offers' = offers + 1
  /\ UNCHANGED <<published, controller, service, attached, running, audio,
                 transport>>

\* Fault: the mailbox of partial cohorts is kept when the render completes.
DeliveredPartsToo(c, compiled) ==
  [c EXCEPT !.inFlight = 0, !.restarts = 0, !.failed = FALSE,
            !.compiled = compiled]

\* complete_render: the render is accounted for and offers nothing more.
Delivered(c, compiled) ==
  [c EXCEPT !.inFlight = 0, !.restarts = 0, !.progressive = 0,
            !.failed = FALSE, !.compiled = compiled]

\* complete_render, for the renderer there is.  A publication of an older
\* plan is cancelled before the new cohort is staged.
Publish(generation) ==
  LET submitted == SubmitTarget(service, generation)
      staged    == StageCohort(submitted, generation, TRUE, session)
      obsolete  == /\ service.inflight # None
                   /\ service.inflight.cohort.plan # generation
      mailbox   == IF obsolete /\ service.inflight.cohort.sequence > audio.cancelThrough
                   THEN [audio EXCEPT !.cancelThrough = service.inflight.cohort.sequence]
                   ELSE audio
      settled   == Delivered(controller, generation)
      queued    == Queue(settled, mailbox, submitted, staged)
  IN /\ AfterRender(generation, queued[1], staged)
     /\ audio' = queued[2]
     /\ UNCHANGED <<attached, transport>>

\* bootstrap_renderer, replace_host: a fresh runtime opens a host with the
\* complete cohort, which is active from the start.  The timeline's own loop,
\* playhead and mode, or those of the host before, are then restored.
OpenHost(generation) ==
  LET stopped == [rolling |-> FALSE, loop |-> None]
      staged  == StageCohort(SubmitTarget(NewService, generation), generation,
                             TRUE, stopped)
      opened  == Answered(staged, [cohort |-> staged.inflight.cohort,
                                   outcome |-> "Activated", retired |-> None])
  IN /\ controller' = [Delivered(controller, generation) EXCEPT !.pending = None]
     /\ service' = opened
     /\ attached' = TRUE
     /\ audio' = NewRenderer(opened.active)
     /\ session' \in Transports
     /\ playing' = session'.rolling
     /\ running' = running \ {generation}
     /\ UNCHANGED <<offer, offers>>

\* The host cannot be opened: the controller starts over, the renderer that
\* was there plays on without it.
LoseHost(generation) ==
  /\ controller' = NewController
  /\ service' = NewService
  /\ attached' = FALSE
  /\ running' = running \ {generation}
  /\ offer' = FALSE
  /\ UNCHANGED <<offers, audio, transport>>

RenderFinishes(generation) ==
  /\ generation \in running
  /\ generation = controller.desired
  /\ IF attached /\ SameTimeline(generation)
     THEN Publish(generation)
     ELSE OpenHost(generation) \/ LoseHost(generation)
  /\ UNCHANGED published

\* complete_render with a rejected receipt and render_cancelled: the target
\* lost its render, which is asked for again.
RenderIsCancelled(generation) ==
  /\ generation \in running
  /\ generation = controller.inFlight
  /\ AfterRender(generation,
                 [controller EXCEPT !.inFlight = 0, !.progressive = 0], service)
  /\ UNCHANGED <<published, attached, audio, transport>>

\* fail_render, which records the failure against the service's target.
RenderFails(generation) ==
  /\ generation \in running
  /\ generation = controller.desired
  /\ AfterRender(generation, [controller EXCEPT !.inFlight = 0, !.failed = TRUE],
                 RecordFailure(service))
  /\ UNCHANGED <<published, attached, audio, transport>>

\* The end of a render nobody waits for any more changes nothing.
RenderIsSuperseded(generation) ==
  /\ generation \in running
  /\ generation # controller.desired
  /\ AfterRender(generation, controller, service)
  /\ UNCHANGED <<published, attached, audio, transport>>

-----------------------------------------------------------------------------
(* The controller's tick                                                   *)

\* observe
Observed == [session EXCEPT !.rolling = playing]

\* retry_pending
Retried(c, a) ==
  IF c.pending # None /\ a.incoming = None
  THEN <<[c EXCEPT !.pending = None], [a EXCEPT !.incoming = c.pending]>>
  ELSE <<c, a>>

\* drain_progressive_publication: what the running render has so far.
TakesOffer(c) == c.progressive # 0 /\ c.pending = None /\ offer

\* A receipt that is not the service's own is an error, which ends the tick.
Tick ==
  LET retried  == Retried(controller, audio)
      receipt  == audio.receipt
      drained  == [retried[2] EXCEPT !.receipt = None]
      answered == IF receipt = None THEN service ELSE Answered(service, receipt)
      goesOn   == receipt = None \/ Answers(service, receipt)
      takes    == goesOn /\ TakesOffer(retried[1])
      offered  == IF takes /\ SameTimeline(controller.progressive)
                  THEN StageCohort(SubmitTarget(answered, controller.progressive),
                                   controller.progressive, FALSE, Observed)
                  ELSE answered
      settled  == IF goesOn THEN ArmStaged(offered, Observed) ELSE answered
      queued   == Queue(retried[1], drained, answered, settled)
  IN /\ attached
     /\ service' = settled
     /\ controller' = queued[1]
     /\ audio' = queued[2]
     /\ offer' = (offer /\ ~takes)
     /\ session' = Observed
     /\ UNCHANGED <<published, attached, running, offers, playing>>

-----------------------------------------------------------------------------
(* Transport commands and the audio thread                                 *)

work == <<published, controller, service, attached, running, offer, offers>>

\* Pause is a Halt, Stop a Halt and a Seek, Play at the end a Seek and a Play.
Play ==
  /\ attached
  /\ session' = [session EXCEPT !.rolling = TRUE]
  /\ playing' = TRUE
  /\ UNCHANGED <<work, audio>>

Halt ==
  /\ attached
  /\ session' = [session EXCEPT !.rolling = FALSE]
  /\ playing' = FALSE
  /\ audio' = ActivateIf(audio, "Stopped")
  /\ UNCHANGED work

Seek ==
  /\ attached
  /\ audio' = ActivateIf(audio, "Discontinuity")
  /\ UNCHANGED <<work, session, playing>>

SetLoop(loop) ==
  /\ attached
  /\ session' = [session EXCEPT !.loop = loop]
  /\ UNCHANGED <<work, audio, playing>>

\* control_boundary while the transport does not play.
StoppedFrame ==
  /\ audio.active # None
  /\ ~playing
  /\ audio' = ActivateIf(audio, "Stopped")
  /\ UNCHANGED <<work, transport>>

\* control_boundary and render_interleaved while it plays.
PlayedFrame ==
  /\ playing
  /\ audio' = ActivateIf(audio, "RenderQuantum")
  /\ UNCHANGED <<work, transport>>

\* The cursor reaches the end of the loop and jumps to its start.
WrapLoop ==
  /\ playing
  /\ session.loop # None
  /\ audio' = ActivateIf(audio, SeekBoundary(audio, session.loop))
  /\ UNCHANGED <<work, transport>>

\* The cursor reaches the end of the timeline, also with a loop that is not
\* armed; the boundary that follows, a stopped frame or the seek of a Play from
\* the end, is part of the step.
PlayToEnd ==
  /\ playing
  /\ playing' = FALSE
  /\ audio' = ActivateIf(audio, "Stopped")
  /\ UNCHANGED <<work, session>>

-----------------------------------------------------------------------------

Next ==
  \/ \E generation \in Generations :
       \/ Request(generation)
       \/ RenderFinishes(generation)
       \/ RenderIsCancelled(generation)
       \/ RenderFails(generation)
       \/ RenderIsSuperseded(generation)
  \/ Deposit
  \/ Tick
  \/ Play \/ Halt \/ Seek
  \/ \E loop \in Loops \cup {None} : SetLoop(loop)
  \/ StoppedFrame \/ PlayedFrame \/ WrapLoop \/ PlayToEnd

Spec == Init /\ [][Next]_vars

\* The interface ticks, the audio callback runs, and while it plays it comes to the end of the loop or the timeline.
\* Nothing is assumed of the jobs and the musician.
Fairness ==
  /\ WF_vars(Tick)
  /\ WF_vars(StoppedFrame \/ WrapLoop \/ PlayToEnd)

FairSpec == Spec /\ Fairness

-----------------------------------------------------------------------------
(* Properties                                                              *)

\* The values the variables take.  A candidate is of the target's plan, and
\* a target is asked for again no more often than RENDER_RESTART_LIMIT.
TypeOK ==
  /\ published \in 0..MaxGenerations
  /\ controller \in Controllers
  /\ service \in Services
  /\ service.staged # None => service.staged.cohort.plan = service.target
  /\ audio \in Renderers
  /\ attached \in BOOLEAN /\ offer \in BOOLEAN /\ playing \in BOOLEAN
  /\ running \subseteq Generations
  /\ offers \in 0..MaxOffers
  /\ session \in Transports

\* A publication is in exactly one of the places between the two threads.
OnItsWay == <<controller.pending, audio.incoming, audio.ticket, audio.answer,
              audio.receipt>>
Carried == {i \in DOMAIN OnItsWay : OnItsWay[i] # None}

\* What poll_publication relies on (render_runtime.rs:867): the control and
\* the audio thread never disagree about what is on its way.  The service's
\* publication in flight is in one place and in one only, nothing else is;
\* and the service's active cohort is the renderer's, or the one the receipt
\* that is under way says was retired.
ServiceFollowsTheRenderer ==
  attached =>
    /\ Cardinality(Carried) = IF service.inflight = None THEN 0 ELSE 1
    /\ \A i \in Carried : OnItsWay[i].cohort = service.inflight.cohort
    /\ \/ service.active = audio.active
       \/ \E envelope \in {audio.answer, audio.receipt} \ {None} :
            /\ envelope.outcome = "Activated"
            /\ envelope.retired = service.active
            /\ envelope.cohort = audio.active

\* "Neither answer is silence" (select_product): a renderer that plays a
\* partial cohort has a complete one of the same timeline under it, however
\* many partial cohorts came in succession.
EveryFrameIsCovered ==
  audio.active # None /\ ~audio.active.ready =>
    /\ audio.fallback # None
    /\ audio.fallback.ready
    /\ Timeline(audio.fallback.plan) = Timeline(audio.active.plan)

\* The exchange of cohorts is atomic, goes forward only, and waits for the
\* control thread to have learnt of the last one.
Master == INSTANCE AudibleMaster
            WITH heard <- audio.active, known <- service.active
PublicationIsAtomic == Master!Spec

\* A complete render of the desired revision on its way to the renderer.
Rendered(generation) ==
  \/ /\ service.staged # None
     /\ service.staged.cohort.plan = generation
     /\ service.staged.cohort.ready
  \/ /\ service.inflight # None
     /\ service.inflight.cohort.plan = generation
     /\ service.inflight.cohort.ready

Heard(generation) ==
  audio.active # None /\ audio.active.plan = generation /\ audio.active.ready

\* A finished render is heard in the end, unless another revision is asked
\* for, or it was made for another loop than the one that plays, for which it
\* waits (arm_staged).
FinishedRendersAreHeard ==
  \A generation \in Generations :
    Rendered(generation) ~>
      \/ Heard(generation)
      \/ controller.desired # generation
      \/ service.staged # None /\ WaitsForItsLoop(service, session)

\* A partial cohort is of use while its render goes on: "a deposit left in
\* it describes tiles nobody will finish" (render_cancelled).
PartsBelongToARunningRender ==
  [][\A generation \in Generations :
       (/\ service'.sequence > service.sequence
        /\ controller.progressive = generation
        /\ offer /\ ~offer')
       => controller.inFlight = generation]_vars
=============================================================================
