----------------------- MODULE RenderPublicationProofs -----------------------
(***************************************************************************)
(* Why the control thread and the audio thread never disagree about the    *)
(* publication between them, why every frame has a complete cohort under   *)
(* it, and why the exchange of cohorts is the atomic one of AudibleMaster, *)
(* for any number of revisions, loops, restarts and partial cohorts.       *)
(***************************************************************************)
EXTENDS RenderPublication, FiniteSetTheorems, TLAPS

-----------------------------------------------------------------------------
(* The inductive invariant                                                 *)

\* What is asked for: the renders, and how far the service's target and its
\* numbering have got.  A deposit not yet taken has its number reserved.
AskedFor(c, s, r, o, n) ==
  /\ c.desired \in {0, published}
  /\ c.inFlight \in {0, c.desired}
  /\ c.progressive \in {0, c.desired}
  /\ c.desired \in r => c.inFlight = c.desired
  /\ c.compiled <= c.desired
  /\ c.inFlight # 0 \/ c.progressive # 0 => c.compiled < c.desired
  /\ s.target <= c.desired
  /\ c.compiled = c.desired => s.target = c.desired
  /\ s.sequence + (IF o THEN 1 ELSE 0) <= c.compiled + n
  /\ o => n > 0

\* A cohort that may replace another in the same renderer.
Follows(next, last) ==
  /\ next.sequence > last.sequence
  /\ next.plan >= last.plan
  /\ next.plan = last.plan /\ last.ready => next.ready
  /\ Timeline(next.plan) = Timeline(last.plan)

\* A cohort the service holds was numbered by it, is of its target or of an
\* earlier one, and is a part unless its revision has been completed.
Numbered(cohort, c, s) ==
  /\ cohort.sequence <= s.sequence
  /\ cohort.plan <= s.target
  /\ cohort.ready => cohort.plan <= c.compiled

\* The service's cohorts, each of which may follow the ones before it.
Served(c, s) ==
  /\ ~attached => s = NewService /\ c.progressive = 0 /\ c.compiled = 0
  /\ attached => s.active # None /\ Numbered(s.active, c, s)
  /\ s.inflight # None => /\ Numbered(s.inflight.cohort, c, s)
                          /\ Follows(s.inflight.cohort, s.active)
  /\ s.staged # None => /\ Numbered(s.staged.cohort, c, s)
                        /\ s.staged.cohort.plan = s.target
                        /\ Follows(s.staged.cohort, s.active)
                        /\ s.inflight # None =>
                             Follows(s.staged.cohort, s.inflight.cohort)

\* The ticket a renderer holds or is about to take from the mailbox.
InHand(a) == IF a.ticket # None THEN a.ticket ELSE a.incoming

\* One publication at most is with the renderer, an answer is never held back.
Lone(a) ==
  /\ a.answer = None
  /\ a.ticket # None => a.incoming = None /\ a.receipt = None
  /\ a.incoming # None => a.receipt = None

\* A partial cohort has a complete one of its timeline under it.
Covered(a) ==
  a.active # None /\ ~a.active.ready =>
    /\ a.fallback # None
    /\ a.fallback.ready
    /\ Timeline(a.fallback.plan) = Timeline(a.active.plan)

\* What the renderer holds may follow what it plays.
Rendering(a) ==
  /\ Lone(a)
  /\ Covered(a)
  /\ a.active # None => a.active.plan <= published
  /\ InHand(a) # None => /\ a.active # None
                         /\ Follows(InHand(a).cohort, a.active)
                         /\ InHand(a).cohort.plan <= published

\* The publication in flight is the renderer's ticket, or the receipt of it.
AgreedOn(s, a) ==
  /\ a.active # None
  /\ s.inflight = None => /\ InHand(a) = None /\ a.receipt = None
                          /\ a.active = s.active
  /\ s.inflight # None =>
       \/ InHand(a) = s.inflight /\ a.active = s.active
       \/ /\ InHand(a) = None /\ a.receipt # None
          /\ a.receipt.cohort = s.inflight.cohort
          /\ \/ /\ a.receipt.outcome = "Activated"
                /\ a.receipt.retired = s.active
                /\ a.active = s.inflight.cohort
             \/ /\ a.receipt.outcome = "Cancelled"
                /\ a.active = s.active

\* The controller never has to keep a publication back.
Agreed ==
  /\ controller.pending = None
  /\ attached => AgreedOn(service, audio)

Asking == AskedFor(controller, service, running, offer, offers)
Serving == Served(controller, service)

Inv == TypeOK /\ Asking /\ Serving /\ Rendering(audio) /\ Agreed

-----------------------------------------------------------------------------
(* The operations of the service                                           *)

\* submit_target drops a candidate of another plan and keeps the rest.
LEMMA SubmitTargetFields ==
  ASSUME NEW s \in Services, NEW plan \in Generations,
         s.staged # None => s.staged.cohort.plan = s.target
  PROVE  LET d == SubmitTarget(s, plan) IN
         /\ d \in Services /\ d.target = plan
         /\ d.active = s.active /\ d.inflight = s.inflight
         /\ d.sequence = s.sequence
         /\ d.staged \in {None, s.staged}
         /\ d.staged # None => d.staged.cohort.plan = plan
<1> DEFINE kept == IF s.staged # None /\ s.staged.cohort.plan # plan
                   THEN None ELSE s.staged
           d == SubmitTarget(s, plan)
<1>1. d = [s EXCEPT !.target = plan, !.staged = kept]
  BY DEF SubmitTarget, Services
<1>2. kept \in Candidates \cup {None} /\ kept \in {None, s.staged}
      /\ (kept # None => kept.cohort.plan = plan)
  BY DEF Services
<1>3. plan \in 0..MaxGenerations
  BY RenderAssumption DEF Generations
<1> HIDE DEF kept, d
<1>4. /\ d \in Services /\ d.target = plan /\ d.staged = kept
      /\ d.active = s.active /\ d.inflight = s.inflight
      /\ d.sequence = s.sequence
  BY <1>1, <1>2, <1>3 DEF Services
<1> QED BY <1>2, <1>4 DEF d

\* record_failure drops the candidate and keeps the rest.
LEMMA RecordFailureFields ==
  ASSUME NEW s \in Services
  PROVE  LET d == RecordFailure(s) IN
         /\ d \in Services /\ d.target = s.target /\ d.active = s.active
         /\ d.staged = None /\ d.inflight = s.inflight /\ d.sequence = s.sequence
BY DEF RecordFailure, Services

\* arm_staged leaves the service alone or makes the candidate a ticket.
LEMMA ArmStagedFields ==
  ASSUME NEW s \in Services, NEW now \in Transports
  PROVE  LET d == ArmStaged(s, now) IN
         \/ d = s
         \/ /\ d \in Services /\ d.target = s.target /\ d.active = s.active
            /\ d.sequence = s.sequence
            /\ s.inflight = None /\ s.staged # None /\ d.staged = None
            /\ d.inflight # None /\ d.inflight \in Tickets
            /\ d.inflight.cohort = s.staged.cohort
<1> DEFINE t == [cohort |-> s.staged.cohort, gate |-> GateFor(s, now)]
           d == ArmStaged(s, now)
<1>1. CASE s.inflight # None \/ s.staged = None \/ WaitsForItsLoop(s, now)
  BY <1>1 DEF ArmStaged
<1>2. CASE ~(s.inflight # None \/ s.staged = None \/ WaitsForItsLoop(s, now))
  <2>1. GateFor(s, now) \in Gates
    BY DEF GateFor, Gates, Transports
  <2>2. s.staged \in Candidates
    BY <1>2 DEF Services
  <2>3. t \in Tickets /\ t.cohort = s.staged.cohort
    BY <2>1, <2>2 DEF Candidates, Tickets
  <2>4. t # None
    BY <2>3, NoneAssumption
  <2>5. d = [s EXCEPT !.inflight = t, !.staged = None]
    BY <1>2 DEF ArmStaged
  <2> HIDE DEF t, d
  <2>6. /\ d \in Services /\ d.target = s.target /\ d.active = s.active
        /\ d.sequence = s.sequence
        /\ d.staged = None /\ d.inflight = t
    BY <2>3, <2>5 DEF Services
  <2> QED BY <1>2, <2>3, <2>4, <2>6 DEF d
<1> QED BY <1>1, <1>2

\* stage_cohort numbers the cohort; the candidate it makes of it is kept, armed
\* or refused, and no other one is.
LEMMA StageCohortFields ==
  ASSUME NEW s \in Services, NEW plan \in Generations, NEW ready \in BOOLEAN,
         NEW now \in Transports, s.sequence + 1 \in 1..MaxSequence
  PROVE  LET d == StageCohort(s, plan, ready, now)
             new == [plan |-> plan, sequence |-> s.sequence + 1, ready |-> ready]
         IN /\ d \in Services /\ new \in Cohorts
            /\ d.target = s.target /\ d.active = s.active
            /\ d.sequence = s.sequence + 1
            /\ \/ d.staged = s.staged /\ d.inflight = s.inflight
               \/ /\ plan = s.target /\ (~ready => s.active # None)
                  /\ d.staged # None /\ d.staged.cohort = new
                  /\ d.inflight = s.inflight
               \/ /\ plan = s.target /\ (~ready => s.active # None)
                  /\ s.inflight = None /\ d.staged = None
                  /\ d.inflight # None /\ d.inflight \in Tickets
                  /\ d.inflight.cohort = new
<1> DEFINE new == [plan |-> plan, sequence |-> s.sequence + 1, ready |-> ready]
           candidate == [cohort |-> new, loop |-> now.loop]
           n == [s EXCEPT !.sequence = @ + 1]
           k == [n EXCEPT !.staged = candidate]
           d == StageCohort(s, plan, ready, now)
<1>1. new \in Cohorts
  BY DEF Cohorts
<1>2. candidate \in Candidates /\ candidate.cohort = new
  BY <1>1 DEF Candidates, Transports
<1>3. candidate # None
  BY <1>2, NoneAssumption
<1>4. d = n \/ (/\ plan = s.target /\ (~ready => s.active # None)
               /\ d = ArmStaged(k, now))
  BY DEF StageCohort
<1> HIDE DEF new, candidate
<1>5. /\ n \in Services /\ n.target = s.target /\ n.active = s.active
      /\ n.staged = s.staged /\ n.inflight = s.inflight
      /\ n.sequence = s.sequence + 1
  BY DEF Services
<1> HIDE DEF n
<1>6. /\ k \in Services /\ k.target = n.target /\ k.active = n.active
      /\ k.staged = candidate /\ k.inflight = n.inflight
      /\ k.sequence = n.sequence
  BY <1>2, <1>5 DEF Services
<1> HIDE DEF k, d
<1>7. CASE d = n
  BY <1>1, <1>5, <1>7 DEF d, new
<1>8. CASE plan = s.target /\ (~ready => s.active # None) /\ d = ArmStaged(k, now)
  <2>1. \/ d = k
        \/ /\ d \in Services /\ d.target = k.target /\ d.active = k.active
           /\ d.sequence = k.sequence
           /\ k.inflight = None /\ k.staged # None /\ d.staged = None
           /\ d.inflight # None /\ d.inflight \in Tickets
           /\ d.inflight.cohort = k.staged.cohort
    BY <1>6, <1>8, ArmStagedFields
  <2> QED BY <1>1, <1>2, <1>3, <1>5, <1>6, <1>8, <2>1 DEF d, new
<1> QED BY <1>4, <1>7, <1>8

\* acknowledge_publication and cancel_publication, for the publication in
\* flight and for any other receipt.
LEMMA AnsweredFields ==
  ASSUME NEW s \in Services, NEW envelope
  PROVE  LET d == Answered(s, envelope) IN
         \/ d = s /\ (s.inflight = None \/ envelope.cohort # s.inflight.cohort)
         \/ /\ s.inflight # None /\ envelope.cohort = s.inflight.cohort
            /\ d \in Services /\ d.target = s.target /\ d.staged = s.staged
            /\ d.inflight = None /\ d.sequence = s.sequence
            /\ d.active = IF envelope.outcome = "Activated"
                          THEN s.inflight.cohort ELSE s.active
<1> DEFINE active == IF envelope.outcome = "Activated"
                     THEN s.inflight.cohort ELSE s.active
           d == Answered(s, envelope)
<1>1. CASE s.inflight = None \/ envelope.cohort # s.inflight.cohort
  BY <1>1 DEF Answered
<1>2. CASE s.inflight # None /\ envelope.cohort = s.inflight.cohort
  <2>1. d = [s EXCEPT !.inflight = None, !.active = active]
    BY <1>2 DEF Answered, Services
  <2>2. active \in Cohorts \cup {None}
    BY <1>2 DEF Services, Tickets
  <2> HIDE DEF active, d
  <2>3. /\ d \in Services /\ d.target = s.target /\ d.staged = s.staged
        /\ d.inflight = None /\ d.sequence = s.sequence /\ d.active = active
    BY <2>1, <2>2 DEF Services
  <2> QED BY <1>2, <2>3 DEF d, active
<1> QED BY <1>1, <1>2

-----------------------------------------------------------------------------
(* The operations of the renderer                                          *)

\* flush_receipt hands the answer over when the receipt before was collected.
LEMMA FlushReceiptFields ==
  ASSUME NEW a \in Renderers
  PROVE  LET d == FlushReceipt(a) IN
         /\ d \in Renderers
         /\ d.active = a.active /\ d.fallback = a.fallback
         /\ d.ticket = a.ticket /\ d.incoming = a.incoming
         /\ d.cancelThrough = a.cancelThrough
         /\ a.answer = None => d = a
         /\ a.receipt = None => d.answer = None /\ d.receipt = a.answer
BY DEF FlushReceipt, Renderers

\* poll_ticket takes the ticket from the mailbox when the renderer has none.
LEMMA PollTicketFields ==
  ASSUME NEW a \in Renderers, Lone(a)
  PROVE  LET d == PollTicket(a) IN
         /\ d \in Renderers
         /\ d.active = a.active /\ d.fallback = a.fallback
         /\ d.ticket = InHand(a) /\ d.incoming = None
         /\ d.answer = None /\ d.receipt = a.receipt
         /\ d.cancelThrough = a.cancelThrough
<1>1. FlushReceipt(a) = a
  BY DEF FlushReceipt, Lone
<1> QED BY <1>1 DEF PollTicket, InHand, Lone, Renderers

\* What a boundary does to the renderer: it takes the ticket in hand, and then
\* keeps it, answers it as cancelled, or changes over to its cohort.
Kept(a, d) ==
  /\ d.active = a.active /\ d.fallback = a.fallback
  /\ d.ticket = InHand(a) /\ d.incoming = None
  /\ d.answer = None /\ d.receipt = a.receipt

GaveBack(a, d) ==
  /\ InHand(a) # None
  /\ d.active = a.active /\ d.fallback = a.fallback
  /\ d.ticket = None /\ d.incoming = None /\ d.answer = None
  /\ d.receipt \in Envelopes
  /\ d.receipt.cohort = InHand(a).cohort
  /\ d.receipt.outcome = "Cancelled"

ChangedOver(a, d) ==
  /\ InHand(a) # None
  /\ d.active = InHand(a).cohort
  /\ d.fallback = FallbackUnder(a, InHand(a).cohort)
  /\ d.ticket = None /\ d.incoming = None /\ d.answer = None
  /\ d.receipt \in Envelopes
  /\ d.receipt.cohort = InHand(a).cohort
  /\ d.receipt.outcome = "Activated"
  /\ d.receipt.retired = a.active

\* activate_if does one of the three, whatever the boundary.
LEMMA ActivateIfFields ==
  ASSUME NEW a \in Renderers, Lone(a), NEW boundary
  PROVE  LET d == ActivateIf(a, boundary) IN
         /\ d \in Renderers
         /\ Kept(a, d) \/ GaveBack(a, d) \/ ChangedOver(a, d)
<1> DEFINE p == PollTicket(a)
           d == ActivateIf(a, boundary)
<1>1. /\ p \in Renderers
      /\ p.active = a.active /\ p.fallback = a.fallback
      /\ p.ticket = InHand(a) /\ p.incoming = None
      /\ p.answer = None /\ p.receipt = a.receipt
      /\ p.cancelThrough = a.cancelThrough
  BY PollTicketFields
<1>2. d = p \/ (p.ticket # None /\ (d = Cancelled(p) \/ d = Activated(p)))
  BY DEF ActivateIf
<1> HIDE DEF p, d
<1>3. CASE d = p
  BY <1>1, <1>3 DEF Kept, d
<1>4. ASSUME p.ticket # None
      PROVE  /\ p.ticket \in Tickets /\ p.ticket.cohort \in Cohorts
             /\ p.receipt = None
  BY <1>1, <1>4 DEF Renderers, Tickets, Lone, InHand
<1>5. CASE p.ticket # None /\ d = Cancelled(p)
  <2> DEFINE envelope == [cohort |-> p.ticket.cohort, outcome |-> "Cancelled",
                          retired |-> None]
             e == [p EXCEPT !.ticket = None, !.answer = envelope]
  <2>1. envelope \in Envelopes
    BY <1>4, <1>5 DEF Envelopes
  <2>2. d = FlushReceipt(e) /\ envelope.cohort = p.ticket.cohort
        /\ envelope.outcome = "Cancelled"
    BY <1>5 DEF Cancelled
  <2> HIDE DEF envelope
  <2>3. /\ e \in Renderers /\ e.active = p.active /\ e.fallback = p.fallback
        /\ e.ticket = None /\ e.incoming = None
        /\ e.answer = envelope /\ e.receipt = None
    BY <1>1, <1>4, <1>5, <2>1 DEF Renderers
  <2> HIDE DEF e
  <2>4. /\ d \in Renderers /\ d.active = e.active /\ d.fallback = e.fallback
        /\ d.ticket = e.ticket /\ d.incoming = e.incoming
        /\ d.answer = None /\ d.receipt = e.answer
    BY <2>2, <2>3, FlushReceiptFields
  <2> QED BY <1>1, <1>5, <2>1, <2>2, <2>3, <2>4 DEF GaveBack, d
<1>6. CASE p.ticket # None /\ d = Activated(p)
  <2> DEFINE envelope == [cohort |-> p.ticket.cohort, outcome |-> "Activated",
                          retired |-> p.active]
             fallback == FallbackUnder(p, p.ticket.cohort)
             active == p.ticket.cohort
             e == [p EXCEPT !.ticket = None, !.answer = envelope,
                            !.fallback = fallback, !.active = active]
  <2>1. envelope \in Envelopes
    BY <1>1, <1>4, <1>6 DEF Envelopes, Renderers
  <2>2. /\ d = FlushReceipt(e) /\ envelope.cohort = p.ticket.cohort
        /\ envelope.outcome = "Activated" /\ envelope.retired = p.active
    BY <1>6 DEF Activated
  <2>3. fallback \in Cohorts \cup {None}
    BY <1>1 DEF FallbackUnder, Renderers
  <2>4. fallback = FallbackUnder(a, p.ticket.cohort)
    BY <1>1 DEF FallbackUnder
  <2>5. active \in Cohorts
    BY <1>4, <1>6
  <2> HIDE DEF envelope, fallback, active
  <2>6. /\ e \in Renderers /\ e.active = active /\ e.fallback = fallback
        /\ e.ticket = None /\ e.incoming = None
        /\ e.answer = envelope /\ e.receipt = None
    BY <1>1, <1>4, <1>6, <2>1, <2>3, <2>5 DEF Renderers
  <2> HIDE DEF e
  <2>7. /\ d \in Renderers /\ d.active = e.active /\ d.fallback = e.fallback
        /\ d.ticket = e.ticket /\ d.incoming = e.incoming
        /\ d.answer = None /\ d.receipt = e.answer
    BY <2>2, <2>6, FlushReceiptFields
  <2> QED BY <1>1, <1>6, <2>1, <2>2, <2>4, <2>6, <2>7 DEF ChangedOver, d, active
<1> QED BY <1>2, <1>3, <1>5, <1>6

-----------------------------------------------------------------------------
(* The audio thread's steps                                                *)

\* Changing over to a cohort that may follow keeps every frame covered: a part
\* gets the complete cohort of its timeline under it, the one that played or
\* the one that was already under that.
LEMMA ChangedOverCovered ==
  ASSUME NEW a \in Renderers, NEW d \in Renderers, ChangedOver(a, d), Covered(a),
         a.active # None, Follows(InHand(a).cohort, a.active)
  PROVE  Covered(d)
<1>1. /\ d.active = InHand(a).cohort
      /\ d.fallback = IF InHand(a).cohort.ready THEN None
                      ELSE IF a.active.ready THEN a.active ELSE a.fallback
      /\ Timeline(d.active.plan) = Timeline(a.active.plan)
  BY DEF ChangedOver, FallbackUnder, Follows
<1>2. CASE d.active.ready
  BY <1>2 DEF Covered
<1>3. CASE ~d.active.ready /\ a.active.ready
  BY <1>1, <1>3 DEF Covered
<1>4. CASE ~d.active.ready /\ ~a.active.ready
  BY <1>1, <1>4 DEF Covered
<1> QED BY <1>2, <1>3, <1>4

\* A boundary keeps what the renderer holds in order.
LEMMA BoundaryRenders ==
  ASSUME NEW a \in Renderers, Rendering(a), NEW boundary
  PROVE  Rendering(ActivateIf(a, boundary))
<1> DEFINE d == ActivateIf(a, boundary)
<1>1. d \in Renderers /\ (Kept(a, d) \/ GaveBack(a, d) \/ ChangedOver(a, d))
  BY ActivateIfFields DEF Rendering
<1> HIDE DEF d
<1>2. CASE Kept(a, d)
  <2>1. Lone(d) /\ InHand(d) = InHand(a)
    BY <1>2 DEF Kept, Lone, InHand, Rendering
  <2>2. Covered(d)
    BY <1>2 DEF Kept, Covered, Rendering
  <2> QED BY <1>2, <2>1, <2>2 DEF Rendering, Kept, d
<1>3. CASE GaveBack(a, d)
  <2>1. Lone(d) /\ InHand(d) = None
    BY <1>3 DEF GaveBack, Lone, InHand
  <2>2. Covered(d)
    BY <1>3 DEF GaveBack, Covered, Rendering
  <2> QED BY <1>3, <2>1, <2>2 DEF Rendering, GaveBack, d
<1>4. CASE ChangedOver(a, d)
  <2>1. Lone(d) /\ InHand(d) = None
    BY <1>4 DEF ChangedOver, Lone, InHand
  <2>2. InHand(a) # None
    BY <1>4 DEF ChangedOver
  <2>3. Covered(d)
    BY <1>1, <1>4, <2>2, ChangedOverCovered DEF Rendering
  <2>4. d.active.plan <= published
    BY <1>4, <2>2 DEF Rendering, ChangedOver
  <2> QED BY <2>1, <2>3, <2>4 DEF Rendering, d
<1> QED BY <1>1, <1>2, <1>3, <1>4

\* A boundary keeps the two threads agreed, whether it takes the ticket, gives
\* it back or changes over to it.
LEMMA BoundaryAgrees ==
  ASSUME Inv, NEW boundary, audio' = ActivateIf(audio, boundary), UNCHANGED work
  PROVE  Agreed'
<1>1. /\ audio' \in Renderers
      /\ \/ Kept(audio, audio') \/ GaveBack(audio, audio')
         \/ ChangedOver(audio, audio')
  BY ActivateIfFields DEF Inv, TypeOK, Rendering
<1>2. /\ service' = service /\ attached' = attached /\ controller' = controller
  BY DEF work
<1>3. CASE Kept(audio, audio')
  <2>1. /\ InHand(audio') = InHand(audio) /\ audio'.receipt = audio.receipt
        /\ audio'.active = audio.active
    BY <1>3 DEF Kept, InHand
  <2> QED BY <1>2, <2>1 DEF Agreed, AgreedOn, Inv
<1>4. CASE GaveBack(audio, audio')
  <2>1. /\ InHand(audio) # None /\ InHand(audio') = None
        /\ audio'.receipt # None /\ audio'.receipt.cohort = InHand(audio).cohort
        /\ audio'.receipt.outcome = "Cancelled"
        /\ audio'.active = audio.active
    BY <1>4, NoneAssumption DEF GaveBack, InHand
  <2> QED BY <1>2, <2>1 DEF Agreed, AgreedOn, Inv
<1>5. CASE ChangedOver(audio, audio')
  <2>1. /\ InHand(audio) # None /\ InHand(audio') = None
        /\ audio'.receipt # None /\ audio'.receipt.cohort = InHand(audio).cohort
        /\ audio'.receipt.outcome = "Activated"
        /\ audio'.receipt.retired = audio.active
        /\ audio'.active = InHand(audio).cohort
    BY <1>5, NoneAssumption DEF ChangedOver, InHand
  <2>2. audio'.active # None
    BY <1>1, <2>1, NoneAssumption DEF Inv, TypeOK, Renderers, Tickets, InHand
  <2> QED BY <1>2, <2>1, <2>2 DEF Agreed, AgreedOn, Inv
<1> QED BY <1>1, <1>3, <1>4, <1>5

\* A step of the audio thread preserves the invariant.
LEMMA BoundaryKeeps ==
  ASSUME Inv, NEW boundary, audio' = ActivateIf(audio, boundary), UNCHANGED work,
         session' \in Transports, playing' \in BOOLEAN
  PROVE  Inv'
<1>1. Agreed'
  BY BoundaryAgrees
<1>2. /\ published' = published /\ controller' = controller /\ service' = service
      /\ attached' = attached /\ running' = running /\ offer' = offer
      /\ offers' = offers
  BY DEF work
<1>3. audio' \in Renderers
  BY ActivateIfFields DEF Inv, TypeOK, Rendering
<1>4. Rendering(audio)'
  BY <1>2, BoundaryRenders DEF Inv, TypeOK, Rendering
<1>5. TypeOK'
  BY <1>2, <1>3 DEF Inv, TypeOK
<1>6. Asking' /\ Serving'
  BY <1>2 DEF Inv, Asking, AskedFor, Serving, Served, Numbered
<1> QED BY <1>1, <1>4, <1>5, <1>6 DEF Inv

-----------------------------------------------------------------------------
(* The control thread's steps                                              *)

\* A render is issued again for the revision that is desired.
LEMMA IssueRenderFields ==
  ASSUME NEW c \in Controllers, NEW generation \in Generations,
         NEW restarts \in 0..RestartLimit, attached \in BOOLEAN
  PROVE  LET d == IssueRender(c, generation, restarts) IN
         /\ d \in Controllers
         /\ d.desired = generation /\ d.inFlight = generation
         /\ d.progressive = IF attached THEN generation ELSE 0
         /\ d.compiled = c.compiled /\ d.pending = c.pending
<1> DEFINE parts == IF attached THEN generation ELSE 0
           d == IssueRender(c, generation, restarts)
<1>1. generation \in 0..MaxGenerations /\ parts \in 0..MaxGenerations
  BY RenderAssumption DEF Generations
<1>2. d = [c EXCEPT !.desired = generation, !.restarts = restarts,
                    !.inFlight = generation, !.progressive = parts,
                    !.failed = FALSE]
  BY DEF IssueRender
<1> HIDE DEF d, parts
<1>3. /\ d \in Controllers
      /\ d.desired = generation /\ d.inFlight = generation
      /\ d.progressive = parts
      /\ d.compiled = c.compiled /\ d.pending = c.pending
  BY <1>1, <1>2 DEF Controllers
<1> QED BY <1>3 DEF d, parts

\* Dropping the candidate leaves the service in order.
LEMMA RecordFailureServes ==
  ASSUME NEW c, NEW s \in Services, Served(c, s)
  PROVE  Served(c, RecordFailure(s))
<1> DEFINE d == RecordFailure(s)
<1>1. /\ d \in Services /\ d.target = s.target /\ d.active = s.active
      /\ d.staged = None /\ d.inflight = s.inflight /\ d.sequence = s.sequence
  BY RecordFailureFields
<1>2. s = NewService => d = NewService
  BY DEF RecordFailure, NewService
<1> HIDE DEF d
<1> QED BY <1>1, <1>2 DEF Served, Numbered, d

\* What may be done at the end of any render: it is issued again while the
\* limit allows, given up with its candidate after that.
LEMMA AfterRenderKeeps ==
  ASSUME NEW generation, NEW c \in Controllers, NEW s \in Services,
         AfterRender(generation, c, s), TypeOK,
         AskedFor(c, s, running \ {generation}, offer, offers), Served(c, s)
  PROVE  /\ controller' \in Controllers /\ service' \in Services
         /\ running' \subseteq Generations /\ offer' \in BOOLEAN /\ offers' = offers
         /\ AskedFor(controller', service', running', offer', offers')
         /\ Served(controller', service')
         /\ controller'.pending = c.pending
         /\ service'.active = s.active /\ service'.inflight = s.inflight
<1>1. /\ offers' = offers /\ offers \in Nat /\ offer \in BOOLEAN
      /\ attached \in BOOLEAN
  BY RenderAssumption DEF AfterRender, TypeOK
<1>2. CASE NeedsRestart(c, s) /\ MayRestart(c)
  <2> DEFINE d == IssueRender(c, c.desired, c.restarts + 1)
  <2>1. controller' = d /\ service' = s /\ offer' = FALSE
        /\ running' = (running \ {generation}) \cup {c.desired}
    BY <1>1, <1>2 DEF AfterRender
  <2>2. c.desired \in Generations
    BY <1>2, RenderAssumption DEF NeedsRestart, Controllers, Generations
  <2>3. c.restarts + 1 \in 0..RestartLimit
    BY <1>2, RenderAssumption DEF MayRestart, Controllers
  <2>4. /\ d \in Controllers /\ d.desired = c.desired /\ d.inFlight = c.desired
        /\ d.progressive = IF attached THEN c.desired ELSE 0
        /\ d.compiled = c.compiled /\ d.pending = c.pending
    BY <1>1, <2>2, <2>3, IssueRenderFields
  <2>5. c.compiled # c.desired
    BY <1>2 DEF NeedsRestart, CurrentTargetCompiled, AskedFor
  <2>6. c.compiled \in Nat /\ c.desired \in Nat /\ s.sequence \in Nat
    BY DEF Controllers, Services
  <2> HIDE DEF d
  <2>7. AskedFor(d, s, running', FALSE, offers)
    BY <1>1, <2>1, <2>4, <2>5, <2>6 DEF AskedFor
  <2>8. Served(d, s)
    BY <2>4 DEF Served, Numbered
  <2>9. running' \subseteq Generations
    BY <2>1, <2>2 DEF TypeOK
  <2> QED BY <1>1, <2>1, <2>4, <2>7, <2>8, <2>9
<1>3. CASE NeedsRestart(c, s) /\ ~MayRestart(c)
  <2> DEFINE d == [c EXCEPT !.failed = TRUE]
             e == RecordFailure(s)
  <2>1. /\ controller' = d /\ service' = e /\ offer' = offer
        /\ running' = running \ {generation}
    BY <1>1, <1>3 DEF AfterRender
  <2>2. /\ d \in Controllers /\ d.desired = c.desired /\ d.inFlight = c.inFlight
        /\ d.progressive = c.progressive /\ d.compiled = c.compiled
        /\ d.pending = c.pending
    BY DEF Controllers
  <2>3. /\ e \in Services /\ e.target = s.target /\ e.active = s.active
        /\ e.inflight = s.inflight /\ e.sequence = s.sequence
    BY RecordFailureFields
  <2>4. Served(c, e)
    BY RecordFailureServes
  <2> HIDE DEF d, e
  <2>5. AskedFor(d, e, running', offer, offers)
    BY <2>1, <2>2, <2>3 DEF AskedFor
  <2>6. Served(d, e)
    BY <2>2, <2>4 DEF Served, Numbered
  <2> QED BY <1>1, <2>1, <2>2, <2>3, <2>5, <2>6 DEF TypeOK
<1>4. CASE ~NeedsRestart(c, s)
  <2>1. /\ controller' = c /\ service' = s /\ offer' = offer
        /\ running' = running \ {generation}
    BY <1>1, <1>4 DEF AfterRender
  <2> QED BY <1>1, <2>1 DEF TypeOK
<1> QED BY <1>2, <1>3, <1>4

\* A new target keeps the candidate only if it is of that target.
LEMMA SubmitTargetServes ==
  ASSUME NEW c, NEW s \in Services, NEW plan \in Generations,
         attached, Served(c, s), s.target <= plan
  PROVE  LET d == SubmitTarget(s, plan) IN
         /\ d \in Services /\ d.target = plan /\ Served(c, d)
         /\ d.active = s.active /\ d.inflight = s.inflight
         /\ d.sequence = s.sequence
<1> DEFINE d == SubmitTarget(s, plan)
<1>1. /\ d \in Services /\ d.target = plan
      /\ d.active = s.active /\ d.inflight = s.inflight
      /\ d.sequence = s.sequence
      /\ d.staged \in {None, s.staged}
      /\ d.staged # None => d.staged.cohort.plan = plan
  BY SubmitTargetFields DEF Served
<1> HIDE DEF d
<1>2. ASSUME NEW cohort \in Cohorts, Numbered(cohort, c, s)
      PROVE  Numbered(cohort, c, d)
  BY <1>1, <1>2, RenderAssumption DEF Numbered, Services, Generations, Cohorts
<1>3. /\ s.active # None => s.active \in Cohorts
      /\ s.inflight # None => s.inflight.cohort \in Cohorts
      /\ s.staged # None => s.staged.cohort \in Cohorts
  BY DEF Services, Tickets, Candidates
<1>4. Served(c, d)
  BY <1>1, <1>2, <1>3 DEF Served
<1> QED BY <1>1, <1>4 DEF d

\* A cohort numbered next may follow every cohort the service holds.
LEMMA NextMayFollow ==
  ASSUME NEW c \in Controllers, NEW s \in Services, NEW next \in Cohorts,
         next.sequence = s.sequence + 1, next.plan = s.target,
         ~next.ready => c.compiled < next.plan,
         NEW last \in Cohorts, Numbered(last, c, s),
         Timeline(last.plan) = Timeline(next.plan)
  PROVE  Follows(next, last)
BY DEF Follows, Numbered, Cohorts, Services, Controllers, Generations

\* stage_cohort keeps the order of what the service holds.
LEMMA StageCohortServes ==
  ASSUME NEW c \in Controllers, NEW s \in Services, NEW plan \in Generations,
         NEW ready \in BOOLEAN, NEW now \in Transports, attached, Served(c, s),
         s.sequence + 1 \in 1..MaxSequence, plan = s.target,
         Timeline(s.active.plan) = Timeline(plan),
         ready => plan <= c.compiled, ~ready => c.compiled < plan
  PROVE  LET d == StageCohort(s, plan, ready, now) IN
         /\ d \in Services /\ Served(c, d)
         /\ d.target = s.target /\ d.active = s.active
         /\ d.sequence = s.sequence + 1
         /\ \/ d.inflight = s.inflight
            \/ s.inflight = None /\ d.inflight # None
<1> DEFINE d == StageCohort(s, plan, ready, now)
           new == [plan |-> plan, sequence |-> s.sequence + 1, ready |-> ready]
<1>1. /\ d \in Services /\ new \in Cohorts
      /\ d.target = s.target /\ d.active = s.active
      /\ d.sequence = s.sequence + 1
      /\ \/ d.staged = s.staged /\ d.inflight = s.inflight
         \/ /\ d.staged # None /\ d.staged.cohort = new
            /\ d.inflight = s.inflight
         \/ /\ s.inflight = None /\ d.staged = None
            /\ d.inflight # None /\ d.inflight \in Tickets
            /\ d.inflight.cohort = new
  BY StageCohortFields
<1>2. new.plan = plan /\ new.sequence = s.sequence + 1 /\ new.ready = ready
  OBVIOUS
<1> HIDE DEF d, new
<1>3. /\ s.active \in Cohorts /\ Numbered(s.active, c, s)
      /\ s.inflight # None => /\ s.inflight.cohort \in Cohorts
                              /\ Numbered(s.inflight.cohort, c, s)
                              /\ Follows(s.inflight.cohort, s.active)
      /\ s.staged # None => /\ s.staged.cohort \in Cohorts
                            /\ Numbered(s.staged.cohort, c, s)
  BY DEF Served, Services, Tickets, Candidates
<1>4. Follows(new, s.active)
  BY <1>1, <1>2, <1>3, NextMayFollow
<1>5. s.inflight # None => Follows(new, s.inflight.cohort)
  <2> SUFFICES ASSUME s.inflight # None PROVE Follows(new, s.inflight.cohort)
    OBVIOUS
  <2>1. Timeline(s.inflight.cohort.plan) = Timeline(s.active.plan)
    BY <1>3 DEF Follows
  <2> QED BY <1>1, <1>2, <1>3, <2>1, NextMayFollow
<1>6. Numbered(new, c, d)
  BY <1>1, <1>2, RenderAssumption DEF Numbered, Services, Generations
<1>7. ASSUME NEW cohort \in Cohorts, Numbered(cohort, c, s)
      PROVE  Numbered(cohort, c, d)
  BY <1>1, <1>7 DEF Numbered, Services, Cohorts
<1>8. Served(c, d)
  BY <1>1, <1>2, <1>3, <1>4, <1>5, <1>6, <1>7 DEF Served
<1> QED BY <1>1, <1>8 DEF d

\* arm_staged keeps the order: the candidate may follow the active cohort.
LEMMA ArmStagedServes ==
  ASSUME NEW c, NEW s \in Services, NEW now \in Transports, attached, Served(c, s)
  PROVE  LET d == ArmStaged(s, now) IN
         /\ d \in Services /\ Served(c, d)
         /\ d.target = s.target /\ d.active = s.active
         /\ d.sequence = s.sequence
         /\ \/ d.inflight = s.inflight
            \/ s.inflight = None /\ d.inflight # None
<1> DEFINE d == ArmStaged(s, now)
<1>1. \/ d = s
      \/ /\ d \in Services /\ d.target = s.target /\ d.active = s.active
         /\ d.sequence = s.sequence
         /\ s.inflight = None /\ s.staged # None /\ d.staged = None
         /\ d.inflight # None /\ d.inflight \in Tickets
         /\ d.inflight.cohort = s.staged.cohort
  BY ArmStagedFields
<1> HIDE DEF d
<1>2. Served(c, d)
  BY <1>1 DEF Served, Numbered
<1> QED BY <1>1, <1>2 DEF d

\* A receipt keeps the order: the cohort in flight becomes the active one only
\* if it was changed over to.
LEMMA AnsweredServes ==
  ASSUME NEW c, NEW s \in Services, NEW envelope, attached, Served(c, s)
  PROVE  LET d == Answered(s, envelope) IN
         /\ d \in Services /\ Served(c, d)
         /\ d.target = s.target /\ d.sequence = s.sequence
         /\ Timeline(d.active.plan) = Timeline(s.active.plan)
<1> DEFINE d == Answered(s, envelope)
<1>1. \/ d = s
      \/ /\ s.inflight # None
         /\ d \in Services /\ d.target = s.target /\ d.staged = s.staged
         /\ d.inflight = None /\ d.sequence = s.sequence
         /\ d.active = IF envelope.outcome = "Activated"
                       THEN s.inflight.cohort ELSE s.active
  BY AnsweredFields
<1> HIDE DEF d
<1>2. s.inflight # None => /\ s.inflight.cohort # None
                           /\ Timeline(s.inflight.cohort.plan) = Timeline(s.active.plan)
  BY NoneAssumption DEF Services, Tickets, Served, Follows
<1>3. CASE d = s
  BY <1>3 DEF d
<1>4. CASE d # s
  <2>1. Served(c, d)
    BY <1>1, <1>2, <1>4 DEF Served, Numbered
  <2> QED BY <1>1, <1>2, <1>4, <2>1 DEF d
<1> QED BY <1>3, <1>4

\* Learning that a revision was completed does not disturb the service.
LEMMA CompiledServes ==
  ASSUME NEW c \in Controllers, NEW d \in Controllers, NEW s \in Services,
         attached, Served(c, s), c.compiled <= d.compiled
  PROVE  Served(d, s)
<1>1. ASSUME NEW cohort \in Cohorts, Numbered(cohort, c, s)
      PROVE  Numbered(cohort, d, s)
  BY <1>1 DEF Numbered, Controllers, Cohorts, Generations
<1>2. /\ s.active # None => s.active \in Cohorts
      /\ s.inflight # None => s.inflight.cohort \in Cohorts
      /\ s.staged # None => s.staged.cohort \in Cohorts
  BY DEF Services, Tickets, Candidates
<1> QED BY <1>1, <1>2 DEF Served

\* queue_action puts a ticket just armed into the mailbox, which is empty then.
LEMMA QueueFields ==
  ASSUME NEW c, NEW a \in Renderers, NEW before, NEW after \in Services,
         \/ after.inflight = before.inflight
         \/ after.inflight # None /\ a.incoming = None
  PROVE  LET q == Queue(c, a, before, after) IN
         /\ q[1] = c /\ q[2] \in Renderers
         /\ q[2].active = a.active /\ q[2].fallback = a.fallback
         /\ q[2].ticket = a.ticket /\ q[2].answer = a.answer
         /\ q[2].receipt = a.receipt
         /\ q[2].incoming = IF after.inflight = before.inflight THEN a.incoming
                            ELSE after.inflight
<1> DEFINE e == [a EXCEPT !.incoming = after.inflight]
<1>1. CASE after.inflight = before.inflight
  <2>1. Queue(c, a, before, after) = <<c, a>>
    BY <1>1 DEF Queue
  <2> QED BY <1>1, <2>1
<1>2. CASE after.inflight # before.inflight
  <2>1. Queue(c, a, before, after) = <<c, e>>
    BY <1>2 DEF Queue
  <2>2. /\ e \in Renderers /\ e.active = a.active /\ e.fallback = a.fallback
        /\ e.ticket = a.ticket /\ e.answer = a.answer
        /\ e.receipt = a.receipt /\ e.incoming = after.inflight
    BY DEF Renderers, Services
  <2> HIDE DEF e
  <2> QED BY <1>2, <2>1, <2>2
<1> QED BY <1>1, <1>2

\* Queueing what the service has armed keeps the two threads agreed.
LEMMA QueueAgrees ==
  ASSUME NEW c, NEW a \in Renderers, NEW before, NEW after \in Services,
         NEW k, attached, Rendering(a), AgreedOn(before, a), Served(k, after),
         after.active = before.active, after.target <= published,
         published \in Nat,
         \/ after.inflight = before.inflight
         \/ before.inflight = None /\ after.inflight # None
  PROVE  LET q == Queue(c, a, before, after) IN
         /\ q[1] = c /\ q[2] \in Renderers
         /\ q[2].active = a.active
         /\ Rendering(q[2]) /\ AgreedOn(after, q[2])
<1> DEFINE d == Queue(c, a, before, after)[2]
<1>1. before.inflight = None => /\ a.incoming = None /\ a.ticket = None
                                /\ a.receipt = None /\ a.active = before.active
  BY DEF AgreedOn, InHand, Lone, Rendering
<1>2. /\ Queue(c, a, before, after)[1] = c /\ d \in Renderers
      /\ d.active = a.active /\ d.fallback = a.fallback
      /\ d.ticket = a.ticket /\ d.answer = a.answer
      /\ d.receipt = a.receipt
      /\ d.incoming = IF after.inflight = before.inflight THEN a.incoming
                      ELSE after.inflight
  BY <1>1, QueueFields
<1> HIDE DEF d
<1>3. CASE after.inflight = before.inflight
  <2>1. InHand(d) = InHand(a) /\ (Covered(a) => Covered(d)) /\ (Lone(a) => Lone(d))
    BY <1>2, <1>3 DEF InHand, Covered, Lone
  <2>2. AgreedOn(after, d)
    BY <1>2, <1>3, <2>1 DEF AgreedOn
  <2>3. Rendering(d)
    BY <1>2, <2>1 DEF Rendering
  <2> QED BY <1>2, <2>2, <2>3 DEF d
<1>4. CASE before.inflight = None /\ after.inflight # None
  <2>1. InHand(d) = after.inflight /\ (Covered(a) => Covered(d)) /\ Lone(d)
    BY <1>1, <1>2, <1>4 DEF InHand, Covered, Lone, Rendering
  <2>2. AgreedOn(after, d)
    BY <1>1, <1>2, <1>4, <2>1 DEF AgreedOn
  <2>3. /\ Follows(after.inflight.cohort, a.active)
        /\ after.inflight.cohort \in Cohorts
        /\ after.inflight.cohort.plan <= after.target
    BY <1>1, <1>4 DEF Served, Numbered, Services, Tickets
  <2>4. after.inflight.cohort.plan <= published
    BY <2>3 DEF Services, Cohorts, Generations
  <2>5. Rendering(d)
    BY <1>2, <2>1, <2>3, <2>4 DEF Rendering, AgreedOn
  <2> QED BY <1>2, <2>2, <2>5 DEF d
<1> QED BY <1>3, <1>4

\* A new revision is asked for: what is on its way to the renderer stays.
LEMMA RequestKeeps ==
  ASSUME Inv, NEW generation \in Generations, Request(generation)
  PROVE  Inv'
<1> DEFINE d == IssueRender(controller, generation, 0)
<1>1. /\ published' = generation /\ controller' = d
      /\ running' = running \cup {generation} /\ offer' = FALSE
      /\ service' = service /\ attached' = attached /\ offers' = offers
      /\ audio' = audio /\ session' = session /\ playing' = playing
  BY DEF Request, transport
<1>2. /\ d \in Controllers
      /\ d.desired = generation /\ d.inFlight = generation
      /\ d.progressive = IF attached THEN generation ELSE 0
      /\ d.compiled = controller.compiled /\ d.pending = controller.pending
  BY IssueRenderFields, RenderAssumption DEF Inv, TypeOK
<1> HIDE DEF d
<1>3. /\ controller.compiled \in Nat /\ controller.desired \in Nat
      /\ service.target \in Nat /\ service.sequence \in Nat
      /\ published \in Nat /\ offers \in Nat /\ generation \in Nat
      /\ generation > 0 /\ generation \in 0..MaxGenerations
  BY RenderAssumption DEF Inv, TypeOK, Controllers, Services, Generations
<1>4. /\ controller.desired \in {0, published}
      /\ controller.compiled <= controller.desired
      /\ service.target <= controller.desired
      /\ service.sequence <= controller.compiled + offers
  BY <1>3 DEF Inv, Asking, AskedFor
<1>5. /\ published <= generation /\ controller.desired < generation
  BY <1>1, <1>3, <1>4 DEF Request
<1>6. TypeOK'
  BY <1>1, <1>2, <1>3 DEF Inv, TypeOK
<1>7. Asking'
  BY <1>1, <1>2, <1>3, <1>4, <1>5 DEF Asking, AskedFor
<1>8. Serving'
  BY <1>1, <1>2 DEF Inv, Serving, Served, Numbered
<1>9. Rendering(audio)'
  <2>1. /\ audio.active # None => audio.active.plan \in Nat
        /\ InHand(audio) # None => InHand(audio).cohort.plan \in Nat
    BY DEF Inv, TypeOK, Renderers, InHand, Tickets, Cohorts, Generations
  <2> QED BY <1>1, <1>3, <1>5, <2>1 DEF Inv, Rendering
<1>10. Agreed'
  BY <1>1, <1>2 DEF Inv, Agreed
<1> QED BY <1>6, <1>7, <1>8, <1>9, <1>10 DEF Inv

\* A job deposits what it has.
LEMMA DepositKeeps ==
  ASSUME Inv, Deposit
  PROVE  Inv'
<1>1. /\ published' = published /\ controller' = controller
      /\ service' = service /\ attached' = attached /\ running' = running
      /\ audio' = audio /\ session' = session /\ playing' = playing
      /\ offer' = TRUE /\ offers' = offers + 1 /\ offers < MaxOffers
  BY DEF Deposit, transport
<1>2. offers \in Nat /\ service.sequence \in Nat /\ controller.compiled \in Nat
  BY RenderAssumption DEF Inv, TypeOK, Services, Controllers
<1>3. TypeOK'
  BY <1>1, RenderAssumption DEF Inv, TypeOK
<1>4. Asking'
  BY <1>1, <1>2 DEF Inv, Asking, AskedFor
<1>5. Serving' /\ Rendering(audio)' /\ Agreed'
  BY <1>1 DEF Inv, Serving, Served, Numbered, Rendering, Agreed
<1> QED BY <1>3, <1>4, <1>5 DEF Inv

\* What remains of the invariant when a render ended without a cohort and left
\* the renderer alone.
LEMMA AfterRenderAgrees ==
  ASSUME Inv, NEW generation, NEW c \in Controllers, NEW s \in Services,
         AfterRender(generation, c, s), UNCHANGED <<published, attached, transport>>,
         AskedFor(c, s, running \ {generation}, offer, offers), Served(c, s),
         c.pending = None, audio' \in Renderers, Rendering(audio'),
         attached => AgreedOn(s, audio')
  PROVE  Inv' /\ service'.active = s.active
<1>1. /\ controller' \in Controllers /\ service' \in Services
      /\ running' \subseteq Generations /\ offer' \in BOOLEAN /\ offers' = offers
      /\ AskedFor(controller', service', running', offer', offers')
      /\ Served(controller', service')
      /\ controller'.pending = c.pending
      /\ service'.active = s.active /\ service'.inflight = s.inflight
  BY AfterRenderKeeps DEF Inv
<1>2. /\ published' = published /\ attached' = attached
      /\ session' = session /\ playing' = playing
  BY DEF transport
<1>3. Asking' /\ Serving'
  BY <1>1, <1>2 DEF Asking, Serving, AskedFor, Served
<1>4. TypeOK'
  BY <1>1, <1>2 DEF Inv, TypeOK, Served
<1>5. Rendering(audio)'
  BY <1>2 DEF Rendering
<1>6. Agreed'
  BY <1>1, <1>2 DEF Agreed, AgreedOn
<1> QED BY <1>1, <1>3, <1>4, <1>5, <1>6 DEF Inv

\* A render ends without a cohort: cancelled, failed, or of a revision nobody
\* waits for.
LEMMA CancelledRenderKeeps ==
  ASSUME Inv, NEW generation \in Generations, RenderIsCancelled(generation)
  PROVE  Inv' /\ UNCHANGED <<audio, service.active>>
<1> DEFINE c == [controller EXCEPT !.inFlight = 0, !.progressive = 0]
<1>1. /\ AfterRender(generation, c, service) /\ audio' = audio
      /\ UNCHANGED <<published, attached, transport>>
      /\ generation = controller.inFlight
  BY DEF RenderIsCancelled
<1>2. /\ c \in Controllers /\ c.desired = controller.desired /\ c.inFlight = 0
      /\ c.progressive = 0 /\ c.compiled = controller.compiled
      /\ c.pending = controller.pending
  <2>1. controller \in Controllers
    BY DEF Inv, TypeOK
  <2>2. 0 \in 0..MaxGenerations
    BY RenderAssumption
  <2> QED BY <2>1, <2>2 DEF Controllers
<1> HIDE DEF c
<1>3. controller.inFlight # 0
  BY <1>1 DEF Generations
<1>4. AskedFor(c, service, running \ {generation}, offer, offers)
  BY <1>1, <1>2, <1>3 DEF Inv, Asking, AskedFor
<1>5. Served(c, service)
  BY <1>2 DEF Inv, Serving, Served, Numbered
<1>6. /\ service \in Services /\ audio \in Renderers /\ Rendering(audio)
      /\ c.pending = None /\ (attached => AgreedOn(service, audio))
  BY <1>2 DEF Inv, TypeOK, Agreed
<1> QED BY <1>1, <1>2, <1>4, <1>5, <1>6, AfterRenderAgrees

\* A render that failed keeps the invariant.
LEMMA FailedRenderKeeps ==
  ASSUME Inv, NEW generation \in Generations, RenderFails(generation)
  PROVE  Inv' /\ UNCHANGED <<audio, service.active>>
<1> DEFINE c == [controller EXCEPT !.inFlight = 0, !.failed = TRUE]
           s == RecordFailure(service)
<1>1. /\ AfterRender(generation, c, s) /\ audio' = audio
      /\ UNCHANGED <<published, attached, transport>>
      /\ generation = controller.desired
  BY DEF RenderFails
<1>2. /\ c \in Controllers /\ c.desired = controller.desired /\ c.inFlight = 0
      /\ c.progressive = controller.progressive
      /\ c.compiled = controller.compiled
      /\ c.pending = controller.pending
  <2>1. controller \in Controllers
    BY DEF Inv, TypeOK
  <2>2. 0 \in 0..MaxGenerations
    BY RenderAssumption
  <2> QED BY <2>1, <2>2 DEF Controllers
<1>3. /\ s \in Services /\ s.target = service.target
      /\ s.active = service.active /\ s.inflight = service.inflight
      /\ s.sequence = service.sequence
  BY RecordFailureFields DEF Inv, TypeOK
<1>4. Served(controller, s)
  BY RecordFailureServes DEF Inv, TypeOK, Serving
<1> HIDE DEF c, s
<1>5. AskedFor(c, s, running \ {generation}, offer, offers)
  BY <1>1, <1>2, <1>3 DEF Inv, Asking, AskedFor
<1>6. Served(c, s)
  BY <1>2, <1>4 DEF Served, Numbered
<1>7. /\ audio \in Renderers /\ Rendering(audio)
      /\ c.pending = None /\ (attached => AgreedOn(s, audio))
  BY <1>2, <1>3 DEF Inv, TypeOK, Agreed, AgreedOn
<1> QED BY <1>1, <1>2, <1>3, <1>5, <1>6, <1>7, AfterRenderAgrees

\* A render of a generation already superseded keeps the invariant.
LEMMA SupersededRenderKeeps ==
  ASSUME Inv, NEW generation \in Generations, RenderIsSuperseded(generation)
  PROVE  Inv' /\ UNCHANGED <<audio, service.active>>
<1>1. /\ AfterRender(generation, controller, service) /\ audio' = audio
      /\ UNCHANGED <<published, attached, transport>>
  BY DEF RenderIsSuperseded
<1>2. AskedFor(controller, service, running \ {generation}, offer, offers)
  BY DEF Inv, Asking, AskedFor
<1>3. /\ controller \in Controllers /\ service \in Services /\ audio \in Renderers
      /\ Rendering(audio) /\ Served(controller, service)
      /\ controller.pending = None /\ (attached => AgreedOn(service, audio))
  BY DEF Inv, TypeOK, Agreed, Serving
<1> QED BY <1>1, <1>2, <1>3, AfterRenderAgrees

\* complete_render's bookkeeping.
LEMMA DeliveredFields ==
  ASSUME NEW c \in Controllers, NEW generation \in Generations
  PROVE  LET d == Delivered(c, generation) IN
         /\ d \in Controllers /\ d.desired = c.desired /\ d.inFlight = 0
         /\ d.progressive = 0 /\ d.compiled = generation
         /\ d.pending = c.pending
<1>1. 0 \in 0..MaxGenerations /\ 0 \in 0..RestartLimit
      /\ generation \in 0..MaxGenerations
  BY RenderAssumption DEF Generations
<1> QED BY <1>1 DEF Delivered, Controllers

\* A renderer whose host jumped over a sequence number, or had its receipt
\* collected, is otherwise as it was.
LEMMA CancelThroughRenders ==
  ASSUME NEW a \in Renderers, NEW through \in 0..MaxSequence, Rendering(a)
  PROVE  LET d == [a EXCEPT !.cancelThrough = through] IN
         /\ d \in Renderers /\ Rendering(d) /\ InHand(d) = InHand(a)
         /\ d.active = a.active /\ d.receipt = a.receipt
<1> DEFINE d == [a EXCEPT !.cancelThrough = through]
<1>1. /\ d \in Renderers /\ d.active = a.active /\ d.fallback = a.fallback
      /\ d.ticket = a.ticket /\ d.incoming = a.incoming
      /\ d.answer = a.answer /\ d.receipt = a.receipt
  BY DEF Renderers
<1> HIDE DEF d
<1>2. InHand(d) = InHand(a)
  BY <1>1 DEF InHand
<1>3. Rendering(d)
  BY <1>1, <1>2 DEF Rendering, Lone, Covered
<1> QED BY <1>1, <1>2, <1>3 DEF d

\* The bound on the numbers leaves room for the complete render of a revision.
LEMMA RoomForTheWhole ==
  ASSUME Inv, NEW generation \in running, generation = controller.desired
  PROVE  /\ generation \in Generations
         /\ controller.compiled < generation
         /\ service.target <= generation
         /\ service.sequence + 1 \in 1..MaxSequence
         /\ service.sequence + 1 + (IF offer THEN 1 ELSE 0) <= generation + offers
<1>1. generation \in Generations /\ generation # 0
  <2>1. running \subseteq Generations
    BY DEF Inv, TypeOK
  <2> QED BY <2>1, RenderAssumption DEF Generations
<1>2. /\ service.sequence \in Nat /\ controller.compiled \in Nat
      /\ offers \in 0..MaxOffers /\ generation \in 1..MaxGenerations
      /\ service.target \in Nat /\ MaxOffers \in Nat /\ MaxGenerations \in Nat
  BY <1>1, RenderAssumption DEF Inv, TypeOK, Services, Controllers, Generations
<1>3. /\ controller.compiled < generation
      /\ service.target <= generation
      /\ service.sequence + (IF offer THEN 1 ELSE 0) <= controller.compiled + offers
  BY <1>1 DEF Inv, Asking, AskedFor
<1>4. service.sequence + 1 + (IF offer THEN 1 ELSE 0) <= generation + offers
  BY <1>2, <1>3
<1>5. service.sequence + 1 \in 1..MaxSequence
  BY <1>2, <1>4 DEF MaxSequence
<1> QED BY <1>1, <1>3, <1>4, <1>5

\* A complete render is staged on the renderer there is.  What was in flight
\* for an older revision is to be cancelled, and stays in flight until the
\* renderer has said what became of it.
LEMMA PublishKeeps ==
  ASSUME Inv, NEW generation \in running, generation = controller.desired,
         attached, SameTimeline(generation), Publish(generation),
         published' = published
  PROVE  Inv' /\ UNCHANGED <<audio.active, service.active>>
<1> DEFINE submitted == SubmitTarget(service, generation)
           staged == StageCohort(submitted, generation, TRUE, session)
           obsolete == /\ service.inflight # None
                       /\ service.inflight.cohort.plan # generation
           mailbox == IF obsolete /\ service.inflight.cohort.sequence > audio.cancelThrough
                      THEN [audio EXCEPT !.cancelThrough = service.inflight.cohort.sequence]
                      ELSE audio
           settled == Delivered(controller, generation)
           queued == Queue(settled, mailbox, submitted, staged)
<1>1. /\ AfterRender(generation, queued[1], staged)
      /\ audio' = queued[2]
      /\ UNCHANGED <<published, attached, transport>>
  BY DEF Publish
<1>2. /\ generation \in Generations
      /\ controller.compiled < generation
      /\ service.target <= generation
      /\ service.sequence + 1 \in 1..MaxSequence
      /\ service.sequence + 1 + (IF offer THEN 1 ELSE 0) <= generation + offers
  BY RoomForTheWhole
<1>3. /\ service \in Services /\ controller \in Controllers /\ audio \in Renderers
      /\ session \in Transports /\ published \in Nat
      /\ Served(controller, service) /\ Rendering(audio)
      /\ AgreedOn(service, audio) /\ controller.pending = None
      /\ controller.desired \in {0, published}
  BY RenderAssumption DEF Inv, TypeOK, Serving, Agreed, Asking, AskedFor
<1>4. /\ submitted \in Services /\ submitted.target = generation
      /\ Served(controller, submitted)
      /\ submitted.active = service.active
      /\ submitted.inflight = service.inflight
      /\ submitted.sequence = service.sequence
  BY <1>2, <1>3, SubmitTargetServes
<1>5. /\ mailbox \in Renderers /\ Rendering(mailbox)
      /\ InHand(mailbox) = InHand(audio)
      /\ mailbox.active = audio.active /\ mailbox.receipt = audio.receipt
  <2>1. obsolete => service.inflight.cohort.sequence \in 0..MaxSequence
    BY <1>3 DEF Services, Tickets, Cohorts
  <2> QED BY <1>3, <2>1, CancelThroughRenders
<1>6. /\ settled \in Controllers /\ settled.desired = controller.desired
      /\ settled.inFlight = 0 /\ settled.progressive = 0
      /\ settled.compiled = generation /\ settled.pending = None
  BY <1>2, <1>3, DeliveredFields
<1> HIDE DEF submitted, mailbox, settled
<1>7. Served(settled, submitted)
  <2>1. controller.compiled <= settled.compiled
    BY <1>2, <1>3, <1>6 DEF Controllers, Generations
  <2> QED BY <1>3, <1>4, <1>6, <2>1, CompiledServes
<1>8. /\ staged \in Services /\ Served(settled, staged)
      /\ staged.target = generation /\ staged.active = service.active
      /\ staged.sequence = service.sequence + 1
      /\ \/ staged.inflight = submitted.inflight
         \/ submitted.inflight = None /\ staged.inflight # None
  <2>1. Timeline(submitted.active.plan) = Timeline(generation)
    BY <1>4 DEF SameTimeline
  <2>2. generation <= settled.compiled
    BY <1>2, <1>6 DEF Generations
  <2>3. submitted.sequence + 1 \in 1..MaxSequence /\ TRUE \in BOOLEAN
    BY <1>2, <1>4
  <2>4. /\ staged \in Services /\ Served(settled, staged)
        /\ staged.target = submitted.target /\ staged.active = submitted.active
        /\ staged.sequence = submitted.sequence + 1
        /\ \/ staged.inflight = submitted.inflight
           \/ submitted.inflight = None /\ staged.inflight # None
    BY <1>2, <1>3, <1>4, <1>6, <1>7, <2>1, <2>2, <2>3, StageCohortServes
  <2> QED BY <1>4, <2>4
<1> HIDE DEF staged
<1>9. /\ queued[1] = settled /\ queued[2] \in Renderers
      /\ queued[2].active = mailbox.active
      /\ Rendering(queued[2]) /\ AgreedOn(staged, queued[2])
  <2>1. AgreedOn(submitted, mailbox)
    BY <1>3, <1>4, <1>5 DEF AgreedOn
  <2>2. staged.target <= published /\ staged.active = submitted.active
    BY <1>2, <1>3, <1>4, <1>8 DEF Generations
  <2> QED BY <1>3, <1>5, <1>8, <2>1, <2>2, QueueAgrees
<1> HIDE DEF queued
<1>10. AskedFor(settled, staged, running \ {generation}, offer, offers)
  <2>1. generation \in Nat /\ generation # 0
    BY <1>2 DEF Generations
  <2>2. offer => offers > 0
    BY DEF Inv, Asking, AskedFor
  <2> QED BY <1>2, <1>3, <1>6, <1>8, <2>1, <2>2 DEF AskedFor
<1>11. Inv' /\ service'.active = staged.active
  BY <1>1, <1>6, <1>8, <1>9, <1>10, AfterRenderAgrees
<1> QED BY <1>1, <1>5, <1>8, <1>9, <1>11

\* A fresh runtime stages, arms and acknowledges its first cohort at once.
LEMMA OpenedFields ==
  ASSUME NEW generation \in Generations
  PROVE  LET stopped == [rolling |-> FALSE, loop |-> None]
             staged == StageCohort(SubmitTarget(NewService, generation),
                                   generation, TRUE, stopped)
             first == [plan |-> generation, sequence |-> 1, ready |-> TRUE]
             d == Answered(staged, [cohort |-> staged.inflight.cohort,
                                    outcome |-> "Activated", retired |-> None])
         IN /\ d \in Services /\ d.target = generation /\ d.active = first
            /\ d.staged = None /\ d.inflight = None /\ d.sequence = 1
            /\ first \in Cohorts
<1> DEFINE stopped == [rolling |-> FALSE, loop |-> None]
           submitted == SubmitTarget(NewService, generation)
           staged == StageCohort(submitted, generation, TRUE, stopped)
           first == [plan |-> generation, sequence |-> 1, ready |-> TRUE]
           candidate == [cohort |-> first, loop |-> None]
           ticket == [cohort |-> first, gate |-> "Immediate"]
           envelope == [cohort |-> staged.inflight.cohort,
                        outcome |-> "Activated", retired |-> None]
           d == Answered(staged, envelope)
<1>1. /\ 0 \in 0..MaxGenerations /\ generation \in 0..MaxGenerations
      /\ 0 \in 0..MaxSequence /\ 1 \in 0..MaxSequence /\ 1 \in 1..MaxSequence
  BY RenderAssumption DEF Generations, MaxSequence
<1>2. /\ first \in Cohorts /\ candidate \in Candidates /\ ticket \in Tickets
      /\ candidate # None /\ ticket # None
  <2>1. first \in Cohorts
    BY <1>1 DEF Cohorts
  <2>2. candidate \in Candidates /\ ticket \in Tickets
    BY <2>1 DEF Candidates, Tickets, Gates
  <2> QED BY <2>1, <2>2, NoneAssumption
<1>3. /\ submitted \in Services /\ submitted.target = generation
      /\ submitted.active = None /\ submitted.staged = None
      /\ submitted.inflight = None /\ submitted.sequence = 0
  <2>1. /\ NewService \in Services /\ NewService.staged = None
        /\ NewService.active = None /\ NewService.inflight = None
        /\ NewService.sequence = 0
    BY <1>1 DEF NewService, Services
  <2> QED BY <2>1, SubmitTargetFields
<1> HIDE DEF submitted
<1> DEFINE n == [submitted EXCEPT !.sequence = @ + 1]
           k == [n EXCEPT !.staged = candidate]
<1>4. staged = ArmStaged(k, stopped)
  BY <1>3 DEF StageCohort
<1> HIDE DEF candidate
<1>5. /\ k \in Services /\ k.target = generation
      /\ k.active = None /\ k.staged = candidate
      /\ k.inflight = None /\ k.sequence = 1
  <2>1. /\ n \in Services /\ n.target = generation
        /\ n.active = None /\ n.inflight = None /\ n.sequence = 1
    BY <1>1, <1>3 DEF Services
  <2> HIDE DEF n
  <2> QED BY <1>2, <2>1 DEF Services
<1> HIDE DEF k
<1>6. /\ staged \in Services /\ staged.target = generation
      /\ staged.active = None /\ staged.staged = None
      /\ staged.inflight = ticket /\ staged.sequence = 1
  <2>1. ~WaitsForItsLoop(k, stopped) /\ GateFor(k, stopped) = "Immediate"
    BY DEF WaitsForItsLoop, GateFor
  <2>2. k.staged.cohort = first
    BY <1>5 DEF candidate
  <2> HIDE DEF stopped
  <2>3. staged = [k EXCEPT !.inflight = ticket, !.staged = None]
    BY <1>2, <1>4, <1>5, <2>1, <2>2 DEF ArmStaged
  <2> HIDE DEF staged, ticket
  <2> QED BY <1>2, <1>5, <2>3 DEF Services
<1> HIDE DEF d, first, staged
<1>7. /\ envelope.cohort = staged.inflight.cohort
      /\ envelope.outcome = "Activated" /\ staged.inflight.cohort = first
  <2>1. ticket.cohort = first
    OBVIOUS
  <2> HIDE DEF ticket
  <2> QED BY <1>6, <2>1
<1> HIDE DEF envelope, ticket
<1>8. /\ d \in Services /\ d.target = generation /\ d.active = first
      /\ d.staged = None /\ d.inflight = None /\ d.sequence = 1
  BY <1>2, <1>6, <1>7, AnsweredFields DEF d
<1> QED BY <1>2, <1>8 DEF d, first, envelope, staged, submitted

\* A host starts, or replaces the one before, with the complete cohort active.
LEMMA OpenHostKeeps ==
  ASSUME Inv, NEW generation \in running, generation = controller.desired,
         OpenHost(generation), published' = published
  PROVE  /\ Inv'
         /\ service'.active = audio'.active
         /\ audio'.active \in Cohorts /\ audio'.active.ready
         /\ audio'.active.plan = published
<1> DEFINE stopped == [rolling |-> FALSE, loop |-> None]
           staged == StageCohort(SubmitTarget(NewService, generation),
                                 generation, TRUE, stopped)
           first == [plan |-> generation, sequence |-> 1, ready |-> TRUE]
           d == Answered(staged, [cohort |-> staged.inflight.cohort,
                                  outcome |-> "Activated", retired |-> None])
           settled == Delivered(controller, generation)
           c == [settled EXCEPT !.pending = None]
<1>1. /\ controller' = c /\ service' = d /\ attached' = TRUE
      /\ audio' = NewRenderer(d.active) /\ session' \in Transports
      /\ playing' = session'.rolling /\ running' = running \ {generation}
      /\ offer' = offer /\ offers' = offers
  BY DEF OpenHost
<1>2. /\ generation \in Generations
      /\ service.sequence + 1 + (IF offer THEN 1 ELSE 0) <= generation + offers
      /\ service.sequence \in Nat /\ controller \in Controllers
      /\ offers \in Nat /\ generation \in Nat /\ generation # 0
  <2>1. /\ generation \in Generations
        /\ service.sequence + 1 + (IF offer THEN 1 ELSE 0) <= generation + offers
    BY RoomForTheWhole
  <2> QED BY <2>1, RenderAssumption DEF Inv, TypeOK, Services, Generations
<1>3. /\ d \in Services /\ d.target = generation /\ d.active = first
      /\ d.staged = None /\ d.inflight = None /\ d.sequence = 1
      /\ first \in Cohorts
  BY <1>2, OpenedFields
<1>4. first.plan = generation /\ first.sequence = 1 /\ first.ready = TRUE
      /\ first # None
  BY <1>3, NoneAssumption
<1> HIDE DEF d, first
<1>5. /\ c \in Controllers /\ c.desired = generation
      /\ c.inFlight = 0 /\ c.progressive = 0
      /\ c.compiled = generation /\ c.pending = None
  <2>1. /\ settled \in Controllers /\ settled.desired = controller.desired
        /\ settled.inFlight = 0 /\ settled.progressive = 0
        /\ settled.compiled = generation
    BY <1>2, DeliveredFields
  <2> HIDE DEF settled
  <2> QED BY <2>1 DEF Controllers
<1> HIDE DEF c
<1>6. /\ audio' \in Renderers /\ audio'.active = first
      /\ audio'.fallback = None /\ audio'.ticket = None
      /\ audio'.incoming = None /\ audio'.answer = None /\ audio'.receipt = None
  <2>1. 0 \in 0..MaxSequence
    BY RenderAssumption DEF MaxSequence
  <2> QED BY <1>1, <1>3, <2>1 DEF NewRenderer, Renderers
<1>7. generation = published
  BY <1>2 DEF Inv, Asking, AskedFor
<1>8. TypeOK'
  <2>1. session'.rolling \in BOOLEAN
    BY <1>1 DEF Transports
  <2>2. published' \in 0..MaxGenerations /\ running' \subseteq Generations
        /\ offer' \in BOOLEAN /\ offers' \in 0..MaxOffers
    BY <1>1 DEF Inv, TypeOK
  <2> QED BY <1>1, <1>3, <1>5, <1>6, <2>1, <2>2 DEF TypeOK
<1>9. Asking'
  <2>1. offer => offers > 0
    BY DEF Inv, Asking, AskedFor
  <2>2. 1 + (IF offer THEN 1 ELSE 0) <= generation + offers
    BY <1>2
  <2> QED BY <1>1, <1>2, <1>3, <1>5, <1>7, <2>1, <2>2 DEF Asking, AskedFor
<1>10. Serving'
  BY <1>1, <1>2, <1>3, <1>4, <1>5 DEF Serving, Served, Numbered
<1>11. Rendering(audio)' /\ Agreed'
  <2>1. InHand(audio') = None
    BY <1>6 DEF InHand
  <2>2. Rendering(audio)'
    BY <1>2, <1>4, <1>6, <1>7, <2>1 DEF Rendering, Lone, Covered
  <2> QED BY <1>1, <1>3, <1>4, <1>5, <1>6, <2>1, <2>2 DEF Agreed, AgreedOn
<1> QED BY <1>1, <1>3, <1>4, <1>6, <1>7, <1>8, <1>9, <1>10, <1>11 DEF Inv

\* The controller loses its renderer and starts over.
LEMMA LoseHostKeeps ==
  ASSUME Inv, NEW generation \in running, LoseHost(generation),
         published' = published
  PROVE  Inv' /\ audio' = audio /\ service'.active = None
<1>1. /\ controller' = NewController /\ service' = NewService
      /\ attached' = FALSE /\ running' = running \ {generation}
      /\ offer' = FALSE /\ offers' = offers /\ audio' = audio
      /\ session' = session /\ playing' = playing
  BY DEF LoseHost, transport
<1>2. 0 \in 0..MaxGenerations /\ 0 \in 0..RestartLimit /\ 0 \in 0..MaxSequence
  BY RenderAssumption DEF MaxSequence
<1>3. NewController \in Controllers /\ NewService \in Services
  BY <1>2 DEF NewController, NewService, Controllers, Services
<1>4. TypeOK'
  <2>1. NewService.staged = None
    BY DEF NewService
  <2> QED BY <1>1, <1>3, <2>1 DEF Inv, TypeOK
<1>5. Asking'
  <2>1. 0 \notin running' /\ offers \in Nat
    BY <1>1, RenderAssumption DEF Inv, TypeOK, Generations
  <2> QED BY <1>1, <2>1 DEF Asking, AskedFor, NewController, NewService
<1>6. Serving'
  BY <1>1 DEF Serving, Served, NewController, NewService
<1>7. Rendering(audio)' /\ Agreed'
  BY <1>1 DEF Inv, Rendering, Agreed, NewController
<1> QED BY <1>1, <1>4, <1>5, <1>6, <1>7 DEF Inv, NewService

\* A complete render is taken, by the renderer there is or by a new one.
LEMMA RenderFinishesKeeps ==
  ASSUME Inv, NEW generation \in Generations, RenderFinishes(generation)
  PROVE  /\ Inv'
         /\ \/ UNCHANGED <<audio.active, service.active>>
            \/ /\ service'.active = audio'.active
               /\ audio'.active \in Cohorts /\ audio'.active.ready
               /\ audio'.active.plan = published
            \/ audio' = audio /\ service'.active = None
<1>1. generation \in running /\ generation = controller.desired
      /\ published' = published
  BY DEF RenderFinishes
<1>2. CASE attached /\ SameTimeline(generation)
  <2>1. Publish(generation)
    BY <1>2 DEF RenderFinishes
  <2> QED BY <1>1, <1>2, <2>1, PublishKeeps
<1>3. CASE ~(attached /\ SameTimeline(generation))
  <2>1. OpenHost(generation) \/ LoseHost(generation)
    BY <1>3 DEF RenderFinishes
  <2> QED BY <1>1, <2>1, OpenHostKeeps, LoseHostKeeps
<1> QED BY <1>2, <1>3

\* The receipt the tick collects is always the answer to the publication in
\* flight: poll_publication never fails.
LEMMA ReceiptAnswers ==
  ASSUME Inv, attached, audio.receipt # None
  PROVE  /\ service.inflight # None
         /\ audio.receipt.cohort = service.inflight.cohort
         /\ Answers(service, audio.receipt)
         /\ InHand(audio) = None
         /\ audio.active = IF audio.receipt.outcome = "Activated"
                           THEN service.inflight.cohort ELSE service.active
<1>1. InHand(audio) = None
  BY DEF Inv, Rendering, Lone, InHand
<1>2. AgreedOn(service, audio)
  BY DEF Inv, Agreed
<1>3. service.inflight # None
  BY <1>2 DEF AgreedOn
<1> QED BY <1>1, <1>2, <1>3 DEF AgreedOn, Answers

\* Once the receipt is collected and learnt of, both threads agree again.
LEMMA CollectedAgrees ==
  ASSUME Inv, attached
  PROVE  LET d == [audio EXCEPT !.receipt = None]
             s == IF audio.receipt = None THEN service
                  ELSE Answered(service, audio.receipt)
         IN /\ d \in Renderers /\ Rendering(d) /\ d.active = audio.active
            /\ s \in Services /\ Served(controller, s) /\ AgreedOn(s, d)
            /\ s.target = service.target /\ s.sequence = service.sequence
            /\ Timeline(s.active.plan) = Timeline(service.active.plan)
            /\ s.active \in {service.active, audio.active}
<1> DEFINE d == [audio EXCEPT !.receipt = None]
           s == IF audio.receipt = None THEN service
                ELSE Answered(service, audio.receipt)
<1>1. /\ audio \in Renderers /\ service \in Services
      /\ Rendering(audio) /\ AgreedOn(service, audio)
      /\ Served(controller, service)
  BY DEF Inv, TypeOK, Agreed, Serving
<1>2. /\ d \in Renderers /\ d.active = audio.active
      /\ d.fallback = audio.fallback /\ d.ticket = audio.ticket
      /\ d.incoming = audio.incoming /\ d.answer = audio.answer
      /\ d.receipt = None
  BY <1>1 DEF Renderers
<1> HIDE DEF d
<1>3. InHand(d) = InHand(audio)
  BY <1>2 DEF InHand
<1>4. Rendering(d)
  BY <1>1, <1>2, <1>3 DEF Rendering, Lone, Covered
<1>5. CASE audio.receipt = None
  <2>1. s = service
    BY <1>5
  <2> HIDE DEF s
  <2>2. AgreedOn(s, d)
    BY <1>1, <1>2, <1>3, <1>5, <2>1 DEF AgreedOn
  <2> QED BY <1>1, <1>2, <1>4, <2>1, <2>2 DEF d, s
<1>6. CASE audio.receipt # None
  <2>1. s = Answered(service, audio.receipt)
    BY <1>6
  <2> HIDE DEF s
  <2>2. /\ service.inflight # None
        /\ audio.receipt.cohort = service.inflight.cohort
        /\ InHand(audio) = None
        /\ audio.active = IF audio.receipt.outcome = "Activated"
                          THEN service.inflight.cohort ELSE service.active
    BY <1>6, ReceiptAnswers
  <2>3. /\ s.inflight = None /\ s.active = audio.active
    BY <1>1, <2>1, <2>2, AnsweredFields
  <2>4. /\ s \in Services /\ Served(controller, s)
        /\ s.target = service.target /\ s.sequence = service.sequence
        /\ Timeline(s.active.plan) = Timeline(service.active.plan)
    BY <1>1, <2>1, AnsweredServes
  <2>5. AgreedOn(s, d)
    BY <1>1, <1>2, <1>3, <2>2, <2>3 DEF AgreedOn
  <2> QED BY <1>2, <1>4, <2>3, <2>4, <2>5 DEF d, s
<1> QED BY <1>5, <1>6

\* A partial cohort of the revision in progress is staged; its number was
\* reserved when it was deposited.
LEMMA PartServes ==
  ASSUME Inv, attached, NEW s \in Services, Served(controller, s),
         s.target = service.target, s.sequence = service.sequence,
         Timeline(s.active.plan) = Timeline(service.active.plan),
         controller.progressive # 0, offer,
         SameTimeline(controller.progressive), NEW now \in Transports
  PROVE  LET plan == controller.progressive
             d == StageCohort(SubmitTarget(s, plan), plan, FALSE, now)
         IN /\ d \in Services /\ Served(controller, d)
            /\ d.target = controller.desired /\ d.active = s.active
            /\ d.sequence = s.sequence + 1
            /\ controller.compiled < controller.desired
            /\ \/ d.inflight = s.inflight
               \/ s.inflight = None /\ d.inflight # None
<1> DEFINE plan == controller.progressive
           submitted == SubmitTarget(s, plan)
           d == StageCohort(submitted, plan, FALSE, now)
<1>1. /\ controller \in Controllers /\ service \in Services
      /\ plan = controller.desired /\ controller.compiled < plan
      /\ service.target <= plan
      /\ service.sequence + 1 <= controller.compiled + offers
  BY DEF Inv, TypeOK, Asking, AskedFor
<1>2. /\ plan \in Generations /\ controller.compiled \in 0..MaxGenerations
      /\ offers \in 0..MaxOffers /\ service.sequence \in Nat
      /\ MaxOffers \in Nat /\ MaxGenerations \in Nat
  <2>1. plan \in 0..MaxGenerations /\ offers \in 0..MaxOffers
    BY <1>1 DEF Controllers, Inv, TypeOK
  <2> QED BY <1>1, <2>1, RenderAssumption DEF Controllers, Services, Generations
<1>3. s.sequence + 1 \in 1..MaxSequence
  BY <1>1, <1>2 DEF MaxSequence
<1> HIDE DEF plan
<1>4. /\ submitted \in Services /\ submitted.target = plan
      /\ Served(controller, submitted)
      /\ submitted.active = s.active /\ submitted.inflight = s.inflight
      /\ submitted.sequence = s.sequence
  BY <1>1, <1>2, SubmitTargetServes
<1>5. Timeline(submitted.active.plan) = Timeline(plan)
  BY <1>4 DEF SameTimeline, plan
<1> HIDE DEF submitted
<1>6. /\ d \in Services /\ Served(controller, d)
      /\ d.target = submitted.target /\ d.active = submitted.active
      /\ d.sequence = submitted.sequence + 1
      /\ \/ d.inflight = submitted.inflight
         \/ submitted.inflight = None /\ d.inflight # None
  <2>1. FALSE \in BOOLEAN /\ submitted.sequence + 1 \in 1..MaxSequence
    BY <1>3, <1>4
  <2> QED BY <1>1, <1>2, <1>4, <1>5, <2>1, StageCohortServes
<1> HIDE DEF d
<1> QED BY <1>1, <1>4, <1>6 DEF d, submitted, plan

\* A tick collects a receipt, takes an offer and arms what is staged.
LEMMA TickKeeps ==
  ASSUME Inv, Tick
  PROVE  /\ Inv' /\ attached /\ audio'.active = audio.active
         /\ service'.active \in {service.active, audio.active}
<1> DEFINE receipt == audio.receipt
           drained == [audio EXCEPT !.receipt = None]
           answered == IF receipt = None THEN service
                       ELSE Answered(service, receipt)
           takes == TakesOffer(controller)
           plan == controller.progressive
           offered == IF takes /\ SameTimeline(plan)
                      THEN StageCohort(SubmitTarget(answered, plan), plan,
                                       FALSE, Observed)
                      ELSE answered
           settled == ArmStaged(offered, Observed)
           queued == Queue(controller, drained, answered, settled)
<1>1. attached
  BY DEF Tick
<1>2. /\ Retried(controller, audio)[1] = controller
      /\ Retried(controller, audio)[2] = audio
  <2>1. Retried(controller, audio) = <<controller, audio>>
    BY DEF Retried, Inv, Agreed
  <2> QED BY <2>1
<1>3. receipt = None \/ Answers(service, receipt)
  BY <1>1, ReceiptAnswers
<1>4. /\ service' = settled /\ controller' = queued[1] /\ audio' = queued[2]
      /\ offer' = (offer /\ ~takes) /\ session' = Observed
      /\ published' = published /\ attached' = attached /\ running' = running
      /\ offers' = offers /\ playing' = playing
  BY <1>2, <1>3 DEF Tick
<1>5. /\ drained \in Renderers /\ Rendering(drained)
      /\ drained.active = audio.active
      /\ answered \in Services /\ Served(controller, answered)
      /\ AgreedOn(answered, drained)
      /\ answered.target = service.target
      /\ answered.sequence = service.sequence
      /\ Timeline(answered.active.plan) = Timeline(service.active.plan)
      /\ answered.active \in {service.active, audio.active}
  BY <1>1, CollectedAgrees
<1>6. Observed \in Transports
  BY DEF Inv, TypeOK, Observed, Transports
<1> HIDE DEF receipt, drained, answered
<1>7. controller \in Controllers /\ service \in Services /\ offers \in Nat
      /\ offer \in BOOLEAN /\ published \in Nat
      /\ AskedFor(controller, service, running, offer, offers)
  BY RenderAssumption DEF Inv, TypeOK, Asking
<1>8. /\ offered \in Services /\ Served(controller, offered)
      /\ offered.active = answered.active
      /\ \/ offered.inflight = answered.inflight
         \/ answered.inflight = None /\ offered.inflight # None
      /\ AskedFor(controller, offered, running, offer', offers)
  <2>1. CASE takes /\ SameTimeline(plan)
    <3>1. offered = StageCohort(SubmitTarget(answered, plan), plan, FALSE, Observed)
          /\ plan # 0 /\ offer /\ offer' = FALSE
      BY <1>4, <2>1 DEF TakesOffer
    <3> HIDE DEF offered
    <3>2. /\ offered \in Services /\ Served(controller, offered)
          /\ offered.target = controller.desired
          /\ offered.active = answered.active
          /\ offered.sequence = answered.sequence + 1
          /\ controller.compiled < controller.desired
          /\ \/ offered.inflight = answered.inflight
             \/ answered.inflight = None /\ offered.inflight # None
      BY <1>1, <1>5, <1>6, <2>1, <3>1, PartServes
    <3>3. /\ controller.compiled \in Nat /\ controller.desired \in Nat
          /\ service.sequence \in Nat
      BY <1>7 DEF Controllers, Services
    <3>4. service.sequence + 1 <= controller.compiled + offers
      BY <1>7, <3>1 DEF AskedFor
    <3>5. offered.sequence + 0 <= controller.compiled + offers
      BY <1>5, <1>7, <3>2, <3>3, <3>4
    <3>6. AskedFor(controller, offered, running, FALSE, offers)
      BY <1>7, <3>2, <3>3, <3>5 DEF AskedFor
    <3> QED BY <3>1, <3>2, <3>6
  <2>2. CASE ~(takes /\ SameTimeline(plan))
    <3>1. offered = answered /\ (offer' => offer) /\ offer' \in BOOLEAN
      BY <1>4, <1>7, <2>2
    <3> HIDE DEF offered
    <3>2. AskedFor(controller, answered, running, offer', offers)
      BY <1>5, <1>7, <3>1 DEF AskedFor, Controllers, Services
    <3> QED BY <1>5, <3>1, <3>2
  <2> QED BY <2>1, <2>2
<1> HIDE DEF offered, takes, plan
<1>9. /\ settled \in Services /\ Served(controller, settled)
      /\ settled.target = offered.target /\ settled.active = offered.active
      /\ settled.sequence = offered.sequence
      /\ \/ settled.inflight = offered.inflight
         \/ offered.inflight = None /\ settled.inflight # None
  BY <1>1, <1>6, <1>8, ArmStagedServes
<1> HIDE DEF settled
<1>10. /\ queued[1] = controller /\ queued[2] \in Renderers
       /\ queued[2].active = drained.active
       /\ Rendering(queued[2]) /\ AgreedOn(settled, queued[2])
  <2>1. settled.target <= published
    BY <1>7, <1>8, <1>9 DEF AskedFor, Controllers, Services
  <2>2. settled.active = answered.active
    BY <1>8, <1>9
  <2>3. \/ settled.inflight = answered.inflight
        \/ answered.inflight = None /\ settled.inflight # None
    BY <1>8, <1>9
  <2> QED BY <1>1, <1>5, <1>7, <1>9, <2>1, <2>2, <2>3, QueueAgrees
<1> HIDE DEF queued
<1>11. Asking'
  BY <1>4, <1>8, <1>9, <1>10 DEF Asking, AskedFor
<1>12. Serving' /\ Rendering(audio)' /\ Agreed'
  <2>1. controller.pending = None
    BY DEF Inv, Agreed
  <2> QED BY <1>1, <1>4, <1>9, <1>10, <2>1
        DEF Serving, Served, Rendering, Agreed
<1>13. TypeOK'
  <2>1. offer' \in BOOLEAN
    BY <1>4, <1>7
  <2> QED BY <1>4, <1>6, <1>9, <1>10, <2>1 DEF Inv, TypeOK, Served
<1> QED BY <1>1, <1>4, <1>5, <1>8, <1>9, <1>10, <1>11, <1>12, <1>13 DEF Inv

-----------------------------------------------------------------------------
(* The invariant and what follows from it                                  *)

\* Which actions are a boundary of the audio thread.
Boundary == Halt \/ Seek \/ StoppedFrame \/ PlayedFrame \/ WrapLoop \/ PlayToEnd

\* Every one of them is an activate_if and leaves the control thread alone.
LEMMA BoundaryActs ==
  ASSUME TypeOK, Boundary
  PROVE  /\ \E boundary : audio' = ActivateIf(audio, boundary)
         /\ UNCHANGED work
         /\ session' \in Transports /\ playing' \in BOOLEAN
<1>1. session \in Transports /\ playing \in BOOLEAN
  BY DEF TypeOK
<1>2. CASE Halt
  <2>1. [session EXCEPT !.rolling = FALSE] \in Transports
    BY <1>1 DEF Transports
  <2> QED BY <1>2, <2>1 DEF Halt
<1>3. CASE Seek
  BY <1>1, <1>3 DEF Seek
<1>4. CASE StoppedFrame
  BY <1>1, <1>4 DEF StoppedFrame, transport
<1>5. CASE PlayedFrame
  BY <1>1, <1>5 DEF PlayedFrame, transport
<1>6. CASE WrapLoop
  BY <1>1, <1>6 DEF WrapLoop, transport
<1>7. CASE PlayToEnd
  BY <1>1, <1>7 DEF PlayToEnd
<1> QED BY <1>2, <1>3, <1>4, <1>5, <1>6, <1>7 DEF Boundary

\* What only the transport sees changes nothing of a publication.
LEMMA TransportKeeps ==
  ASSUME Inv, UNCHANGED <<work, audio>>, session' \in Transports,
         playing' \in BOOLEAN
  PROVE  Inv'
<1>1. /\ published' = published /\ controller' = controller /\ service' = service
      /\ attached' = attached /\ running' = running /\ offer' = offer
      /\ offers' = offers /\ audio' = audio
  BY DEF work
<1>2. TypeOK'
  BY <1>1 DEF Inv, TypeOK
<1>3. Asking' /\ Serving' /\ Rendering(audio)' /\ Agreed'
  BY <1>1 DEF Inv, Asking, AskedFor, Serving, Served, Rendering, Agreed
<1> QED BY <1>2, <1>3 DEF Inv

\* The transport commands that do not reach the renderer.
LEMMA CommandKeeps ==
  ASSUME Inv, Play \/ (\E loop \in Loops \cup {None} : SetLoop(loop))
  PROVE  Inv' /\ UNCHANGED <<work, audio>>
<1>1. session \in Transports /\ playing \in BOOLEAN
  BY DEF Inv, TypeOK
<1>2. CASE Play
  <2>1. [session EXCEPT !.rolling = TRUE] \in Transports
    BY <1>1 DEF Transports
  <2> QED BY <1>2, <2>1, TransportKeeps DEF Play
<1>3. ASSUME NEW loop \in Loops \cup {None}, SetLoop(loop)
      PROVE  Inv' /\ UNCHANGED <<work, audio>>
  <2>1. [session EXCEPT !.loop = loop] \in Transports
    BY <1>1 DEF Transports
  <2> QED BY <1>1, <1>3, <2>1, TransportKeeps DEF SetLoop
<1> QED BY <1>2, <1>3

\* Nothing is on its way at first.
LEMMA InitInv == Init => Inv
<1> SUFFICES ASSUME Init PROVE Inv
  OBVIOUS
<1>1. 0 \in 0..MaxGenerations /\ 0 \in 0..RestartLimit /\ 0 \in 0..MaxSequence
      /\ 0 \in 0..MaxOffers
  BY RenderAssumption DEF MaxSequence
<1>2. TypeOK
  <2>1. NewController \in Controllers /\ NewService \in Services
        /\ NewService.staged = None
    BY <1>1 DEF NewController, NewService, Controllers, Services
  <2>2. NewRenderer(None) \in Renderers
    BY <1>1 DEF NewRenderer, Renderers
  <2>3. session \in Transports
    BY DEF Init, Transports
  <2> QED BY <1>1, <2>1, <2>2, <2>3 DEF Init, TypeOK
<1>3. Asking /\ Serving
  BY DEF Init, Asking, AskedFor, Serving, Served, NewController, NewService
<1>4. Rendering(audio) /\ Agreed
  BY DEF Init, Rendering, Lone, Covered, InHand, Agreed, NewRenderer, NewController
<1> QED BY <1>2, <1>3, <1>4 DEF Inv

\* Every step keeps the invariant, one case per action.
LEMMA NextInv == Inv /\ [Next]_vars => Inv'
<1> SUFFICES ASSUME Inv, [Next]_vars PROVE Inv'
  OBVIOUS
<1>1. ASSUME NEW generation \in Generations,
             \/ Request(generation) \/ RenderFinishes(generation)
             \/ RenderIsCancelled(generation) \/ RenderFails(generation)
             \/ RenderIsSuperseded(generation)
      PROVE  Inv'
  BY <1>1, RequestKeeps, RenderFinishesKeeps, CancelledRenderKeeps,
     FailedRenderKeeps, SupersededRenderKeeps
<1>2. CASE Deposit
  BY <1>2, DepositKeeps
<1>3. CASE Tick
  BY <1>3, TickKeeps
<1>4. CASE Play \/ (\E loop \in Loops \cup {None} : SetLoop(loop))
  BY <1>4, CommandKeeps
<1>5. CASE Boundary
  BY <1>5, BoundaryActs, BoundaryKeeps DEF Inv
<1>6. CASE UNCHANGED vars
  <2>1. /\ UNCHANGED <<work, audio>> /\ session' = session /\ playing' = playing
    BY <1>6 DEF vars, work
  <2> QED BY <2>1, TransportKeeps DEF Inv, TypeOK
<1> QED BY <1>1, <1>2, <1>3, <1>4, <1>5, <1>6 DEF Next, Boundary

\* The invariant holds throughout.
LEMMA Invariance == Spec => []Inv
BY InitInv, NextInv, PTL DEF Spec

\* Every variable keeps its type: a candidate is always of the service's target
\* (submit_target drops any other), the number of restarts stays within
\* RENDER_RESTART_LIMIT, and cohorts are numbered at most once per completed
\* revision and per offer.
THEOREM TypeCorrect == Spec => []TypeOK
<1>1. Inv => TypeOK
  BY DEF Inv
<1> QED BY <1>1, Invariance, PTL

\* A renderer that plays a part has a complete cohort of its timeline under it,
\* however parts, seeks, loops and new hosts follow each other (activate_if).
THEOREM FramesAreCovered == Spec => []EveryFrameIsCovered
<1>1. Inv => EveryFrameIsCovered
  BY DEF Inv, Rendering, Covered, EveryFrameIsCovered
<1> QED BY <1>1, Invariance, PTL

\* The control and the audio thread never disagree about what is between them:
\* poll_publication finds the receipt of the publication in flight or none.
THEOREM ThreadsAgree == Spec => []ServiceFollowsTheRenderer
<1>1. Inv => ServiceFollowsTheRenderer
  <2> SUFFICES ASSUME Inv, attached PROVE ServiceFollowsTheRenderer
    BY DEF ServiceFollowsTheRenderer
  <2>1. /\ AgreedOn(service, audio) /\ Lone(audio) /\ controller.pending = None
    BY DEF Inv, Agreed, Rendering
  <2>2. /\ DOMAIN OnItsWay = {1, 2, 3, 4, 5}
        /\ OnItsWay[1] = None /\ OnItsWay[2] = audio.incoming
        /\ OnItsWay[3] = audio.ticket /\ OnItsWay[4] = None
        /\ OnItsWay[5] = audio.receipt
    BY <2>1 DEF OnItsWay, Lone
  <2>3. \A i \in Carried : i \in {2, 3, 5} /\ OnItsWay[i] # None
    BY <2>2 DEF Carried
  <2>4. \A i \in {2, 3, 5} : OnItsWay[i] # None => i \in Carried
    BY <2>2 DEF Carried
  <2>5. CASE service.inflight = None
    <3>1. /\ audio.incoming = None /\ audio.ticket = None /\ audio.receipt = None
          /\ service.active = audio.active
      BY <2>1, <2>5 DEF AgreedOn, InHand
    <3>2. Carried = {}
      BY <2>2, <2>3, <3>1
    <3> QED BY <2>5, <3>1, <3>2, FS_EmptySet DEF ServiceFollowsTheRenderer
  <2>6. CASE service.inflight # None /\ InHand(audio) = service.inflight
    <3>1. audio.active = service.active
      BY <2>1, <2>6 DEF AgreedOn, Lone, InHand
    <3>2. PICK k \in {2, 3} : Carried = {k} /\ OnItsWay[k] = service.inflight
      <4>1. CASE audio.ticket # None
        <5>1. /\ audio.ticket = service.inflight /\ audio.incoming = None
              /\ audio.receipt = None
          BY <2>1, <2>6, <4>1 DEF InHand, Lone
        <5>2. Carried = {3}
          BY <2>2, <2>3, <2>4, <4>1, <5>1
        <5> QED BY <2>2, <5>1, <5>2
      <4>2. CASE audio.ticket = None
        <5>1. /\ audio.incoming = service.inflight /\ audio.receipt = None
          BY <2>1, <2>6, <4>2 DEF InHand, Lone
        <5>2. Carried = {2}
          BY <2>2, <2>3, <2>4, <2>6, <4>2, <5>1
        <5> QED BY <2>2, <5>1, <5>2
      <4> QED BY <4>1, <4>2
    <3>3. Cardinality(Carried) = 1
      BY <3>2, FS_Singleton
    <3> QED BY <2>6, <3>1, <3>2, <3>3 DEF ServiceFollowsTheRenderer
  <2>7. CASE service.inflight # None /\ InHand(audio) # service.inflight
    <3>1. /\ InHand(audio) = None /\ audio.receipt # None
          /\ audio.receipt.cohort = service.inflight.cohort
          /\ \/ /\ audio.receipt.outcome = "Activated"
                /\ audio.receipt.retired = service.active
                /\ audio.active = service.inflight.cohort
             \/ audio.active = service.active
      BY <2>1, <2>7 DEF AgreedOn
    <3>2. audio.ticket = None /\ audio.incoming = None
      BY <3>1 DEF InHand
    <3>3. Carried = {5} /\ OnItsWay[5] = audio.receipt
      BY <2>2, <2>3, <2>4, <3>1, <3>2
    <3>4. Cardinality(Carried) = 1
      BY <3>3, FS_Singleton
    <3> QED BY <2>7, <3>1, <3>3, <3>4 DEF ServiceFollowsTheRenderer
  <2> QED BY <2>5, <2>6, <2>7
<1> QED BY <1>1, Invariance, PTL

-----------------------------------------------------------------------------
(* The exchange of cohorts is atomic                                       *)

\* A boundary exchanges the cohort that is heard, for one that may follow it and
\* that the control thread knows to follow, or leaves it alone.
LEMMA BoundaryExchanges ==
  ASSUME Inv, Boundary
  PROVE  Master!Exchange \/ UNCHANGED <<audio.active, service.active>>
<1>1. PICK boundary : audio' = ActivateIf(audio, boundary)
  BY BoundaryActs DEF Inv
<1>2. service' = service /\ audio \in Renderers /\ Rendering(audio)
  BY BoundaryActs DEF Inv, TypeOK, work
<1>3. Kept(audio, audio') \/ GaveBack(audio, audio') \/ ChangedOver(audio, audio')
  BY <1>1, <1>2, ActivateIfFields DEF Rendering
<1>4. CASE Kept(audio, audio') \/ GaveBack(audio, audio')
  BY <1>2, <1>4 DEF Kept, GaveBack
<1>5. CASE ChangedOver(audio, audio')
  <2>1. /\ InHand(audio) # None /\ audio'.active = InHand(audio).cohort
    BY <1>5 DEF ChangedOver
  <2>2. /\ audio.active # None /\ Follows(audio'.active, audio.active)
        /\ audio'.active \in Cohorts
    BY <1>2, <2>1 DEF Rendering, Renderers, InHand, Tickets
  <2>3. service.active \in {audio.active, None}
    <3>1. CASE attached
      BY <2>1, <3>1 DEF Inv, Agreed, AgreedOn
    <3>2. CASE ~attached
      BY <3>2 DEF Inv, Serving, Served, NewService
    <3> QED BY <3>1, <3>2
  <2> QED BY <1>2, <2>2, <2>3 DEF Master!Exchange, Master!Supersedes, Follows
<1> QED BY <1>3, <1>4, <1>5

\* Every step of the protocol is a step of the master or none.
LEMMA StepIsAtomic == Inv /\ [Next]_vars => [Master!Next]_(Master!master)
<1> SUFFICES ASSUME Inv, [Next]_vars
             PROVE  \/ Master!Open \/ Master!Exchange \/ Master!Learn
                    \/ Master!GiveUp
                    \/ UNCHANGED <<audio.active, service.active>>
  BY DEF Master!Next, Master!master
<1>1. ASSUME NEW generation \in Generations, RenderFinishes(generation)
      PROVE  \/ Master!Open \/ Master!GiveUp
             \/ UNCHANGED <<audio.active, service.active>>
  <2>1. CASE UNCHANGED <<audio.active, service.active>>
    BY <2>1
  <2>2. CASE /\ service'.active = audio'.active
             /\ audio'.active \in Cohorts /\ audio'.active.ready
             /\ audio'.active.plan = published
    <3>1. audio.active # None => audio.active.plan <= published
      BY DEF Inv, Rendering
    <3> QED BY <2>2, <3>1 DEF Master!Open, Master!Supersedes
  <2>3. CASE audio' = audio /\ service'.active = None
    BY <2>3 DEF Master!GiveUp
  <2> QED BY <1>1, <2>1, <2>2, <2>3, RenderFinishesKeeps
<1>2. ASSUME NEW generation \in Generations,
             \/ Request(generation) \/ RenderIsCancelled(generation)
             \/ RenderFails(generation) \/ RenderIsSuperseded(generation)
      PROVE  UNCHANGED <<audio.active, service.active>>
  BY <1>2, CancelledRenderKeeps, FailedRenderKeeps, SupersededRenderKeeps
     DEF Request
<1>3. CASE Deposit
  BY <1>3 DEF Deposit
<1>4. CASE Tick
  <2>1. service.active # None
    BY <1>4, TickKeeps DEF Inv, Serving, Served
  <2> QED BY <1>4, <2>1, TickKeeps DEF Master!Learn
<1>5. CASE Play \/ (\E loop \in Loops \cup {None} : SetLoop(loop))
  BY <1>5, CommandKeeps DEF work
<1>6. CASE Boundary
  BY <1>6, BoundaryExchanges
<1>7. CASE UNCHANGED vars
  BY <1>7 DEF vars
<1> QED BY <1>1, <1>2, <1>3, <1>4, <1>5, <1>6, <1>7 DEF Next, Boundary

\* The mailbox, the tickets and the receipts implement an atomic exchange that
\* goes forward only and waits for the control thread to have learnt of the
\* last one (activate_if, poll_publication, complete_render).
THEOREM ExchangeIsAtomic == Spec => PublicationIsAtomic
<1>1. Init => Master!Init
  BY DEF Init, Master!Init, NewRenderer, NewService
<1> QED BY <1>1, StepIsAtomic, Invariance, PTL
        DEF Spec, PublicationIsAtomic, Master!Spec
=============================================================================
