------------------------- MODULE ProjectDocumentProofs -------------------------
(***************************************************************************)
(* Theorems about the document and its packages, for every set of          *)
(* commands, domains and packages, every limit and every bound: what the   *)
(* steps of a package keep, what a replay brings back, and the invariants  *)
(* of saves, autosaves, compaction and replacement.                        *)
(***************************************************************************)
EXTENDS ProjectDocument, OrderProofs, SequenceTheorems

-----------------------------------------------------------------------------
(* One package                                                             *)

\* A record of a package with one field replaced.
LEMMA PackageUpdate ==
  ASSUME NEW p, p = [primary |-> p.primary, payloads |-> p.payloads,
                     recoveries |-> p.recoveries, segments |-> p.segments],
         NEW v
  PROVE  /\ [p EXCEPT !.primary = v] =
              [primary |-> v, payloads |-> p.payloads,
               recoveries |-> p.recoveries, segments |-> p.segments]
         /\ [p EXCEPT !.payloads = v] =
              [primary |-> p.primary, payloads |-> v,
               recoveries |-> p.recoveries, segments |-> p.segments]
         /\ [p EXCEPT !.recoveries = v] =
              [primary |-> p.primary, payloads |-> p.payloads,
               recoveries |-> v, segments |-> p.segments]
         /\ [p EXCEPT !.segments = v] =
              [primary |-> p.primary, payloads |-> p.payloads,
               recoveries |-> p.recoveries, segments |-> v]
OBVIOUS

\* A package that holds what p holds, but for its primary.
LEMMA PrimaryWritten ==
  ASSUME NEW p, IsPackage(p), NEW project \in Project
  PROVE  LET q == WithPrimary(p, project) IN
           /\ IsPackage(q) /\ q.primary = project /\ q.payloads = p.payloads
           /\ q.recoveries = p.recoveries /\ q.segments = p.segments
<1> DEFINE q == WithPrimary(p, project)
<1>1. q = [primary |-> project, payloads |-> p.payloads,
           recoveries |-> p.recoveries, segments |-> p.segments]
  BY PackageUpdate DEF IsPackage, WithPrimary
<1> HIDE DEF q
<1>2. /\ q.primary = project /\ q.payloads = p.payloads
      /\ q.recoveries = p.recoveries /\ q.segments = p.segments
  BY <1>1
<1>3. IsPackage(q)
  BY <1>1, <1>2 DEF IsPackage
<1> QED BY <1>2, <1>3 DEF q

\* write_immutable adds one payload and rewrites none.
LEMMA PayloadWritten ==
  ASSUME NEW p, IsPackage(p), NEW project \in Project, NEW d \in Domains
  PROVE  LET q == WithPayload(p, project, d) IN
           /\ IsPackage(q) /\ q.primary = p.primary
           /\ q.recoveries = p.recoveries /\ q.segments = p.segments
           /\ q.payloads = Put(p.payloads, PayloadKey(project, d), DomainPayload(project, d))
<1> DEFINE q == WithPayload(p, project, d)
           v == Put(p.payloads, PayloadKey(project, d), DomainPayload(project, d))
<1>1. q = [primary |-> p.primary, payloads |-> v,
           recoveries |-> p.recoveries, segments |-> p.segments]
  BY PackageUpdate DEF IsPackage, WithPayload
<1>2. DOMAIN v = DOMAIN p.payloads \cup {PayloadKey(project, d)}
  BY DEF Put
<1>3. PayloadKey(project, d) \in Nat \X Domains
  BY LenProperties DEF PayloadKey, Revision, Project
<1> HIDE DEF q, v
<1>4. /\ q.primary = p.primary /\ q.payloads = v
      /\ q.recoveries = p.recoveries /\ q.segments = p.segments
  BY <1>1
<1>5. IsPackage(q)
  BY <1>1, <1>2, <1>3, <1>4 DEF IsPackage
<1> QED BY <1>4, <1>5 DEF q, v

\* The time of a new manifest is later than that of every other.
LEMMA NowIsNew ==
  ASSUME NEW p, IsPackage(p)
  PROVE  Now(p) \in Nat /\ Now(p) \notin DOMAIN p.recoveries
<1> DEFINE S == {0} \cup DOMAIN p.recoveries
<1>1. S \subseteq Nat /\ S # {} /\ IsFiniteSet(S)
  BY FS_AddElement DEF IsPackage
<1>2. Max(S) \in S /\ \A x \in S : x =< Max(S)
  BY <1>1, MaxAndMin
<1>3. Now(p) = 1 + Max(S) /\ DOMAIN p.recoveries \subseteq S
  BY DEF Now
<1> DEFINE newest == Max(S)
<1> HIDE DEF S, newest
<1>4. newest \in Nat /\ Now(p) = 1 + newest /\ \A t \in DOMAIN p.recoveries : t =< newest
  BY <1>1, <1>2, <1>3 DEF newest
<1>5. \A t \in DOMAIN p.recoveries : t \in Nat
  BY <1>1, <1>3
<1> QED BY <1>4, <1>5

\* An autosave adds one manifest and rewrites none.
LEMMA RecoveryWritten ==
  ASSUME NEW p, IsPackage(p), NEW project \in Project
  PROVE  LET q == WithRecovery(p, project) IN
           /\ IsPackage(q) /\ q.primary = p.primary
           /\ q.payloads = p.payloads /\ q.segments = p.segments
           /\ \A t \in DOMAIN q.recoveries :
                \/ q.recoveries[t] = project
                \/ t \in DOMAIN p.recoveries /\ q.recoveries[t] = p.recoveries[t]
<1> DEFINE q == WithRecovery(p, project)
           v == Put(p.recoveries, Now(p), project)
<1>1. q = [primary |-> p.primary, payloads |-> p.payloads,
           recoveries |-> v, segments |-> p.segments]
  BY PackageUpdate DEF IsPackage, WithRecovery
<1>2. /\ DOMAIN v = DOMAIN p.recoveries \cup {Now(p)}
      /\ \A t \in DOMAIN v : v[t] = IF t = Now(p) THEN project ELSE p.recoveries[t]
  BY DEF Put
<1>3. IsFiniteSet(DOMAIN v) /\ DOMAIN v \subseteq Nat
  BY <1>2, NowIsNew, FS_AddElement DEF IsPackage
<1> HIDE DEF q, v
<1>4. /\ q.primary = p.primary /\ q.payloads = p.payloads
      /\ q.recoveries = v /\ q.segments = p.segments
  BY <1>1
<1>5. IsPackage(q)
  BY <1>1, <1>2, <1>3, <1>4 DEF IsPackage
<1> QED BY <1>2, <1>4, <1>5 DEF q

\* Rotation removes manifests and nothing else.
LEMMA RecoveriesRotated ==
  ASSUME NEW p, IsPackage(p)
  PROVE  LET q == Rotated(p) IN
           /\ IsPackage(q) /\ q.primary = p.primary
           /\ q.payloads = p.payloads /\ q.segments = p.segments
           /\ DOMAIN q.recoveries \subseteq DOMAIN p.recoveries
           /\ \A t \in DOMAIN q.recoveries : q.recoveries[t] = p.recoveries[t]
<1> DEFINE all == p.recoveries
           kept == {i \in DOMAIN all :
                      Cardinality({j \in DOMAIN all : Outlives(all, j, i)}) < MaxRecoveryCheckpoints}
           q == Rotated(p)
           v == Restrict(p.recoveries, kept)
<1>1. q = [primary |-> p.primary, payloads |-> p.payloads,
           recoveries |-> v, segments |-> p.segments]
  BY PackageUpdate DEF IsPackage, Rotated
<1>2. kept \subseteq DOMAIN p.recoveries
  OBVIOUS
<1> HIDE DEF kept
<1>3. DOMAIN v = kept /\ \A t \in kept : v[t] = p.recoveries[t]
  BY DEF Restrict
<1>4. IsFiniteSet(kept)
  BY <1>2, FS_Subset DEF IsPackage
<1> HIDE DEF q, v
<1>5. /\ q.primary = p.primary /\ q.payloads = p.payloads
      /\ q.recoveries = v /\ q.segments = p.segments
  BY <1>1
<1>6. IsPackage(q)
  BY <1>1, <1>2, <1>3, <1>4, <1>5 DEF IsPackage
<1> QED BY <1>2, <1>3, <1>5, <1>6 DEF q

\* What a segment file may hold.
IsSegmentFile(s) == s \in Segment /\ IsFiniteSet(s.frames) /\ s.frames # {}

\* A segment file is added or removed, and nothing else changes.
LEMMA SegmentsWritten ==
  ASSUME NEW p, IsPackage(p), NEW s
  PROVE  /\ LET q == WithoutSegment(p, s) IN
              /\ IsPackage(q) /\ q.primary = p.primary /\ q.payloads = p.payloads
              /\ q.recoveries = p.recoveries /\ q.segments = p.segments \ {s}
         /\ LET q == WithSegment(p, s) IN
              IsSegmentFile(s) =>
              /\ IsPackage(q) /\ q.primary = p.primary /\ q.payloads = p.payloads
              /\ q.recoveries = p.recoveries /\ q.segments = p.segments \cup {s}
<1>1. ASSUME NEW v, NEW q, q = [p EXCEPT !.segments = v], IsFiniteSet(v),
             \A t \in v : IsSegmentFile(t)
      PROVE  /\ IsPackage(q) /\ q.primary = p.primary /\ q.payloads = p.payloads
             /\ q.recoveries = p.recoveries /\ q.segments = v
  <2>1. q = [primary |-> p.primary, payloads |-> p.payloads,
             recoveries |-> p.recoveries, segments |-> v]
    BY <1>1, PackageUpdate DEF IsPackage
  <2>2. /\ q.primary = p.primary /\ q.payloads = p.payloads
        /\ q.recoveries = p.recoveries /\ q.segments = v
    BY <2>1
  <2> QED BY <1>1, <2>1, <2>2 DEF IsPackage, IsSegmentFile
<1>2. /\ IsFiniteSet(p.segments \ {s}) /\ IsFiniteSet(p.segments \cup {s})
      /\ \A t \in p.segments : IsSegmentFile(t)
  BY FS_AddElement, FS_RemoveElement DEF IsPackage, IsSegmentFile
<1>3. ASSUME NEW q, q = [p EXCEPT !.segments = p.segments \ {s}]
      PROVE  /\ IsPackage(q) /\ q.primary = p.primary /\ q.payloads = p.payloads
             /\ q.recoveries = p.recoveries /\ q.segments = p.segments \ {s}
  BY <1>1, <1>2, <1>3
<1>4. ASSUME NEW q, q = [p EXCEPT !.segments = p.segments \cup {s}], IsSegmentFile(s)
      PROVE  /\ IsPackage(q) /\ q.primary = p.primary /\ q.payloads = p.payloads
             /\ q.recoveries = p.recoveries /\ q.segments = p.segments \cup {s}
  BY <1>1, <1>2, <1>4
<1> QED BY <1>3, <1>4 DEF WithoutSegment, WithSegment

\* Everything a package's journal holds is a frame, and there are finitely many.
LEMMA FramesAreFinite ==
  ASSUME NEW segments, IsFiniteSet(segments), \A s \in segments : IsSegmentFile(s)
  PROVE  FramesIn(segments) \subseteq Frame /\ IsFiniteSet(FramesIn(segments))
<1> DEFINE parts == {s.frames : s \in segments}
           f == [s \in segments |-> s.frames]
<1>1. f \in Surjection(segments, parts)
  BY DEF Surjection
<1> HIDE DEF f
<1>2. IsFiniteSet(parts)
  BY <1>1, FS_Surjection
<1>3. \A part \in parts : IsFiniteSet(part) /\ part \subseteq Frame
  BY DEF IsSegmentFile, Segment
<1> HIDE DEF parts
<1>4. IsFiniteSet(UNION parts) /\ UNION parts \subseteq Frame
  BY <1>2, <1>3, FS_UNION
<1> QED BY <1>4 DEF FramesIn, parts

-----------------------------------------------------------------------------
(* Recovery                                                                *)

\* What is known of a frame.
LEMMA FrameType ==
  ASSUME NEW f \in Frame
  PROVE  /\ f.sequence \in Nat \ {0} /\ f.result \in Project
         /\ Revision(f.result) \in Nat \ {0} /\ Last(f.result) \in Commands
<1>1. f.sequence \in Nat \ {0} /\ f.result \in Project /\ f.result # << >>
  BY DEF Frame
<1>2. Len(f.result) \in Nat \ {0}
  BY <1>1, EmptySeq DEF Project
<1>3. f.result[Len(f.result)] \in Commands
  BY <1>1, <1>2, ElementOfSeq DEF Project
<1> QED BY <1>1, <1>2, <1>3 DEF Revision, Last

\* The sequence a replay starts at exists.
LEMMA ReplayStartType ==
  ASSUME NEW frames, frames \subseteq Frame, IsFiniteSet(frames), NEW project \in Project
  PROVE  ReplayStart(frames, project) \in Nat \ {0}
<1>1. ASSUME NEW F, F \subseteq frames
      PROVE  LET S == {f.sequence : f \in F}
             IN  S \subseteq Nat \ {0} /\ IsFiniteSet(S)
  <2> DEFINE S == {f.sequence : f \in F}
             g == [f \in F |-> f.sequence]
  <2>1. g \in Surjection(F, S)
    BY DEF Surjection
  <2> HIDE DEF g
  <2>2. IsFiniteSet(F)
    BY <1>1, FS_Subset
  <2>3. IsFiniteSet(S)
    BY <2>1, <2>2, FS_Surjection
  <2>4. S \subseteq Nat \ {0}
    BY <1>1, FrameType
  <2> QED BY <2>3, <2>4
<1>2. /\ Anchors(frames, project) \subseteq Nat \ {0} /\ IsFiniteSet(Anchors(frames, project))
      /\ Heads(frames, project) \subseteq Nat \ {0} /\ IsFiniteSet(Heads(frames, project))
  BY <1>1 DEF Anchors, Heads, Unambiguous
<1>3. Anchors(frames, project) # {} => Max(Anchors(frames, project)) \in Nat \ {0}
  BY <1>2, MaxAndMin
<1>4. Heads(frames, project) # {} => Min(Heads(frames, project)) \in Nat \ {0}
  BY <1>2, MaxAndMin
<1> DEFINE m == Max(Anchors(frames, project))
           l == Min(Heads(frames, project))
<1> HIDE DEF m, l
<1>5. ReplayStart(frames, project) = IF Anchors(frames, project) # {} THEN 1 + m
                                     ELSE IF Heads(frames, project) # {} THEN l ELSE 1
  BY DEF ReplayStart, m, l
<1> QED BY <1>3, <1>4, <1>5 DEF m, l

\* A replay ends, after commands that can be replayed.
LEMMA ReplayLengthType ==
  ASSUME NEW frames, IsFiniteSet(frames), NEW project
  PROVE  /\ ReplayLength(frames, project) \in Nat
         /\ IsReplayable(frames, project, ReplayLength(frames, project))
<1> DEFINE N == 0 .. Cardinality(frames)
           S == {n \in N : IsReplayable(frames, project, n)}
<1>1. Cardinality(frames) \in Nat
  BY FS_CardinalityType
<1>2. IsFiniteSet(N) /\ S \subseteq N /\ N \subseteq Nat
  BY <1>1, FS_Interval
<1>3. 0 \in S
  BY <1>1 DEF IsReplayable
<1> HIDE DEF N
<1>4. S \subseteq Nat /\ S # {} /\ IsFiniteSet(S)
  BY <1>2, <1>3, FS_Subset
<1>5. Max(S) \in S
  BY <1>4, MaxAndMin
<1>6. ReplayLength(frames, project) = Max(S)
  BY DEF ReplayLength, N
<1> QED BY <1>4, <1>5, <1>6

\* What is replayed is a project that begins with the snapshot, longer by the
\* commands replayed, and the next command's sequence is a sequence.
LEMMA ReplayExtends ==
  ASSUME NEW frames, frames \subseteq Frame, IsFiniteSet(frames), NEW project \in Project
  PROVE  /\ Replayed(frames, project) \in Project
         /\ Revision(project) =< Revision(Replayed(frames, project))
         /\ SubSeq(Replayed(frames, project), 1, Revision(project)) = project
         /\ NextSequence(frames, project) \in Nat \ {0}
<1> DEFINE n == ReplayLength(frames, project)
           e == [i \in 1 .. n |-> Last((CHOOSE f \in Nth(frames, project, i) : TRUE).result)]
<1>1. n \in Nat /\ IsReplayable(frames, project, n)
  BY ReplayLengthType
<1> HIDE DEF n
<1>2. e \in Seq(Commands) /\ Len(e) = n
  <2>1. ASSUME NEW i \in 1 .. n
        PROVE  Last((CHOOSE f \in Nth(frames, project, i) : TRUE).result) \in Commands
    <3>1. Nth(frames, project, i) # {} /\ Nth(frames, project, i) \subseteq frames
      BY <1>1, <2>1 DEF IsReplayable, Nth, Unambiguous
    <3>2. (CHOOSE f \in Nth(frames, project, i) : TRUE) \in Frame
      BY <3>1
    <3> QED BY <3>2, FrameType
  <2>2. e \in [1 .. n -> Commands]
    BY <2>1
  <2> HIDE DEF e
  <2> QED BY <1>1, <2>2, SeqDef
<1>3. Replayed(frames, project) = project \o e
  BY DEF Replayed, Replaying, n
<1> HIDE DEF e
<1>4. /\ project \o e \in Seq(Commands) /\ Len(project \o e) = Len(project) + n
      /\ Len(project) \in Nat
      /\ \A i \in 1 .. Len(project) + n : (project \o e)[i] =
           IF i <= Len(project) THEN project[i] ELSE e[i - Len(project)]
  BY <1>2, ConcatProperties, LenProperties DEF Project
<1>5. SubSeq(project \o e, 1, Len(project)) = project
  <2> DEFINE t == SubSeq(project \o e, 1, Len(project))
  <2>1. /\ t \in Seq(Commands) /\ Len(t) = Len(project)
        /\ \A i \in 1 .. Len(project) : t[i] = (project \o e)[i]
    <3>1. \A i \in 1 .. Len(project) : (project \o e)[i] \in Commands
      BY <1>1, <1>4, ElementOfSeq
    <3> QED BY <1>4, <3>1, SubSeqProperties
  <2> HIDE DEF t
  <2> QED BY <1>1, <1>4, <2>1, SeqEqual DEF Project, t
<1>6. NextSequence(frames, project) \in Nat \ {0}
  BY <1>1, ReplayStartType DEF NextSequence, n
<1> QED BY <1>1, <1>3, <1>4, <1>5, <1>6 DEF Project, Revision

-----------------------------------------------------------------------------
(* The inductive invariant: types                                          *)

Stages == {"payloads", "rotate", "segment", "compact", "merge", "remove", "finished"}

\* A task merges and removes only what it read as segments.
SaveSound(j) ==
  /\ j \in Save
  /\ j.persisted => j.ok /\ j.delta # << >> /\ j.stage \notin {"payloads", "rotate", "segment"}
  /\ IsFiniteSet(j.sources) /\ \A s \in j.sources : IsSegmentFile(s)
  /\ j.stage = "merge" => j.sources # {}
  /\ j.stage # "finished" => j.ok

DocumentSound(doc) ==
  /\ doc \in Document
  /\ doc.saved_revision = Revision(doc.saved_project)
  /\ doc.files = None => doc.identity = "none"

\* What an open has read by the stage it is in.
OpenSound(task) ==
  /\ task \in Open /\ IsFiniteSet(task.frames)
  /\ task.stage # "analyze" => task.package \in Packages /\ task.identity # "none"
  /\ task.stage = "manifest" /\ task.identity # "primary" => task.checkpoint \in Project
  /\ task.stage \in {"journal", "ready"} => task.project \in Project

Typed ==
  /\ DOMAIN disk = Packages /\ \A p \in Packages : IsPackage(disk[p])
  /\ document # None => DocumentSound(document)
  /\ IsFiniteSet(saves) /\ \A j \in saves : SaveSound(j)
  /\ opening # None => OpenSound(opening)
  /\ autosave_last_revision \in {None} \cup Nat
  /\ installs \in 0 .. MaxInstalls /\ faults \in 0 .. MaxFaults

-----------------------------------------------------------------------------
(* The steps of a save task                                                *)

\* What capture_save captured stays as it is, and who listens.
Captured(j, k) ==
  /\ k.kind = j.kind /\ k.package = j.package /\ k.project = j.project
  /\ k.delta = j.delta /\ k.checkpoint = j.checkpoint /\ k.epoch = j.epoch
  /\ k.heard = j.heard

\* The task at another point of its work.
At(j, stage, written, ok, persisted, sources) ==
  [kind |-> j.kind, package |-> j.package, project |-> j.project, delta |-> j.delta,
   checkpoint |-> j.checkpoint, epoch |-> j.epoch, heard |-> j.heard, stage |-> stage,
   written |-> written, ok |-> ok, persisted |-> persisted, sources |-> sources]

\* A task put at such a point is a task that captured the same document.
LEMMA SaveAt ==
  ASSUME NEW j \in Save, NEW stage \in Stages, NEW written \in 0 .. Len(PayloadOrder),
         NEW ok \in BOOLEAN, NEW persisted \in BOOLEAN, NEW sources \in SUBSET Segment
  PROVE  LET k == At(j, stage, written, ok, persisted, sources) IN
           /\ k \in Save /\ Captured(j, k)
           /\ k.stage = stage /\ k.written = written /\ k.ok = ok
           /\ k.persisted = persisted /\ k.sources = sources
<1>1. /\ j.kind \in {"primary", "autosave"} /\ j.package \in Packages /\ j.project \in Project
      /\ j.delta \in Seq(Frame) /\ j.checkpoint \in Checkpoint /\ j.epoch \in Nat
      /\ j.heard \in BOOLEAN
  BY DEF Save
<1>2. At(j, stage, written, ok, persisted, sources) \in Save
  BY <1>1 DEF At, Save, Stages
<1>3. Captured(j, At(j, stage, written, ok, persisted, sources))
  BY DEF At, Captured
<1> QED BY <1>2, <1>3 DEF At

\* Every task is at such a point: its own.
LEMMA SaveIsAt ==
  ASSUME NEW j \in Save
  PROVE  /\ j = At(j, j.stage, j.written, j.ok, j.persisted, j.sources)
         /\ j.stage \in Stages /\ j.written \in 0 .. Len(PayloadOrder) /\ j.ok \in BOOLEAN
         /\ j.persisted \in BOOLEAN /\ j.sources \in SUBSET Segment
         /\ j.kind \in {"primary", "autosave"} /\ j.package \in Packages
         /\ j.project \in Project /\ j.delta \in Seq(Frame) /\ j.checkpoint \in Checkpoint
         /\ j.epoch \in Nat /\ j.heard \in BOOLEAN
BY DEF Save, At, Stages

\* The updates a task makes of itself, each to such a point.
Staged(j, stage) == [j EXCEPT !.stage = stage]
StagedOk(j, stage, ok) == [j EXCEPT !.stage = stage, !.ok = ok]
StagedWith(j, stage, sources) == [j EXCEPT !.stage = stage, !.sources = sources]
StagedSafe(j, stage, persisted) == [j EXCEPT !.stage = stage, !.persisted = persisted]
Wrote(j, written) == [j EXCEPT !.written = written]
With(j, sources) == [j EXCEPT !.sources = sources]

\* Moving to another stage changes the stage alone.
LEMMA StagedTask ==
  ASSUME NEW j \in Save, NEW stage \in Stages
  PROVE  LET k == Staged(j, stage) IN
           /\ k \in Save /\ Captured(j, k)
           /\ k.stage = stage /\ k.written = j.written /\ k.ok = j.ok
           /\ k.persisted = j.persisted /\ k.sources = j.sources
<1>1. /\ j = At(j, j.stage, j.written, j.ok, j.persisted, j.sources)
      /\ j.stage \in Stages /\ j.written \in 0 .. Len(PayloadOrder) /\ j.ok \in BOOLEAN
      /\ j.persisted \in BOOLEAN /\ j.sources \in SUBSET Segment
  BY SaveIsAt
<1>2. Staged(j, stage) = At(j, stage, j.written, j.ok, j.persisted, j.sources)
  BY <1>1 DEF Staged, At
<1> QED BY <1>1, <1>2, SaveAt

\* Ending, or failing, changes the stage and the outcome alone.
LEMMA StagedOkTask ==
  ASSUME NEW j \in Save, NEW stage \in Stages, NEW ok \in BOOLEAN
  PROVE  LET k == StagedOk(j, stage, ok) IN
           /\ k \in Save /\ Captured(j, k)
           /\ k.stage = stage /\ k.written = j.written /\ k.ok = ok
           /\ k.persisted = j.persisted /\ k.sources = j.sources
<1>1. /\ j = At(j, j.stage, j.written, j.ok, j.persisted, j.sources)
      /\ j.stage \in Stages /\ j.written \in 0 .. Len(PayloadOrder) /\ j.ok \in BOOLEAN
      /\ j.persisted \in BOOLEAN /\ j.sources \in SUBSET Segment
  BY SaveIsAt
<1> DEFINE k == At(j, stage, j.written, j.ok, j.persisted, j.sources)
<1>2. StagedOk(j, stage, ok) = At(j, stage, j.written, ok, j.persisted, j.sources)
  <2>1. StagedOk(j, stage, ok) = [[j EXCEPT !.stage = stage] EXCEPT !.ok = ok]
    BY DEF StagedOk
  <2>2. [j EXCEPT !.stage = stage] = k
    BY <1>1 DEF At
  <2>3. [k EXCEPT !.ok = ok] = At(j, stage, j.written, ok, j.persisted, j.sources)
    BY DEF At
  <2> HIDE DEF k
  <2> QED BY <2>1, <2>2, <2>3
<1> QED BY <1>1, <1>2, SaveAt

\* Taking up sources changes the stage and the sources alone.
LEMMA StagedWithTask ==
  ASSUME NEW j \in Save, NEW stage \in Stages, NEW sources \in SUBSET Segment
  PROVE  LET k == StagedWith(j, stage, sources) IN
           /\ k \in Save /\ Captured(j, k)
           /\ k.stage = stage /\ k.written = j.written /\ k.ok = j.ok
           /\ k.persisted = j.persisted /\ k.sources = sources
<1>1. /\ j = At(j, j.stage, j.written, j.ok, j.persisted, j.sources)
      /\ j.stage \in Stages /\ j.written \in 0 .. Len(PayloadOrder) /\ j.ok \in BOOLEAN
      /\ j.persisted \in BOOLEAN /\ j.sources \in SUBSET Segment
  BY SaveIsAt
<1> DEFINE k == At(j, stage, j.written, j.ok, j.persisted, j.sources)
<1>2. StagedWith(j, stage, sources) = At(j, stage, j.written, j.ok, j.persisted, sources)
  <2>1. StagedWith(j, stage, sources) = [[j EXCEPT !.stage = stage] EXCEPT !.sources = sources]
    BY DEF StagedWith
  <2>2. [j EXCEPT !.stage = stage] = k
    BY <1>1 DEF At
  <2>3. [k EXCEPT !.sources = sources] = At(j, stage, j.written, j.ok, j.persisted, sources)
    BY DEF At
  <2> HIDE DEF k
  <2> QED BY <2>1, <2>2, <2>3
<1> QED BY <1>1, <1>2, SaveAt

\* Having written the delta changes the stage and the persisted mark alone.
LEMMA StagedSafeTask ==
  ASSUME NEW j \in Save, NEW stage \in Stages, NEW persisted \in BOOLEAN
  PROVE  LET k == StagedSafe(j, stage, persisted) IN
           /\ k \in Save /\ Captured(j, k)
           /\ k.stage = stage /\ k.written = j.written /\ k.ok = j.ok
           /\ k.persisted = persisted /\ k.sources = j.sources
<1>1. /\ j = At(j, j.stage, j.written, j.ok, j.persisted, j.sources)
      /\ j.stage \in Stages /\ j.written \in 0 .. Len(PayloadOrder) /\ j.ok \in BOOLEAN
      /\ j.persisted \in BOOLEAN /\ j.sources \in SUBSET Segment
  BY SaveIsAt
<1> DEFINE k == At(j, stage, j.written, j.ok, j.persisted, j.sources)
<1>2. StagedSafe(j, stage, persisted) = At(j, stage, j.written, j.ok, persisted, j.sources)
  <2>1. StagedSafe(j, stage, persisted) = [[j EXCEPT !.stage = stage] EXCEPT !.persisted = persisted]
    BY DEF StagedSafe
  <2>2. [j EXCEPT !.stage = stage] = k
    BY <1>1 DEF At
  <2>3. [k EXCEPT !.persisted = persisted] = At(j, stage, j.written, j.ok, persisted, j.sources)
    BY DEF At
  <2> HIDE DEF k
  <2> QED BY <2>1, <2>2, <2>3
<1> QED BY <1>1, <1>2, SaveAt

\* One more payload written changes that count alone.
LEMMA WroteTask ==
  ASSUME NEW j \in Save, NEW written \in 0 .. Len(PayloadOrder)
  PROVE  LET k == Wrote(j, written) IN
           /\ k \in Save /\ Captured(j, k)
           /\ k.stage = j.stage /\ k.written = written /\ k.ok = j.ok
           /\ k.persisted = j.persisted /\ k.sources = j.sources
<1>1. /\ j = At(j, j.stage, j.written, j.ok, j.persisted, j.sources)
      /\ j.stage \in Stages /\ j.written \in 0 .. Len(PayloadOrder) /\ j.ok \in BOOLEAN
      /\ j.persisted \in BOOLEAN /\ j.sources \in SUBSET Segment
  BY SaveIsAt
<1>2. Wrote(j, written) = At(j, j.stage, written, j.ok, j.persisted, j.sources)
  BY <1>1 DEF Wrote, At
<1> QED BY <1>1, <1>2, SaveAt

\* One source less changes the sources alone.
LEMMA WithTask ==
  ASSUME NEW j \in Save, NEW sources \in SUBSET Segment
  PROVE  LET k == With(j, sources) IN
           /\ k \in Save /\ Captured(j, k)
           /\ k.stage = j.stage /\ k.written = j.written /\ k.ok = j.ok
           /\ k.persisted = j.persisted /\ k.sources = sources
<1>1. /\ j = At(j, j.stage, j.written, j.ok, j.persisted, j.sources)
      /\ j.stage \in Stages /\ j.written \in 0 .. Len(PayloadOrder) /\ j.ok \in BOOLEAN
      /\ j.persisted \in BOOLEAN /\ j.sources \in SUBSET Segment
  BY SaveIsAt
<1>2. With(j, sources) = At(j, j.stage, j.written, j.ok, j.persisted, sources)
  BY <1>1 DEF With, At
<1> QED BY <1>1, <1>2, SaveAt

\* The payload the task wrote as its n-th is on disk.
PayloadThere(package, j, n) ==
  LET key == PayloadKey(j.project, PayloadOrder[n])
  IN  /\ key \in DOMAIN package.payloads
      /\ package.payloads[key] = DomainPayload(j.project, PayloadOrder[n])

\* The manifest of an explicit save is written in this step.
Publishes(j, k) ==
  j.kind = "primary" /\ j.stage = "payloads" /\ k.stage # "payloads" /\ k.ok

\* What a step of task j, which becomes k, does to its checkpoint ...
MovesCheckpoint(j, k, p, q) ==
  /\ \A key \in DOMAIN p.payloads :
       key \in DOMAIN q.payloads /\ q.payloads[key] = p.payloads[key]
  /\ IF Publishes(j, k) THEN q.primary = j.project /\ j.written = Len(PayloadOrder)
     ELSE q.primary = p.primary
  /\ \A t \in DOMAIN q.recoveries :
       \/ t \in DOMAIN p.recoveries /\ q.recoveries[t] = p.recoveries[t]
       \/ /\ q.recoveries[t] = j.project
          /\ j.stage = "payloads" /\ j.written = Len(PayloadOrder)
  /\ k.stage = "payloads" =>
       j.stage = "payloads" /\ k.written = j.written + 1 /\ PayloadThere(q, j, k.written)

\* ... and to the journal.
MovesJournal(j, k, p, q) ==
  \/ q.segments = p.segments /\ k.stage # "remove" /\ k.persisted = j.persisted
  \/ q.segments = p.segments \cup {SegmentOf(j.delta)} /\ k.stage # "remove"
  \/ /\ q.segments = p.segments \cup {Merged(j.sources)} /\ k.persisted = j.persisted
     /\ k.stage = "remove" /\ k.sources = j.sources \ {Merged(j.sources)}
  \/ /\ j.stage = "remove" /\ k.stage = "remove" /\ k.persisted = j.persisted
     /\ \E s \in j.sources : /\ q.segments = p.segments \ {s}
                             /\ k.sources = j.sources \ {s}

Moves(j, k) ==
  /\ saves' = (saves \ {j}) \cup {k}
  /\ SaveSound(k) /\ Captured(j, k) /\ (k.ok => j.ok)
  /\ DOMAIN disk' = Packages /\ IsPackage(disk'[j.package])
  /\ \A p \in Packages \ {j.package} : disk'[p] = disk[p]
  /\ MovesCheckpoint(j, k, disk[j.package], disk'[j.package])
  /\ MovesJournal(j, k, disk[j.package], disk'[j.package])
  /\ UNCHANGED <<document, opening, autosave_last_revision, installs>>
  /\ faults' \in 0 .. MaxFaults

\* Writing one package leaves the others alone.
LEMMA OnlyOneWritten ==
  ASSUME DOMAIN disk = Packages, NEW j, j.package \in Packages, NEW q, Writes(j, q)
  PROVE  /\ DOMAIN disk' = Packages /\ disk'[j.package] = q
         /\ \A p \in Packages \ {j.package} : disk'[p] = disk[p]
BY DEF Writes

\* What is known of a running task.
LEMMA TaskFacts ==
  ASSUME Typed, NEW j \in saves
  PROVE  /\ SaveSound(j) /\ j \in Save /\ j.package \in Packages /\ j.project \in Project
         /\ DOMAIN disk = Packages /\ IsPackage(disk[j.package])
         /\ faults \in 0 .. MaxFaults /\ Len(PayloadOrder) \in Nat
<1>1. SaveSound(j) /\ j \in Save
  BY DEF Typed, SaveSound
<1>2. j.package \in Packages /\ j.project \in Project
  BY <1>1, SaveIsAt
<1>3. Len(PayloadOrder) \in Nat
  BY PackageAssumption, LenProperties
<1> QED BY <1>1, <1>2, <1>3 DEF Typed

\* A write that fails is one of those the bound allows.
LEMMA FaultsBounded ==
  ASSUME Typed, Fault \/ NoFault
  PROVE  faults' \in 0 .. MaxFaults /\ SaveStep
BY DocumentAssumption DEF Typed, Fault, NoFault

\* A step that leaves the disk alone and only changes the point of work.
LEMMA StageMoves ==
  ASSUME Typed, NEW j \in saves, NEW k, Becomes(j, k), UNCHANGED disk, Fault \/ NoFault,
         SaveSound(k), Captured(j, k), k.ok => j.ok,
         k.persisted = j.persisted, k.stage \notin {"payloads", "remove"},
         ~Publishes(j, k)
  PROVE  Moves(j, k)
<1>1. MovesCheckpoint(j, k, disk[j.package], disk'[j.package])
  BY DEF MovesCheckpoint
<1>2. MovesJournal(j, k, disk[j.package], disk'[j.package])
  BY DEF MovesJournal
<1> QED BY <1>1, <1>2, TaskFacts, FaultsBounded DEF Moves, Becomes, SaveStep

\* The save ends without a checkpoint.
LEMMA FailedTask ==
  ASSUME NEW j \in Save
  PROVE  LET k == Failed(j) IN
           /\ k \in Save /\ Captured(j, k) /\ k.stage = "finished" /\ ~k.ok
           /\ k.persisted = j.persisted /\ k.sources = j.sources
<1>1. Failed(j) = StagedOk(j, "finished", FALSE) /\ FALSE \in BOOLEAN /\ "finished" \in Stages
  BY DEF Failed, StagedOk, Stages
<1>2. ASSUME NEW ok \in BOOLEAN
      PROVE  LET k == StagedOk(j, "finished", ok) IN
               /\ k \in Save /\ Captured(j, k) /\ k.stage = "finished" /\ k.ok = ok
               /\ k.persisted = j.persisted /\ k.sources = j.sources
  BY <1>1, StagedOkTask
<1> QED BY <1>1, <1>2

\* A checkpoint that fails writes nothing and ends its task unsuccessfully.
LEMMA FailureMoves ==
  ASSUME Typed, NEW j \in saves, j.stage = "payloads", Becomes(j, Failed(j)),
         UNCHANGED disk, Fault \/ NoFault
  PROVE  \E k : Moves(j, k)
<1> DEFINE k == Failed(j)
<1>1. /\ k \in Save /\ Captured(j, k) /\ k.stage = "finished" /\ ~k.ok
      /\ k.persisted = j.persisted /\ k.sources = j.sources
  BY TaskFacts, FailedTask
<1> HIDE DEF k
<1>2. SaveSound(k)
  BY <1>1, TaskFacts DEF SaveSound
<1>3. Becomes(j, k)
  BY DEF k
<1> QED BY <1>1, <1>2, <1>3, StageMoves DEF Publishes

\* A step that writes the task's package.
LEMMA WriteMoves ==
  ASSUME Typed, NEW j \in saves, NEW k, Becomes(j, k), NEW q, Writes(j, q), Fault \/ NoFault,
         IsPackage(q), SaveSound(k), Captured(j, k), k.ok => j.ok,
         MovesCheckpoint(j, k, disk[j.package], q), MovesJournal(j, k, disk[j.package], q)
  PROVE  Moves(j, k)
BY OnlyOneWritten, TaskFacts, FaultsBounded DEF Moves, Becomes, SaveStep

\* write_immutable, admitted or refused, is such a move.
LEMMA WritePayloadMoves ==
  ASSUME Typed, NEW j \in saves, WritePayload(j)
  PROVE  \E k : Moves(j, k)
<1> DEFINE p == disk[j.package]
           d == PayloadOrder[j.written + 1]
           q == WithPayload(p, j.project, d)
           k == Wrote(j, j.written + 1)
<1>1. j.stage = "payloads" /\ j.written < Len(PayloadOrder) /\ faults' \in 0 .. MaxFaults
      /\ SaveStep /\ j.written \in 0 .. Len(PayloadOrder)
  BY FaultsBounded, TaskFacts, SaveIsAt DEF WritePayload
<1>2. CASE /\ AdmitsPayload(p, j.project, d) /\ Writes(j, q)
           /\ Becomes(j, [j EXCEPT !.written = @ + 1])
  <2>1. Becomes(j, k)
    BY <1>2 DEF Wrote
  <2>2. j.written + 1 \in 1 .. Len(PayloadOrder) /\ j.written + 1 \in 0 .. Len(PayloadOrder)
    BY <1>1, TaskFacts
  <2>3. d \in Domains
    BY <2>2, PackageAssumption, ElementOfSeq
  <2>4. /\ k \in Save /\ Captured(j, k) /\ k.stage = "payloads" /\ k.written = j.written + 1
        /\ k.ok = j.ok /\ k.persisted = j.persisted /\ k.sources = j.sources
    BY <1>1, <2>2, WroteTask, TaskFacts
  <2>5. SaveSound(k)
    BY <1>1, <2>4, TaskFacts DEF SaveSound, Captured
  <2>6. /\ IsPackage(q) /\ q.primary = p.primary
        /\ q.recoveries = p.recoveries /\ q.segments = p.segments
        /\ q.payloads = Put(p.payloads, PayloadKey(j.project, d), DomainPayload(j.project, d))
    BY <2>3, PayloadWritten, TaskFacts
  <2>7. MovesCheckpoint(j, k, p, q)
    <3>1. \A key \in DOMAIN p.payloads :
            key \in DOMAIN q.payloads /\ q.payloads[key] = p.payloads[key]
      BY <1>2, <2>6 DEF Put, AdmitsPayload
    <3>2. PayloadThere(q, j, k.written)
      BY <2>4, <2>6 DEF PayloadThere, Put
    <3> QED BY <1>1, <2>4, <2>6, <3>1, <3>2 DEF MovesCheckpoint, Publishes
  <2>8. MovesJournal(j, k, p, q)
    BY <2>4, <2>6 DEF MovesJournal
  <2> HIDE DEF k, q
  <2>9. Fault \/ NoFault
    BY DEF WritePayload
  <2> QED BY <1>2, <2>1, <2>4, <2>5, <2>6, <2>7, <2>8, <2>9, WriteMoves
<1>3. CASE Becomes(j, Failed(j)) /\ UNCHANGED disk
  <2>1. Fault \/ NoFault
    BY DEF WritePayload
  <2> QED BY <1>1, <1>3, <2>1, FailureMoves
<1> QED BY <1>2, <1>3 DEF WritePayload

\* Replacing project.json, or adding a recovery manifest, is the move that publishes.
LEMMA WriteManifestMoves ==
  ASSUME Typed, NEW j \in saves, WriteManifest(j)
  PROVE  \E k : Moves(j, k)
<1> DEFINE p == disk[j.package]
<1>1. /\ j.stage = "payloads" /\ j.written = Len(PayloadOrder) /\ (Fault \/ NoFault)
      /\ {"segment", "rotate"} \subseteq Stages
  BY DEF WriteManifest, Stages
<1>2. ASSUME NEW stage \in {"segment", "rotate"}
      PROVE  LET k == Staged(j, stage) IN
               /\ SaveSound(k) /\ Captured(j, k) /\ k.stage = stage /\ k.ok = j.ok
               /\ k.persisted = j.persisted
  <2> DEFINE k == Staged(j, stage)
  <2>1. /\ k \in Save /\ Captured(j, k) /\ k.stage = stage /\ k.ok = j.ok
        /\ k.persisted = j.persisted /\ k.sources = j.sources
    BY <1>1, StagedTask, TaskFacts
  <2> HIDE DEF k
  <2>2. SaveSound(k)
    BY <1>1, <2>1, TaskFacts DEF SaveSound, Captured
  <2> QED BY <2>1, <2>2 DEF k
<1>3. CASE /\ j.kind = "primary" /\ Writes(j, WithPrimary(p, j.project))
           /\ Becomes(j, [j EXCEPT !.stage = "segment"])
  <2> DEFINE k == Staged(j, "segment")
             q == WithPrimary(p, j.project)
  <2>1. /\ SaveSound(k) /\ Captured(j, k) /\ k.stage = "segment" /\ k.ok = j.ok
        /\ k.persisted = j.persisted
    BY <1>2
  <2>2. /\ IsPackage(q) /\ q.primary = j.project /\ q.payloads = p.payloads
        /\ q.recoveries = p.recoveries /\ q.segments = p.segments
    BY PrimaryWritten, TaskFacts
  <2>3. Becomes(j, k) /\ Writes(j, q)
    BY <1>3 DEF Staged
  <2> HIDE DEF k, q
  <2>4. k.ok => Publishes(j, k)
    BY <1>1, <1>3, <2>1 DEF Publishes
  <2>5. k.ok
    BY <1>1, <2>1, TaskFacts DEF SaveSound
  <2>6. MovesCheckpoint(j, k, p, q) /\ MovesJournal(j, k, p, q)
    BY <1>1, <2>1, <2>2, <2>4, <2>5 DEF MovesCheckpoint, MovesJournal
  <2> QED BY <1>1, <2>1, <2>2, <2>3, <2>6, WriteMoves
<1>4. CASE /\ j.kind = "autosave" /\ Writes(j, WithRecovery(p, j.project))
           /\ Becomes(j, [j EXCEPT !.stage = "rotate"])
  <2> DEFINE k == Staged(j, "rotate")
             q == WithRecovery(p, j.project)
  <2>1. /\ SaveSound(k) /\ Captured(j, k) /\ k.stage = "rotate" /\ k.ok = j.ok
        /\ k.persisted = j.persisted
    BY <1>2
  <2>2. /\ IsPackage(q) /\ q.primary = p.primary
        /\ q.payloads = p.payloads /\ q.segments = p.segments
        /\ \A t \in DOMAIN q.recoveries :
             \/ q.recoveries[t] = j.project
             \/ t \in DOMAIN p.recoveries /\ q.recoveries[t] = p.recoveries[t]
    BY RecoveryWritten, TaskFacts
  <2>3. Becomes(j, k) /\ Writes(j, q)
    BY <1>4 DEF Staged
  <2> HIDE DEF k, q
  <2>4. ~Publishes(j, k)
    BY <1>4 DEF Publishes
  <2>5. MovesCheckpoint(j, k, p, q) /\ MovesJournal(j, k, p, q)
    BY <1>1, <2>1, <2>2, <2>4 DEF MovesCheckpoint, MovesJournal
  <2> QED BY <1>1, <2>1, <2>2, <2>3, <2>5, WriteMoves
<1> QED BY <1>3, <1>4 DEF WriteManifest

\* So is an I/O error while the checkpoint is written.
LEMMA CheckpointFailsMoves ==
  ASSUME Typed, NEW j \in saves, CheckpointFails(j)
  PROVE  \E k : Moves(j, k)
BY FailureMoves DEF CheckpointFails

\* rotate_recovery_checkpoints is a move: a package with fewer recoveries is a package.
LEMMA RotateMoves ==
  ASSUME Typed, NEW j \in saves, Rotate(j)
  PROVE  \E k : Moves(j, k)
<1> DEFINE p == disk[j.package]
           q == Rotated(p)
           k == Staged(j, "segment")
<1>1. j.stage = "rotate" /\ Becomes(j, k) /\ (Fault \/ NoFault)
  BY DEF Rotate, Staged
<1>2. /\ k \in Save /\ Captured(j, k) /\ k.stage = "segment" /\ k.ok = j.ok
      /\ k.persisted = j.persisted /\ k.sources = j.sources
  <2>1. "segment" \in Stages
    BY DEF Stages
  <2> QED BY <2>1, StagedTask, TaskFacts
<1>3. /\ IsPackage(q) /\ q.primary = p.primary
      /\ q.payloads = p.payloads /\ q.segments = p.segments
      /\ DOMAIN q.recoveries \subseteq DOMAIN p.recoveries
      /\ \A t \in DOMAIN q.recoveries : q.recoveries[t] = p.recoveries[t]
  BY RecoveriesRotated, TaskFacts
<1>4. Writes(j, q) \/ UNCHANGED disk
  BY DEF Rotate
<1> HIDE DEF k, q
<1>5. SaveSound(k)
  BY <1>1, <1>2, TaskFacts DEF SaveSound, Captured
<1>6. ~Publishes(j, k)
  BY <1>1 DEF Publishes
<1>7. MovesCheckpoint(j, k, p, q) /\ MovesJournal(j, k, p, q)
  BY <1>2, <1>3, <1>6 DEF MovesCheckpoint, MovesJournal
<1>8. CASE Writes(j, q)
  BY <1>1, <1>2, <1>3, <1>5, <1>7, <1>8, WriteMoves
<1>9. CASE UNCHANGED disk
  BY <1>1, <1>2, <1>5, <1>6, <1>9, StageMoves
<1> QED BY <1>4, <1>8, <1>9

\* The records a task captured make a segment file.
LEMMA DeltaIsSegment ==
  ASSUME NEW delta \in Seq(Frame), delta # << >>
  PROVE  IsSegmentFile(SegmentOf(delta))
<1>1. /\ Len(delta) \in Nat \ {0} /\ delta \in [1 .. Len(delta) -> Frame]
      /\ DOMAIN delta = 1 .. Len(delta)
  BY EmptySeq, LenProperties, SeqDef
<1>2. IsFiniteSet(1 .. Len(delta))
  BY <1>1, FS_Interval
<1>3. delta \in Surjection(1 .. Len(delta), ToSet(delta))
  BY <1>1 DEF Surjection, ToSet
<1>4. IsFiniteSet(ToSet(delta))
  BY <1>2, <1>3, FS_Surjection
<1>5. ToSet(delta) \subseteq Frame /\ ToSet(delta) # {}
  BY <1>1 DEF ToSet
<1> QED BY <1>4, <1>5 DEF SegmentOf, IsSegmentFile, Segment

\* Appending the delta as a journal segment is a move that persists it.
LEMMA WriteSegmentMoves ==
  ASSUME Typed, NEW j \in saves, WriteSegment(j)
  PROVE  \E k : Moves(j, k)
<1> DEFINE p == disk[j.package]
           s == SegmentOf(j.delta)
           q == WithSegment(p, s)
           k == StagedSafe(j, "compact", TRUE)
<1>1. /\ j.stage = "segment" /\ j.delta # << >> /\ Writes(j, q) /\ Becomes(j, k)
      /\ (Fault \/ NoFault)
  BY DEF WriteSegment, StagedSafe
<1>2. /\ k \in Save /\ Captured(j, k) /\ k.stage = "compact" /\ k.ok = j.ok
      /\ k.persisted /\ k.sources = j.sources
  <2>1. "compact" \in Stages /\ TRUE \in BOOLEAN /\ j \in Save
    BY TaskFacts DEF Stages
  <2>2. /\ k \in Save /\ Captured(j, k) /\ k.stage = "compact" /\ k.ok = j.ok
        /\ k.persisted = TRUE /\ k.sources = j.sources
    BY <2>1, StagedSafeTask
  <2> QED BY <2>2
<1>3. IsSegmentFile(s)
  BY <1>1, DeltaIsSegment, SaveIsAt, TaskFacts
<1>4. /\ IsPackage(q) /\ q.primary = p.primary /\ q.payloads = p.payloads
      /\ q.recoveries = p.recoveries /\ q.segments = p.segments \cup {s}
  BY <1>3, SegmentsWritten, TaskFacts
<1> HIDE DEF k, q
<1>5. SaveSound(k) /\ k.ok
  BY <1>1, <1>2, TaskFacts DEF SaveSound, Captured
<1>6. ~Publishes(j, k)
  BY <1>1 DEF Publishes
<1>7. MovesCheckpoint(j, k, p, q) /\ MovesJournal(j, k, p, q)
  BY <1>2, <1>4, <1>6 DEF MovesCheckpoint, MovesJournal
<1> QED BY <1>1, <1>2, <1>4, <1>5, <1>7, WriteMoves

\* An empty delta, or a segment that fails, ends the task.
LEMMA NoSegmentMoves ==
  ASSUME Typed, NEW j \in saves, NoSegment(j)
  PROVE  \E k : Moves(j, k)
<1> DEFINE k == Staged(j, "finished")
<1>1. j.stage = "segment" /\ Becomes(j, k) /\ UNCHANGED disk /\ (Fault \/ NoFault)
  BY DEF NoSegment, Staged
<1>2. /\ k \in Save /\ Captured(j, k) /\ k.stage = "finished" /\ k.ok = j.ok
      /\ k.persisted = j.persisted /\ k.sources = j.sources
  <2>1. "finished" \in Stages
    BY DEF Stages
  <2> QED BY <2>1, StagedTask, TaskFacts
<1> HIDE DEF k
<1>3. SaveSound(k)
  BY <1>1, <1>2, TaskFacts DEF SaveSound, Captured
<1> QED BY <1>1, <1>2, <1>3, StageMoves DEF Publishes

\* What a compaction reads is what the package holds.
LEMMA CompactableSources ==
  ASSUME NEW p, IsPackage(p)
  PROVE  /\ Compactable(p) \subseteq p.segments /\ IsFiniteSet(Compactable(p))
         /\ Compactable(p) \in SUBSET Segment
         /\ \A s \in Compactable(p) : IsSegmentFile(s)
<1>1. Compactable(p) \subseteq p.segments
  BY DEF Compactable
<1> QED BY <1>1, FS_Subset DEF IsPackage, IsSegmentFile

\* Listing the segments to compact is a move.
LEMMA ChooseSourcesMoves ==
  ASSUME Typed, NEW j \in saves, ChooseSources(j)
  PROVE  \E k : Moves(j, k)
<1> DEFINE sources == Compactable(disk[j.package])
           k == StagedWith(j, "merge", sources)
<1>1. /\ j.stage = "compact" /\ sources # {} /\ Becomes(j, k) /\ UNCHANGED disk
      /\ (Fault \/ NoFault)
  BY DEF ChooseSources, StagedWith
<1>2. /\ sources \in SUBSET Segment /\ IsFiniteSet(sources)
      /\ \A s \in sources : IsSegmentFile(s)
  BY CompactableSources, TaskFacts
<1> HIDE DEF sources
<1>3. /\ k \in Save /\ Captured(j, k) /\ k.stage = "merge" /\ k.ok = j.ok
      /\ k.persisted = j.persisted /\ k.sources = sources
  <2>1. "merge" \in Stages
    BY DEF Stages
  <2> QED BY <1>2, <2>1, StagedWithTask, TaskFacts
<1> HIDE DEF k
<1>4. SaveSound(k)
  BY <1>1, <1>2, <1>3, TaskFacts DEF SaveSound, Captured
<1>5. ~Publishes(j, k)
  BY <1>1 DEF Publishes
<1> QED BY <1>1, <1>3, <1>4, <1>5, StageMoves

\* A compaction ends: none was needed, or it cannot go on.
LEMMA EndMoves ==
  ASSUME Typed, NEW j \in saves, j.stage \in {"compact", "merge", "remove"},
         Becomes(j, [j EXCEPT !.stage = "finished", !.sources = {}]),
         UNCHANGED disk, Fault \/ NoFault
  PROVE  \E k : Moves(j, k)
<1> DEFINE k == StagedWith(j, "finished", {})
<1>1. Becomes(j, k)
  BY DEF StagedWith
<1>2. /\ k \in Save /\ Captured(j, k) /\ k.stage = "finished" /\ k.ok = j.ok
      /\ k.persisted = j.persisted /\ k.sources = {}
  <2>1. "finished" \in Stages /\ {} \in SUBSET Segment
    BY DEF Stages
  <2> QED BY <2>1, StagedWithTask, TaskFacts
<1> HIDE DEF k
<1>3. SaveSound(k)
  BY <1>2, TaskFacts, FS_EmptySet DEF SaveSound, Captured
<1>4. ~Publishes(j, k)
  BY DEF Publishes
<1> QED BY <1>1, <1>2, <1>3, <1>4, StageMoves

\* Having too few segments to compact ends the task.
LEMMA NoCompactionMoves ==
  ASSUME Typed, NEW j \in saves, NoCompaction(j)
  PROVE  \E k : Moves(j, k)
BY EndMoves DEF NoCompaction

\* The last source removed, or an error on the way, ends the task.
LEMMA StopRemovingMoves ==
  ASSUME Typed, NEW j \in saves, StopRemoving(j)
  PROVE  \E k : Moves(j, k)
BY EndMoves DEF StopRemoving

\* What is merged is a segment file.
LEMMA MergedIsSegment ==
  ASSUME NEW sources, IsFiniteSet(sources), \A s \in sources : IsSegmentFile(s), sources # {}
  PROVE  IsSegmentFile(Merged(sources))
<1>1. FramesIn(sources) \subseteq Frame /\ IsFiniteSet(FramesIn(sources))
  BY FramesAreFinite
<1>2. FramesIn(sources) # {}
  BY DEF FramesIn, IsSegmentFile
<1> QED BY <1>1, <1>2 DEF Merged, IsSegmentFile, Segment

\* Writing the merged segment is a move; the merged segment is not a source.
LEMMA WriteCompactedMoves ==
  ASSUME Typed, NEW j \in saves, WriteCompacted(j)
  PROVE  \E k : Moves(j, k)
<1> DEFINE p == disk[j.package]
           s == Merged(j.sources)
           q == WithSegment(p, s)
           k == StagedWith(j, "remove", j.sources \ {s})
<1>1. j.stage = "merge" /\ Writes(j, q) /\ Becomes(j, k) /\ (Fault \/ NoFault)
  BY DEF WriteCompacted, StagedWith
<1>2. IsSegmentFile(s)
  BY <1>1, MergedIsSegment, TaskFacts DEF SaveSound
<1>3. /\ IsPackage(q) /\ q.primary = p.primary /\ q.payloads = p.payloads
      /\ q.recoveries = p.recoveries /\ q.segments = p.segments \cup {s}
  BY <1>2, SegmentsWritten, TaskFacts
<1> HIDE DEF q
<1>4. j.sources \ {s} \in SUBSET Segment /\ IsFiniteSet(j.sources \ {s})
  BY TaskFacts, SaveIsAt, FS_RemoveElement DEF SaveSound
<1>5. /\ k \in Save /\ Captured(j, k) /\ k.stage = "remove" /\ k.ok = j.ok
      /\ k.persisted = j.persisted /\ k.sources = j.sources \ {s}
  <2>1. "remove" \in Stages
    BY DEF Stages
  <2> QED BY <1>4, <2>1, StagedWithTask, TaskFacts
<1> HIDE DEF k
<1>6. SaveSound(k)
  BY <1>1, <1>4, <1>5, TaskFacts DEF SaveSound, Captured
<1>7. ~Publishes(j, k)
  BY <1>1 DEF Publishes
<1>8. MovesCheckpoint(j, k, p, q) /\ MovesJournal(j, k, p, q)
  BY <1>3, <1>5, <1>7 DEF MovesCheckpoint, MovesJournal
<1> QED BY <1>1, <1>3, <1>5, <1>6, <1>8, WriteMoves

\* Removing one source is a move.
LEMMA RemoveSourceMoves ==
  ASSUME Typed, NEW j \in saves, RemoveSource(j)
  PROVE  \E k : Moves(j, k)
<1>1. j.stage = "remove" /\ (Fault \/ NoFault)
  BY DEF RemoveSource
<1>2. PICK s \in j.sources : /\ Writes(j, WithoutSegment(disk[j.package], s))
                             /\ Becomes(j, [j EXCEPT !.sources = @ \ {s}])
  BY DEF RemoveSource
<1> DEFINE p == disk[j.package]
           q == WithoutSegment(p, s)
           k == With(j, j.sources \ {s})
<1>3. Becomes(j, k)
  BY <1>2 DEF With
<1>4. /\ IsPackage(q) /\ q.primary = p.primary /\ q.payloads = p.payloads
      /\ q.recoveries = p.recoveries /\ q.segments = p.segments \ {s}
  BY SegmentsWritten, TaskFacts
<1> HIDE DEF q
<1>5. j.sources \ {s} \in SUBSET Segment /\ IsFiniteSet(j.sources \ {s})
  BY TaskFacts, SaveIsAt, FS_RemoveElement DEF SaveSound
<1>6. /\ k \in Save /\ Captured(j, k) /\ k.stage = j.stage /\ k.ok = j.ok
      /\ k.persisted = j.persisted /\ k.sources = j.sources \ {s}
  BY <1>5, WithTask, TaskFacts
<1> HIDE DEF k
<1>7. SaveSound(k)
  BY <1>1, <1>5, <1>6, TaskFacts DEF SaveSound, Captured
<1>8. ~Publishes(j, k)
  BY <1>1 DEF Publishes
<1>9. MovesCheckpoint(j, k, p, q) /\ MovesJournal(j, k, p, q)
  BY <1>1, <1>4, <1>6, <1>8 DEF MovesCheckpoint, MovesJournal
<1>10. Writes(j, q)
  BY <1>2 DEF q
<1> QED BY <1>1, <1>3, <1>4, <1>6, <1>7, <1>9, <1>10, WriteMoves

\* Every step of a task is such a move.
LEMMA TaskMoves ==
  ASSUME Typed, NEW j \in saves, SaveTaskStep(j)
  PROVE  \E k : Moves(j, k)
BY WritePayloadMoves, WriteManifestMoves, CheckpointFailsMoves, RotateMoves, WriteSegmentMoves,
   NoSegmentMoves, ChooseSourcesMoves, NoCompactionMoves, WriteCompactedMoves,
   RemoveSourceMoves, StopRemovingMoves
DEF SaveTaskStep

-----------------------------------------------------------------------------
(* What happens to the document                                            *)

DocumentOf(project, revision, saved, sequence, journal, checkpoint, files, identity, epoch) ==
  [project |-> project, saved_revision |-> revision, saved_project |-> saved,
   next_journal_sequence |-> sequence, journal |-> journal,
   journal_checkpoint |-> checkpoint, files |-> files, identity |-> identity,
   document_epoch |-> epoch]

\* A document is its fields.
LEMMA DocumentIs ==
  ASSUME NEW doc \in Document
  PROVE  /\ doc = DocumentOf(doc.project, doc.saved_revision, doc.saved_project,
                             doc.next_journal_sequence, doc.journal, doc.journal_checkpoint,
                             doc.files, doc.identity, doc.document_epoch)
         /\ doc.project \in Project /\ doc.saved_revision \in Nat /\ doc.saved_project \in Project
         /\ doc.next_journal_sequence \in Nat \ {0} /\ doc.journal \in Seq(Frame)
         /\ doc.journal_checkpoint \in Checkpoint /\ doc.files \in {None} \cup Packages
         /\ doc.identity \in {"none", "primary", "recovery"} /\ doc.document_epoch \in Nat
BY DEF Document, DocumentOf

\* Its fields are a document.
LEMMA IsDocument ==
  ASSUME NEW project, NEW revision, NEW saved, NEW sequence, NEW journal,
         NEW checkpoint, NEW files, NEW identity, NEW epoch
  PROVE  LET e == DocumentOf(project, revision, saved, sequence, journal, checkpoint,
                             files, identity, epoch)
         IN  /\ e.project = project /\ e.saved_revision = revision /\ e.saved_project = saved
             /\ e.next_journal_sequence = sequence /\ e.journal = journal
             /\ e.journal_checkpoint = checkpoint /\ e.files = files
             /\ e.identity = identity /\ e.document_epoch = epoch
             /\ (/\ project \in Project /\ revision \in Nat /\ saved \in Project
                 /\ sequence \in Nat \ {0} /\ journal \in Seq(Frame)
                 /\ checkpoint \in Checkpoint /\ files \in {None} \cup Packages
                 /\ identity \in {"none", "primary", "recovery"} /\ epoch \in Nat)
                => e \in Document
BY DEF DocumentOf, Document

\* The frame an edit records.
FrameOf(doc, c) ==
  [sequence |-> doc.next_journal_sequence, result |-> Append(doc.project, c)]

\* An edit appends one command to the project and its record to the journal.
LEMMA EditedDocument ==
  ASSUME NEW doc \in Document, NEW c \in Commands
  PROVE  LET e == Edited(doc, c)
         IN  /\ e \in Document /\ FrameOf(doc, c) \in Frame
             /\ e.project = Append(doc.project, c)
             /\ e.journal = Append(doc.journal, FrameOf(doc, c))
             /\ e.next_journal_sequence = doc.next_journal_sequence + 1
             /\ e.saved_revision = doc.saved_revision /\ e.saved_project = doc.saved_project
             /\ e.journal_checkpoint = doc.journal_checkpoint /\ e.files = doc.files
             /\ e.identity = doc.identity /\ e.document_epoch = doc.document_epoch
<1> DEFINE project == Append(doc.project, c)
           journal == Append(doc.journal, FrameOf(doc, c))
           sequence == doc.next_journal_sequence + 1
           a == [doc EXCEPT !.project = project]
           b == [a EXCEPT !.journal = journal]
           e == [b EXCEPT !.next_journal_sequence = sequence]
<1>1. /\ doc = DocumentOf(doc.project, doc.saved_revision, doc.saved_project,
                          doc.next_journal_sequence, doc.journal, doc.journal_checkpoint,
                          doc.files, doc.identity, doc.document_epoch)
      /\ doc.project \in Project /\ doc.next_journal_sequence \in Nat \ {0}
      /\ doc.journal \in Seq(Frame)
  BY DocumentIs
<1>2. project \in Project /\ project # << >>
  BY <1>1, AppendProperties DEF Project
<1>3. FrameOf(doc, c) \in Frame
  BY <1>1, <1>2 DEF FrameOf, Frame
<1>4. journal \in Seq(Frame) /\ sequence \in Nat \ {0}
  BY <1>1, <1>3, AppendProperties
<1>5. Edited(doc, c) = e
  BY DEF Edited, FrameOf
<1> HIDE DEF project, journal, sequence
<1>6. a = DocumentOf(project, doc.saved_revision, doc.saved_project,
                     doc.next_journal_sequence, doc.journal, doc.journal_checkpoint,
                     doc.files, doc.identity, doc.document_epoch)
  BY <1>1 DEF DocumentOf
<1> HIDE DEF a
<1>7. b = DocumentOf(project, doc.saved_revision, doc.saved_project,
                     doc.next_journal_sequence, journal, doc.journal_checkpoint,
                     doc.files, doc.identity, doc.document_epoch)
  BY <1>6 DEF DocumentOf
<1> HIDE DEF b
<1>8. e = DocumentOf(project, doc.saved_revision, doc.saved_project,
                     sequence, journal, doc.journal_checkpoint,
                     doc.files, doc.identity, doc.document_epoch)
  BY <1>7 DEF DocumentOf
<1> HIDE DEF e
<1>9. /\ e \in Document /\ e.project = project /\ e.journal = journal
      /\ e.next_journal_sequence = sequence
      /\ e.saved_revision = doc.saved_revision /\ e.saved_project = doc.saved_project
      /\ e.journal_checkpoint = doc.journal_checkpoint /\ e.files = doc.files
      /\ e.identity = doc.identity /\ e.document_epoch = doc.document_epoch
  BY <1>2, <1>4, <1>8, DocumentIs, IsDocument
<1> QED BY <1>3, <1>5, <1>9 DEF project, journal, sequence

\* Where the cursor stands once delta is durable.
CheckpointAfter(delta) ==
  [through_sequence |-> Last(delta).sequence, project_revision |-> Revision(Last(delta).result)]

\* What is still pending then.
PendingAfter(doc, delta) == SubSeq(doc.journal, Len(delta) + 1, Len(doc.journal))

\* An acknowledgement moves the cursor over the head of what is pending, or it
\* changes nothing.
LEMMA AcknowledgedDocument ==
  ASSUME NEW doc \in Document, NEW delta \in Seq(Frame), NEW checkpoint
  PROVE  LET e == Acknowledged(doc, delta, checkpoint)
         IN  /\ e \in Document
             /\ e.project = doc.project /\ e.next_journal_sequence = doc.next_journal_sequence
             /\ e.saved_revision = doc.saved_revision /\ e.saved_project = doc.saved_project
             /\ e.files = doc.files
             /\ e.identity = doc.identity /\ e.document_epoch = doc.document_epoch
             /\ \/ e.journal = doc.journal /\ e.journal_checkpoint = doc.journal_checkpoint
                \/ /\ checkpoint = doc.journal_checkpoint
                   /\ delta # << >> /\ IsPrefix(delta, doc.journal)
                   /\ e.journal = PendingAfter(doc, delta)
                   /\ e.journal_checkpoint = CheckpointAfter(delta)
<1> DEFINE journal == PendingAfter(doc, delta)
           cursor == CheckpointAfter(delta)
           moves == checkpoint = doc.journal_checkpoint /\ delta # << >> /\ IsPrefix(delta, doc.journal)
           a == [doc EXCEPT !.journal_checkpoint = cursor]
           e == [a EXCEPT !.journal = journal]
<1>1. CASE moves
  <2>1. /\ doc = DocumentOf(doc.project, doc.saved_revision, doc.saved_project,
                            doc.next_journal_sequence, doc.journal, doc.journal_checkpoint,
                            doc.files, doc.identity, doc.document_epoch)
        /\ doc.journal \in Seq(Frame)
    BY DocumentIs
  <2>2. Last(delta) \in Frame
    <3>1. Len(delta) \in 1 .. Len(delta)
      BY <1>1, EmptySeq, LenProperties
    <3> QED BY <3>1, ElementOfSeq DEF Last
  <2>3. cursor \in Checkpoint
    BY <2>2, FrameType DEF CheckpointAfter, Checkpoint
  <2>4. journal \in Seq(Frame)
    <3>1. Len(delta) \in Nat /\ Len(doc.journal) \in Nat
      BY <2>1, LenProperties
    <3>2. \A i \in Len(delta) + 1 .. Len(doc.journal) : doc.journal[i] \in Frame
      BY <2>1, <3>1, ElementOfSeq
    <3> QED BY <2>1, <3>1, <3>2, SubSeqProperties DEF PendingAfter
  <2>5. Acknowledged(doc, delta, checkpoint) = e
    BY <1>1 DEF Acknowledged, CheckpointAfter, PendingAfter
  <2> HIDE DEF journal, cursor
  <2>6. a = DocumentOf(doc.project, doc.saved_revision, doc.saved_project,
                       doc.next_journal_sequence, doc.journal, cursor,
                       doc.files, doc.identity, doc.document_epoch)
    BY <2>1 DEF DocumentOf
  <2> HIDE DEF a
  <2>7. e = DocumentOf(doc.project, doc.saved_revision, doc.saved_project,
                       doc.next_journal_sequence, journal, cursor,
                       doc.files, doc.identity, doc.document_epoch)
    BY <2>6 DEF DocumentOf
  <2> HIDE DEF e
  <2>8. /\ e \in Document /\ e.project = doc.project /\ e.journal = journal
        /\ e.next_journal_sequence = doc.next_journal_sequence
        /\ e.saved_revision = doc.saved_revision /\ e.saved_project = doc.saved_project
        /\ e.journal_checkpoint = cursor /\ e.files = doc.files
        /\ e.identity = doc.identity /\ e.document_epoch = doc.document_epoch
    BY <2>3, <2>4, <2>7, DocumentIs, IsDocument
  <2> QED BY <1>1, <2>5, <2>8 DEF journal, cursor
<1>2. CASE ~moves
  BY <1>2 DEF Acknowledged
<1> QED BY <1>1, <1>2

\* A save marks the document only at the revision it captured.
LEMMA MarkedDocument ==
  ASSUME NEW doc \in Document, NEW project \in Project
  PROVE  LET e == MarkedSaved(doc, project)
         IN  /\ e \in Document
             /\ e.project = doc.project /\ e.next_journal_sequence = doc.next_journal_sequence
             /\ e.journal = doc.journal /\ e.journal_checkpoint = doc.journal_checkpoint
             /\ e.files = doc.files
             /\ e.identity = doc.identity /\ e.document_epoch = doc.document_epoch
             /\ IF Revision(project) = Revision(doc.project)
                THEN e.saved_revision = Revision(project) /\ e.saved_project = project
                ELSE e.saved_revision = doc.saved_revision /\ e.saved_project = doc.saved_project
<1> DEFINE revision == Revision(project)
           a == [doc EXCEPT !.saved_revision = revision]
           e == [a EXCEPT !.saved_project = project]
<1>1. CASE Revision(project) = Revision(doc.project)
  <2>1. /\ doc = DocumentOf(doc.project, doc.saved_revision, doc.saved_project,
                            doc.next_journal_sequence, doc.journal, doc.journal_checkpoint,
                            doc.files, doc.identity, doc.document_epoch)
    BY DocumentIs
  <2>2. revision \in Nat
    BY LenProperties DEF Revision, Project
  <2>3. MarkedSaved(doc, project) = e
    BY <1>1 DEF MarkedSaved
  <2> HIDE DEF revision
  <2>4. a = DocumentOf(doc.project, revision, doc.saved_project,
                       doc.next_journal_sequence, doc.journal, doc.journal_checkpoint,
                       doc.files, doc.identity, doc.document_epoch)
    BY <2>1 DEF DocumentOf
  <2> HIDE DEF a
  <2>5. e = DocumentOf(doc.project, revision, project,
                       doc.next_journal_sequence, doc.journal, doc.journal_checkpoint,
                       doc.files, doc.identity, doc.document_epoch)
    BY <2>4 DEF DocumentOf
  <2> HIDE DEF e
  <2>6. /\ e \in Document /\ e.project = doc.project /\ e.journal = doc.journal
        /\ e.next_journal_sequence = doc.next_journal_sequence
        /\ e.saved_revision = revision /\ e.saved_project = project
        /\ e.journal_checkpoint = doc.journal_checkpoint /\ e.files = doc.files
        /\ e.identity = doc.identity /\ e.document_epoch = doc.document_epoch
    BY <2>2, <2>5, DocumentIs, IsDocument
  <2> QED BY <1>1, <2>3, <2>6 DEF revision
<1>2. CASE Revision(project) # Revision(doc.project)
  BY <1>2 DEF MarkedSaved
<1> QED BY <1>1, <1>2

\* A successful explicit save also makes its package the document's own.
LEMMA SavedIntoDocument ==
  ASSUME NEW doc \in Document, NEW j \in Save
  PROVE  LET e == SavedInto(doc, j)
         IN  /\ e \in Document
             /\ e.project = doc.project /\ e.next_journal_sequence = doc.next_journal_sequence
             /\ e.journal = doc.journal /\ e.journal_checkpoint = doc.journal_checkpoint
             /\ e.files = j.package /\ e.identity = "primary"
             /\ IF doc.identity = "primary" /\ doc.files = j.package
                THEN e.document_epoch = doc.document_epoch
                ELSE e.document_epoch = doc.document_epoch + 1
             /\ IF Revision(j.project) = Revision(doc.project)
                THEN e.saved_revision = Revision(j.project) /\ e.saved_project = j.project
                ELSE e.saved_revision = doc.saved_revision /\ e.saved_project = doc.saved_project
<1> DEFINE m == MarkedSaved(doc, j.project)
           moved == doc.identity # "primary" \/ doc.files # j.package
           epoch == IF moved THEN m.document_epoch + 1 ELSE m.document_epoch
           a == [m EXCEPT !.files = j.package]
           b == [a EXCEPT !.identity = "primary"]
           e == [b EXCEPT !.document_epoch = epoch]
<1>1. j.project \in Project /\ j.package \in {None} \cup Packages
  BY SaveIsAt
<1>2. /\ m \in Document
      /\ m.project = doc.project /\ m.next_journal_sequence = doc.next_journal_sequence
      /\ m.journal = doc.journal /\ m.journal_checkpoint = doc.journal_checkpoint
      /\ m.document_epoch = doc.document_epoch
      /\ IF Revision(j.project) = Revision(doc.project)
         THEN m.saved_revision = Revision(j.project) /\ m.saved_project = j.project
         ELSE m.saved_revision = doc.saved_revision /\ m.saved_project = doc.saved_project
  BY <1>1, MarkedDocument
<1>3. SavedInto(doc, j) = e
  BY DEF SavedInto
<1> HIDE DEF m, moved
<1>4. m = DocumentOf(m.project, m.saved_revision, m.saved_project,
                     m.next_journal_sequence, m.journal, m.journal_checkpoint,
                     m.files, m.identity, m.document_epoch)
  BY <1>2, DocumentIs
<1>5. epoch \in Nat
  BY <1>2, DocumentIs
<1>6. epoch = IF moved THEN doc.document_epoch + 1 ELSE doc.document_epoch
  BY <1>2
<1> HIDE DEF epoch
<1>7. a = DocumentOf(m.project, m.saved_revision, m.saved_project,
                     m.next_journal_sequence, m.journal, m.journal_checkpoint,
                     j.package, m.identity, m.document_epoch)
  BY <1>4 DEF DocumentOf
<1> HIDE DEF a
<1>8. b = DocumentOf(m.project, m.saved_revision, m.saved_project,
                     m.next_journal_sequence, m.journal, m.journal_checkpoint,
                     j.package, "primary", m.document_epoch)
  BY <1>7 DEF DocumentOf
<1> HIDE DEF b
<1>9. e = DocumentOf(m.project, m.saved_revision, m.saved_project,
                     m.next_journal_sequence, m.journal, m.journal_checkpoint,
                     j.package, "primary", epoch)
  BY <1>8 DEF DocumentOf
<1> HIDE DEF e
<1>10. /\ e \in Document /\ e.project = m.project /\ e.journal = m.journal
       /\ e.next_journal_sequence = m.next_journal_sequence
       /\ e.saved_revision = m.saved_revision /\ e.saved_project = m.saved_project
       /\ e.journal_checkpoint = m.journal_checkpoint /\ e.files = j.package
       /\ e.identity = "primary" /\ e.document_epoch = epoch
  BY <1>1, <1>2, <1>5, <1>9, DocumentIs, IsDocument
<1> QED BY <1>2, <1>3, <1>6, <1>10 DEF moved

\* An autosave of an unsaved document adopts a recovery repository.
LEMMA FiledDocument ==
  ASSUME NEW doc \in Document, NEW p \in Packages
  PROVE  LET e == [doc EXCEPT !.files = p]
         IN  /\ e \in Document
             /\ e.project = doc.project /\ e.next_journal_sequence = doc.next_journal_sequence
             /\ e.journal = doc.journal /\ e.journal_checkpoint = doc.journal_checkpoint
             /\ e.saved_revision = doc.saved_revision /\ e.saved_project = doc.saved_project
             /\ e.files = p
             /\ e.identity = doc.identity /\ e.document_epoch = doc.document_epoch
<1> DEFINE e == [doc EXCEPT !.files = p]
<1>1. e = DocumentOf(doc.project, doc.saved_revision, doc.saved_project,
                     doc.next_journal_sequence, doc.journal, doc.journal_checkpoint,
                     p, doc.identity, doc.document_epoch)
  BY DocumentIs DEF DocumentOf
<1> HIDE DEF e
<1> QED BY <1>1, DocumentIs, IsDocument DEF e

\* A document that has just been installed.
LEMMA InstalledDocument ==
  ASSUME NEW project \in Project, NEW saved \in Project, NEW sequence \in Nat \ {0},
         NEW files \in {None} \cup Packages, NEW identity \in {"none", "primary", "recovery"},
         NEW epoch \in Nat,
         NEW e, e = Installed(project, saved, sequence, files, identity, epoch)
  PROVE  /\ e \in Document
         /\ e.project = project /\ e.next_journal_sequence = sequence
         /\ e.journal = << >>
         /\ e.journal_checkpoint = [through_sequence |-> sequence - 1,
                                    project_revision |-> Revision(project)]
         /\ e.saved_revision = Revision(saved) /\ e.saved_project = saved
         /\ e.files = files /\ e.identity = identity /\ e.document_epoch = epoch
<1> DEFINE cursor == [through_sequence |-> sequence - 1, project_revision |-> Revision(project)]
           empty == << >>
<1>1. Revision(project) \in Nat /\ Revision(saved) \in Nat
  BY LenProperties DEF Revision, Project
<1>2. cursor \in Checkpoint /\ empty \in Seq(Frame)
  BY <1>1 DEF Checkpoint
<1>3. e = DocumentOf(project, Revision(saved), saved, sequence, empty, cursor,
                     files, identity, epoch)
  BY DEF Installed, DocumentOf
<1> HIDE DEF cursor, empty
<1>4. /\ e \in Document /\ e.project = project /\ e.journal = empty
      /\ e.next_journal_sequence = sequence
      /\ e.saved_revision = Revision(saved) /\ e.saved_project = saved
      /\ e.journal_checkpoint = cursor /\ e.files = files
      /\ e.identity = identity /\ e.document_epoch = epoch
  BY <1>1, <1>2, <1>3, IsDocument
<1> QED BY <1>4 DEF cursor, empty

\* How an acknowledged save moves the journal, if it does.
Settles(doc, e, j) ==
  \/ e.journal = doc.journal /\ e.journal_checkpoint = doc.journal_checkpoint
  \/ /\ j.persisted /\ j.checkpoint = doc.journal_checkpoint
     /\ j.delta # << >> /\ IsPrefix(j.delta, doc.journal)
     /\ e.journal = PendingAfter(doc, j.delta)
     /\ e.journal_checkpoint = CheckpointAfter(j.delta)

\* What acknowledging an autosave leaves of the document.
LEMMA PersistedDocument ==
  ASSUME Typed, document # None, NEW j \in saves
  PROVE  LET e == Persisted(j)
         IN  /\ e \in Document
             /\ e.project = document.project
             /\ e.next_journal_sequence = document.next_journal_sequence
             /\ e.saved_revision = document.saved_revision
             /\ e.saved_project = document.saved_project
             /\ e.files = document.files
             /\ e.identity = document.identity /\ e.document_epoch = document.document_epoch
             /\ Settles(document, e, j)
<1>1. document \in Document /\ j.delta \in Seq(Frame)
  BY TaskFacts, SaveIsAt DEF Typed, DocumentSound
<1>2. CASE j.persisted
  <2> DEFINE e == Acknowledged(document, j.delta, j.checkpoint)
  <2>1. /\ e \in Document
        /\ e.project = document.project
        /\ e.next_journal_sequence = document.next_journal_sequence
        /\ e.saved_revision = document.saved_revision
        /\ e.saved_project = document.saved_project
        /\ e.files = document.files
        /\ e.identity = document.identity /\ e.document_epoch = document.document_epoch
        /\ \/ e.journal = document.journal /\ e.journal_checkpoint = document.journal_checkpoint
           \/ /\ j.checkpoint = document.journal_checkpoint
              /\ j.delta # << >> /\ IsPrefix(j.delta, document.journal)
              /\ e.journal = PendingAfter(document, j.delta)
              /\ e.journal_checkpoint = CheckpointAfter(j.delta)
    BY <1>1, AcknowledgedDocument
  <2>2. Persisted(j) = e
    BY <1>2 DEF Persisted
  <2> HIDE DEF e
  <2>3. Settles(document, e, j)
    BY <1>2, <2>1 DEF Settles
  <2> QED BY <2>1, <2>2, <2>3
<1>3. CASE ~j.persisted
  BY <1>1, <1>3 DEF Persisted, Settles
<1> QED BY <1>2, <1>3

\* What the completion of an explicit save does to the document.
LEMMA SaveHeard ==
  ASSUME Typed, NEW j \in saves, FinishSave(j)
  PROVE  /\ document # None /\ document' \in Document /\ document' # None
         /\ document'.project = document.project
         /\ document'.next_journal_sequence = document.next_journal_sequence
         /\ document'.files = j.package /\ document'.identity = "primary"
         /\ IF document.identity = "primary" /\ document.files = j.package
            THEN document'.document_epoch = document.document_epoch
            ELSE document'.document_epoch = document.document_epoch + 1
         /\ IF Revision(j.project) = Revision(document.project)
            THEN /\ document'.saved_revision = Revision(j.project)
                 /\ document'.saved_project = j.project
            ELSE /\ document'.saved_revision = document.saved_revision
                 /\ document'.saved_project = document.saved_project
         /\ Settles(document, document', j)
<1> DEFINE d == Persisted(j)
           e == SavedInto(d, j)
<1>1. document # None /\ document' = e
  BY DEF FinishSave, IsSameDocument
<1>2. /\ d \in Document
      /\ d.project = document.project
      /\ d.next_journal_sequence = document.next_journal_sequence
      /\ d.saved_revision = document.saved_revision
      /\ d.saved_project = document.saved_project
      /\ d.files = document.files
      /\ d.identity = document.identity /\ d.document_epoch = document.document_epoch
      /\ Settles(document, d, j)
  BY <1>1, PersistedDocument
<1> HIDE DEF d
<1>3. j \in Save
  BY TaskFacts
<1>4. /\ e \in Document
      /\ e.project = d.project /\ e.next_journal_sequence = d.next_journal_sequence
      /\ e.journal = d.journal /\ e.journal_checkpoint = d.journal_checkpoint
      /\ e.files = j.package /\ e.identity = "primary"
      /\ IF d.identity = "primary" /\ d.files = j.package
         THEN e.document_epoch = d.document_epoch
         ELSE e.document_epoch = d.document_epoch + 1
      /\ IF Revision(j.project) = Revision(d.project)
         THEN e.saved_revision = Revision(j.project) /\ e.saved_project = j.project
         ELSE e.saved_revision = d.saved_revision /\ e.saved_project = d.saved_project
  BY <1>2, <1>3, SavedIntoDocument
<1> HIDE DEF e
<1>5. Settles(document, e, j)
  BY <1>2, <1>4 DEF Settles
<1>6. e # None
  BY <1>4, NoneAssumption
<1> QED BY <1>1, <1>2, <1>4, <1>5, <1>6

\* What the completion of an autosave does to it.
LEMMA AutosaveHeard ==
  ASSUME Typed, NEW j \in saves, FinishAutosave(j)
  PROVE  /\ document # None /\ document' \in Document /\ document' # None
         /\ document'.project = document.project
         /\ document'.next_journal_sequence = document.next_journal_sequence
         /\ document'.saved_revision = document.saved_revision
         /\ document'.saved_project = document.saved_project
         /\ document'.files = document.files
         /\ document'.identity = document.identity
         /\ document'.document_epoch = document.document_epoch
         /\ Settles(document, document', j)
BY PersistedDocument, NoneAssumption DEF FinishAutosave, IsSameDocument

\* What a task captures when it begins.
LEMMA BegunTask ==
  ASSUME NEW doc \in Document, NEW kind \in {"primary", "autosave"}, NEW package \in Packages
  PROVE  LET j == SaveTask(kind, doc, package) IN
           /\ SaveSound(j) /\ j.kind = kind /\ j.package = package /\ j.project = doc.project
           /\ j.delta = doc.journal /\ j.checkpoint = doc.journal_checkpoint
           /\ j.epoch = doc.document_epoch /\ j.heard /\ j.stage = "payloads" /\ j.written = 0
           /\ j.ok /\ ~j.persisted /\ j.sources = {}
<1> DEFINE j == SaveTask(kind, doc, package)
<1>1. /\ j.kind = kind /\ j.package = package /\ j.project = doc.project
      /\ j.delta = doc.journal /\ j.checkpoint = doc.journal_checkpoint
      /\ j.epoch = doc.document_epoch /\ j.heard /\ j.stage = "payloads" /\ j.written = 0
      /\ j.ok /\ ~j.persisted /\ j.sources = {}
  BY DEF SaveTask
<1>2. 0 \in 0 .. Len(PayloadOrder)
  BY PackageAssumption, LenProperties
<1>3. j \in Save
  BY <1>2, DocumentIs DEF SaveTask, Save
<1> HIDE DEF j
<1>4. SaveSound(j)
  BY <1>1, <1>3, FS_EmptySet DEF SaveSound
<1> QED BY <1>1, <1>4 DEF j

\* A task whose completion the workbench will drop is otherwise as it was.
Silenced(j, k) ==
  /\ k.kind = j.kind /\ k.package = j.package /\ k.project = j.project
  /\ k.delta = j.delta /\ k.checkpoint = j.checkpoint /\ k.epoch = j.epoch
  /\ k.stage = j.stage /\ k.written = j.written /\ k.ok = j.ok
  /\ k.persisted = j.persisted /\ k.sources = j.sources
  /\ k.kind = "primary" => ~k.heard

HeardBy(j, heard) ==
  [kind |-> j.kind, package |-> j.package, project |-> j.project, delta |-> j.delta,
   checkpoint |-> j.checkpoint, epoch |-> j.epoch, heard |-> heard, stage |-> j.stage,
   written |-> j.written, ok |-> j.ok, persisted |-> j.persisted, sources |-> j.sources]

Hushed(j) == IF j.kind = "primary" THEN [j EXCEPT !.heard = FALSE] ELSE j

\* A task nobody listens to is the same task but for that.
LEMMA HushedTask ==
  ASSUME NEW j, SaveSound(j)
  PROVE  SaveSound(Hushed(j)) /\ Silenced(j, Hushed(j))
<1>1. j \in Save
  BY DEF SaveSound
<1>2. CASE j.kind = "primary"
  <2> DEFINE k == [j EXCEPT !.heard = FALSE]
  <2>1. k = HeardBy(j, FALSE)
    <3>1. j = HeardBy(j, j.heard)
      BY <1>1 DEF Save, HeardBy
    <3>2. ASSUME NEW heard PROVE [j EXCEPT !.heard = heard] = HeardBy(j, heard)
      BY <3>1 DEF HeardBy
    <3> QED BY <3>2
  <2>2. Hushed(j) = k
    BY <1>2 DEF Hushed
  <2> HIDE DEF k
  <2>3. k \in Save
    BY <1>1, <2>1 DEF Save, HeardBy
  <2>4. Silenced(j, k)
    BY <2>1 DEF Silenced, HeardBy
  <2>5. SaveSound(k)
    BY <2>3, <2>4 DEF SaveSound, Silenced
  <2> QED BY <2>2, <2>4, <2>5
<1>3. CASE j.kind # "primary"
  BY <1>3 DEF Hushed, Silenced
<1> QED BY <1>2, <1>3

\* Replacing the document silences its explicit saves and changes no task otherwise.
LEMMA UnheardTasks ==
  ASSUME Typed
  PROVE  /\ IsFiniteSet(Unheard(saves))
         /\ \A k \in Unheard(saves) : SaveSound(k) /\ \E j \in saves : Silenced(j, k)
<1>1. Unheard(saves) = {Hushed(j) : j \in saves}
  BY DEF Unheard, Hushed
<1> DEFINE f == [j \in saves |-> Hushed(j)]
<1>2. f \in Surjection(saves, Unheard(saves))
  BY <1>1 DEF Surjection
<1> HIDE DEF f
<1>3. IsFiniteSet(Unheard(saves))
  BY <1>2, FS_Surjection DEF Typed
<1> QED BY <1>1, <1>3, HushedTask DEF Typed

-----------------------------------------------------------------------------
(* The steps of an open                                                    *)

OpenOf(package, identity, stage, checkpoint, project, frames) ==
  [package |-> package, identity |-> identity, stage |-> stage, checkpoint |-> checkpoint,
   project |-> project, frames |-> frames]

\* An open is its fields, and its fields are an open.
LEMMA OpenIs ==
  ASSUME NEW o \in Open
  PROVE  /\ o = OpenOf(o.package, o.identity, o.stage, o.checkpoint, o.project, o.frames)
         /\ o.package \in {None} \cup Packages /\ o.identity \in {"none", "primary", "recovery"}
         /\ o.checkpoint \in {None} \cup Project /\ o.project \in {None} \cup Project
         /\ o.frames \subseteq Frame
BY DEF Open, OpenOf

\* An open is the record of its fields.
LEMMA IsOpen ==
  ASSUME NEW package, NEW identity, NEW stage, NEW checkpoint, NEW project, NEW frames
  PROVE  LET o == OpenOf(package, identity, stage, checkpoint, project, frames)
         IN  /\ o.package = package /\ o.identity = identity /\ o.stage = stage
             /\ o.checkpoint = checkpoint /\ o.project = project /\ o.frames = frames
             /\ (/\ package \in {None} \cup Packages
                 /\ identity \in {"none", "primary", "recovery"}
                 /\ stage \in {"analyze", "manifest", "journal", "ready"}
                 /\ checkpoint \in {None} \cup Project /\ project \in {None} \cup Project
                 /\ frames \subseteq Frame)
                => o \in Open
BY DEF OpenOf, Open

\* An open that begins with a place, a checkpoint beside the project or material.
LEMMA BegunOpen ==
  /\ \A p \in Packages : OpenSound(OpenTask(p, "primary", "manifest"))
  /\ OpenSound(OpenTask(None, "none", "analyze"))
  /\ \A p \in Packages, checkpoint \in Project :
       LET o == [OpenTask(p, "recovery", "manifest") EXCEPT !.checkpoint = checkpoint]
       IN  OpenSound(o) /\ o.identity = "recovery" /\ o.stage = "manifest"
<1>1. ASSUME NEW p \in Packages PROVE OpenSound(OpenTask(p, "primary", "manifest"))
  <2> DEFINE o == OpenTask(p, "primary", "manifest")
  <2>1. o = OpenOf(p, "primary", "manifest", None, None, {})
    BY DEF OpenTask, OpenOf
  <2> HIDE DEF o
  <2> QED BY <2>1, IsOpen, FS_EmptySet DEF OpenSound, o
<1>2. OpenSound(OpenTask(None, "none", "analyze"))
  <2> DEFINE o == OpenTask(None, "none", "analyze")
  <2>1. o = OpenOf(None, "none", "analyze", None, None, {})
    BY DEF OpenTask, OpenOf
  <2> HIDE DEF o
  <2> QED BY <2>1, IsOpen, FS_EmptySet DEF OpenSound, o
<1>3. ASSUME NEW p \in Packages, NEW checkpoint \in Project
      PROVE  LET o == [OpenTask(p, "recovery", "manifest") EXCEPT !.checkpoint = checkpoint]
             IN  OpenSound(o) /\ o.identity = "recovery" /\ o.stage = "manifest"
  <2> DEFINE o == [OpenTask(p, "recovery", "manifest") EXCEPT !.checkpoint = checkpoint]
  <2>1. o = OpenOf(p, "recovery", "manifest", checkpoint, None, {})
    BY DEF OpenTask, OpenOf
  <2> HIDE DEF o
  <2>2. OpenSound(o) /\ o.identity = "recovery" /\ o.stage = "manifest"
    BY <2>1, IsOpen, FS_EmptySet DEF OpenSound
  <2> QED BY <2>2 DEF o
<1> QED BY <1>1, <1>2, <1>3

\* What the manifest named is loaded.
LEMMA LoadedManifest ==
  ASSUME Typed, LoadManifest
  PROVE  LET project == Chosen(opening) IN
           /\ opening # None /\ opening.stage = "manifest" /\ opening.package \in Packages
           /\ project \in Project /\ IsReadable(opening)
           /\ OpenSound(opening') /\ opening' # None /\ opening'.stage = "journal"
           /\ opening'.package = opening.package /\ opening'.identity = opening.identity
           /\ opening'.project = project
<1> DEFINE project == Chosen(opening)
           a == [opening EXCEPT !.stage = "journal"]
           o == [a EXCEPT !.project = project]
<1>1. /\ opening # None /\ opening.stage = "manifest" /\ IsReadable(opening)
      /\ opening' = o
  BY DEF LoadManifest, Opening
<1>2. OpenSound(opening) /\ opening \in Open /\ opening.package \in Packages
  BY <1>1 DEF Typed, OpenSound
<1>3. project \in Project
  BY <1>1, <1>2 DEF OpenSound, Chosen, IsReadable, Typed, IsPackage
<1> HIDE DEF project
<1>4. a = OpenOf(opening.package, opening.identity, "journal", opening.checkpoint,
                 opening.project, opening.frames)
  BY <1>2, OpenIs DEF OpenOf
<1> HIDE DEF a
<1>5. o = OpenOf(opening.package, opening.identity, "journal", opening.checkpoint,
                 project, opening.frames)
  BY <1>4 DEF OpenOf
<1> HIDE DEF o
<1>6. /\ o \in Open /\ o.stage = "journal" /\ o.package = opening.package
      /\ o.identity = opening.identity /\ o.project = project /\ o.frames = opening.frames
  BY <1>2, <1>3, <1>5, OpenIs, IsOpen
<1>7. OpenSound(o) /\ o # None
  BY <1>1, <1>2, <1>3, <1>6, NoneAssumption DEF OpenSound
<1> QED BY <1>1, <1>2, <1>3, <1>6, <1>7 DEF project

\* The segments that are there are read.
LEMMA ReadJournal ==
  ASSUME Typed, ReadSegments
  PROVE  /\ opening # None /\ opening.stage = "journal" /\ opening.package \in Packages
         /\ OpenSound(opening') /\ opening' # None /\ opening'.stage = "ready"
         /\ opening'.package = opening.package /\ opening'.identity = opening.identity
         /\ opening'.project = opening.project
<1> DEFINE frames == Frames(disk[opening.package])
           a == [opening EXCEPT !.stage = "ready"]
           o == [a EXCEPT !.frames = frames]
<1>1. opening # None /\ opening.stage = "journal" /\ opening' = o
  BY DEF ReadSegments, Opening
<1>2. OpenSound(opening) /\ opening \in Open /\ opening.package \in Packages
  BY <1>1 DEF Typed, OpenSound
<1>3. frames \subseteq Frame /\ IsFiniteSet(frames)
  BY <1>2, FramesAreFinite DEF Frames, Typed, IsPackage, IsSegmentFile
<1> HIDE DEF frames
<1>4. a = OpenOf(opening.package, opening.identity, "ready", opening.checkpoint,
                 opening.project, opening.frames)
  BY <1>2, OpenIs DEF OpenOf
<1> HIDE DEF a
<1>5. o = OpenOf(opening.package, opening.identity, "ready", opening.checkpoint,
                 opening.project, frames)
  BY <1>4 DEF OpenOf
<1> HIDE DEF o
<1>6. /\ o \in Open /\ o.stage = "ready" /\ o.package = opening.package
      /\ o.identity = opening.identity /\ o.project = opening.project /\ o.frames = frames
  BY <1>2, <1>3, <1>5, OpenIs, IsOpen
<1>7. OpenSound(o) /\ o # None
  BY <1>1, <1>2, <1>3, <1>6, NoneAssumption DEF OpenSound
<1> QED BY <1>1, <1>2, <1>6, <1>7

\* What replaces the document when an open is ready.
LEMMA OpenReady ==
  ASSUME Typed, FinishOpen
  PROVE  /\ opening # None /\ opening.stage = "ready" /\ opening.package \in Packages
         /\ opening.project \in Project
         /\ document' \in Document /\ document' # None
         /\ document'.project = Replayed(opening.frames, opening.project)
         /\ document'.next_journal_sequence = NextSequence(opening.frames, opening.project)
         /\ document'.journal = << >>
         /\ document'.journal_checkpoint =
              [through_sequence |-> document'.next_journal_sequence - 1,
               project_revision |-> Revision(document'.project)]
         /\ document'.saved_revision = Revision(opening.project)
         /\ document'.saved_project = opening.project
         /\ document'.files = opening.package /\ document'.identity = opening.identity
         /\ document'.document_epoch = Epoch + 1
         /\ Revision(opening.project) =< Revision(document'.project)
         /\ SubSeq(document'.project, 1, Revision(opening.project)) = opening.project
<1> DEFINE epoch == Epoch + 1
           project == Replayed(opening.frames, opening.project)
           sequence == NextSequence(opening.frames, opening.project)
           e == Installed(project, opening.project, sequence,
                          opening.package, opening.identity, epoch)
<1>1. opening # None /\ opening.stage = "ready" /\ document' = e
  BY DEF FinishOpen, Replaces
<1>2. OpenSound(opening) /\ opening.identity \in {"none", "primary", "recovery"}
      /\ opening.package \in Packages /\ opening.project \in Project
      /\ opening.frames \subseteq Frame /\ IsFiniteSet(opening.frames)
  BY <1>1, OpenIs DEF Typed, OpenSound
<1>3. /\ project \in Project /\ sequence \in Nat \ {0}
      /\ Revision(opening.project) =< Revision(project)
      /\ SubSeq(project, 1, Revision(opening.project)) = opening.project
  BY <1>2, ReplayExtends
<1>4. epoch \in Nat
  BY DocumentIs DEF Epoch, Typed, DocumentSound
<1>e. e = Installed(project, opening.project, sequence,
                     opening.package, opening.identity, epoch)
  OBVIOUS
<1> HIDE DEF project, sequence, epoch, e
<1>5. /\ e \in Document
      /\ e.project = project /\ e.next_journal_sequence = sequence
      /\ e.journal = << >>
      /\ e.journal_checkpoint = [through_sequence |-> sequence - 1,
                                 project_revision |-> Revision(project)]
      /\ e.saved_revision = Revision(opening.project) /\ e.saved_project = opening.project
      /\ e.files = opening.package /\ e.identity = opening.identity
      /\ e.document_epoch = epoch
  BY <1>2, <1>3, <1>4, <1>e, InstalledDocument, SMTT(20)
<1>6. e # None
  BY <1>5, NoneAssumption
<1> QED BY <1>1, <1>2, <1>3, <1>5, <1>6 DEF project, sequence, epoch, e

\* What a new document and one made from audio begin with.
LEMMA UntitledDocument ==
  /\ Untitled \in Document /\ Untitled # None /\ DocumentSound(Untitled)
  /\ Untitled.project = << >> /\ Untitled.journal = << >>
  /\ Untitled.next_journal_sequence = 1
  /\ Untitled.journal_checkpoint = [through_sequence |-> 0, project_revision |-> 0]
  /\ Untitled.saved_project = << >> /\ Untitled.saved_revision = 0
  /\ Untitled.files = None /\ Untitled.identity = "none" /\ Untitled.document_epoch = 0
<1> DEFINE project == << >>
           one == 1
           unsaved == "none"
           zero == 0
           nowhere == None
           e == Installed(project, project, one, nowhere, unsaved, zero)
<1>1. Untitled = e
  BY DEF Untitled
<1>2. /\ project \in Project /\ one \in Nat \ {0} /\ zero \in Nat
      /\ unsaved \in {"none", "primary", "recovery"}
      /\ nowhere \in {None} \cup Packages
  BY DEF Project
<1>e. e = Installed(project, project, one, nowhere, unsaved, zero)
  OBVIOUS
<1> HIDE DEF project, one, zero, unsaved, nowhere, e
<1>3. /\ e \in Document /\ e.project = project /\ e.next_journal_sequence = one
      /\ e.journal = << >>
      /\ e.journal_checkpoint = [through_sequence |-> one - 1,
                                 project_revision |-> Revision(project)]
      /\ e.saved_revision = Revision(project) /\ e.saved_project = project
      /\ e.files = nowhere /\ e.identity = unsaved /\ e.document_epoch = zero
  BY <1>2, <1>e, InstalledDocument, SMTT(20)
<1>4. e # None
  BY <1>3, NoneAssumption
<1>5. one - 1 = 0
  BY DEF one
<1>6. Revision(project) = 0
  BY DEF Revision, project
<1> QED BY <1>1, <1>2, <1>3, <1>4, <1>5, <1>6 DEF DocumentSound, project, one, zero, unsaved, nowhere

-----------------------------------------------------------------------------
(* Type correctness                                                        *)

\* A program that has just started is well typed.
LEMMA TypedInit == Init => Typed
<1> SUFFICES ASSUME Init PROVE Typed
  OBVIOUS
<1>1. IsPackage(EmptyPackage)
  <2>1. << >> = [i \in {} |-> None] /\ DOMAIN [i \in {} |-> None] = {}
    OBVIOUS
  <2> QED BY <2>1, FS_EmptySet DEF IsPackage, EmptyPackage
<1> QED BY <1>1, FS_EmptySet, DocumentAssumption DEF Init, Typed

\* Every step keeps the types.
LEMMA TypedNext ==
  ASSUME Typed, [Next]_vars
  PROVE  Typed'
<1>1. ASSUME NEW c \in Commands, Edit(c) PROVE Typed'
  <2>1. document \in Document /\ DocumentSound(document)
    BY <1>1 DEF Edit, Typed, DocumentSound
  <2>2. document' = Edited(document, c)
    BY <1>1 DEF Edit
  <2> DEFINE e == Edited(document, c)
  <2>3. /\ e \in Document /\ e.files = document.files /\ e.identity = document.identity
        /\ e.saved_revision = document.saved_revision
        /\ e.saved_project = document.saved_project
    BY <2>1, EditedDocument
  <2> HIDE DEF e
  <2>4. DocumentSound(e)
    BY <2>1, <2>3 DEF DocumentSound
  <2> QED BY <1>1, <2>2, <2>4 DEF Edit, Typed, e
<1>2. ASSUME NEW p \in Packages, SavePrimary(p) PROVE Typed'
  <2>1. document \in Document
    BY <1>2 DEF SavePrimary, Typed, DocumentSound
  <2> DEFINE j == SaveTask("primary", document, p)
  <2>2. SaveSound(j)
    BY <2>1, BegunTask
  <2> HIDE DEF j
  <2>3. saves' = Unheard(saves) \cup {j}
    BY <1>2 DEF SavePrimary, j
  <2>4. IsFiniteSet(saves') /\ \A k \in saves' : SaveSound(k)
    BY <2>2, <2>3, UnheardTasks, FS_AddElement
  <2> QED BY <1>2, <2>4 DEF SavePrimary, Typed
<1>3. ASSUME Autosave PROVE Typed'
  <2>1. document # None /\ document \in Document /\ DocumentSound(document)
    BY <1>3 DEF Autosave, Typed, DocumentSound
  <2>2. PICK p \in Packages : /\ document' = [document EXCEPT !.files = p]
                              /\ saves' = saves \cup {SaveTask("autosave", document, p)}
    BY <1>3 DEF Autosave
  <2>3. /\ document' \in Document /\ document'.files = p
        /\ document'.saved_revision = document.saved_revision
        /\ document'.saved_project = document.saved_project
    BY <2>1, <2>2, FiledDocument
  <2>4. DocumentSound(document')
    BY <2>1, <2>3, DocumentAssumption DEF DocumentSound, Packages
  <2>5. SaveSound(SaveTask("autosave", document, p))
    BY <2>1, BegunTask
  <2>6. IsFiniteSet(saves') /\ \A k \in saves' : SaveSound(k)
    BY <2>2, <2>5, FS_AddElement DEF Typed
  <2> QED BY <1>3, <2>4, <2>6 DEF Autosave, Typed
<1>4. ASSUME NEW j \in saves, SaveTaskStep(j) PROVE Typed'
  <2>1. PICK k : Moves(j, k)
    BY <1>4, TaskMoves
  <2>2. IsFiniteSet(saves') /\ \A m \in saves' : SaveSound(m)
    BY <2>1, FS_AddElement, FS_RemoveElement DEF Moves, Typed
  <2>3. DOMAIN disk' = Packages /\ \A p \in Packages : IsPackage(disk'[p])
    BY <2>1 DEF Moves, Typed
  <2> QED BY <2>1, <2>2, <2>3 DEF Moves, Typed
<1>5. ASSUME NEW j \in saves, FinishSave(j) PROVE Typed'
  <2>1. /\ DocumentSound(document) /\ j.package \in Packages
        /\ j.project \in Project
    BY <1>5, TaskFacts DEF Typed, FinishSave, IsSameDocument
  <2>2. DocumentSound(document')
    BY <1>5, <2>1, SaveHeard, DocumentAssumption DEF DocumentSound, Packages
  <2>3. saves' = saves \ {j} /\ IsFiniteSet(saves')
    BY <1>5, FS_RemoveElement DEF Typed, FinishSave
  <2> QED BY <1>5, <2>2, <2>3 DEF FinishSave, Typed
<1>6. ASSUME NEW j \in saves, FinishAutosave(j) PROVE Typed'
  <2>1. DocumentSound(document) /\ Revision(j.project) \in Nat
    BY <1>6, TaskFacts, LenProperties DEF Typed, FinishAutosave, IsSameDocument, Revision, Project
  <2>2. DocumentSound(document')
    BY <1>6, <2>1, AutosaveHeard DEF DocumentSound
  <2>3. saves' = saves \ {j} /\ IsFiniteSet(saves')
    BY <1>6, FS_RemoveElement DEF Typed, FinishAutosave
  <2> QED BY <1>6, <2>1, <2>2, <2>3 DEF FinishAutosave, Typed
<1>7. ASSUME NEW j \in saves, DropSave(j) PROVE Typed'
  <2>1. saves' = saves \ {j} /\ IsFiniteSet(saves')
    BY <1>7, FS_RemoveElement DEF Typed, DropSave
  <2> QED BY <1>7, <2>1 DEF DropSave, Typed
<1>8. ASSUME NEW doc, Replaces(doc), DocumentSound(doc), UNCHANGED <<disk, faults>>,
             autosave_last_revision' \in {autosave_last_revision, None}
      PROVE  Typed'
  <2>1. IsFiniteSet(saves') /\ \A k \in saves' : SaveSound(k)
    BY <1>8, UnheardTasks DEF Replaces
  <2>2. installs' \in 0 .. MaxInstalls
    BY <1>8, DocumentAssumption DEF Replaces, Typed
  <2> QED BY <1>8, <2>1, <2>2 DEF Replaces, Typed
<1>9. ASSUME NewProject PROVE Typed'
  BY <1>8, <1>9, UntitledDocument DEF NewProject
<1>10. ASSUME FinishAudio PROVE Typed'
  BY <1>8, <1>10, UntitledDocument DEF FinishAudio
<1>11. ASSUME FinishOpen PROVE Typed'
  <2>1. DocumentSound(document')
    BY <1>11, OpenReady, DocumentAssumption DEF DocumentSound, Packages
  <2>2. Replaces(document') /\ UNCHANGED <<disk, faults>> /\ autosave_last_revision' = None
    BY <1>11 DEF FinishOpen, Replaces
  <2> QED BY <1>8, <2>1, <2>2
<1>12. ASSUME NEW task, BeginsOpen(task), OpenSound(task) PROVE Typed'
  <2>1. IsFiniteSet(saves') /\ \A k \in saves' : SaveSound(k)
    BY <1>12, UnheardTasks DEF BeginsOpen
  <2> QED BY <1>12, <2>1 DEF BeginsOpen, Typed
<1>13. ASSUME NEW p \in Packages, OpenProject(p) PROVE Typed'
  BY <1>12, <1>13, BegunOpen DEF OpenProject
<1>14. ASSUME OpenAudio PROVE Typed'
  BY <1>12, <1>14, BegunOpen DEF OpenAudio
<1>15. ASSUME OpenRecovery PROVE Typed'
  <2>1. PICK t \in DOMAIN disk[document.files].recoveries :
          BeginsOpen([OpenTask(document.files, "recovery", "manifest") EXCEPT
                        !.checkpoint = disk[document.files].recoveries[t]])
    BY <1>15 DEF OpenRecovery
  <2>2. document.files \in Packages
    BY <1>15, DocumentIs DEF OpenRecovery, Typed, DocumentSound
  <2>3. disk[document.files].recoveries[t] \in Project
    BY <2>1, <2>2 DEF Typed, IsPackage
  <2> QED BY <1>12, <2>1, <2>2, <2>3, BegunOpen
<1>16. ASSUME NEW task, Opening(task), task # None => OpenSound(task) PROVE Typed'
  BY <1>16 DEF Opening, Typed
<1>17. ASSUME LoadManifest \/ OpenFails \/ ReadSegments PROVE Typed'
  <2>1. CASE LoadManifest
    BY <1>16, <2>1, LoadedManifest DEF LoadManifest, Opening
  <2>2. CASE OpenFails
    BY <1>16, <2>2 DEF OpenFails
  <2>3. CASE ReadSegments
    BY <1>16, <2>3, ReadJournal DEF ReadSegments, Opening
  <2> QED BY <1>17, <2>1, <2>2, <2>3
<1>18. ASSUME Crash PROVE Typed'
  BY <1>18, FS_EmptySet, DocumentAssumption DEF Crash, Typed
<1>19. ASSUME UNCHANGED vars PROVE Typed'
  BY <1>19 DEF vars, Typed
<1> QED
  BY <1>1, <1>2, <1>3, <1>4, <1>5, <1>6, <1>7, <1>9, <1>10, <1>11, <1>13, <1>14, <1>15, <1>17,
     <1>18, <1>19 DEF Next

\* Everything on disk, in memory and in flight has its type, whatever fails and
\* whenever the process ends.
THEOREM DocumentTypeCorrect == Spec => []TypeOK
<1>1. Typed => TypeOK
  BY DEF Typed, TypeOK, DocumentSound, SaveSound, OpenSound
<1> QED BY <1>1, TypedInit, TypedNext, PTL DEF Spec

-----------------------------------------------------------------------------
(* Checkpoints are whole                                                   *)

\* A task that has just captured the document.
Fresh(k) ==
  /\ document # None
  /\ k.kind \in {"primary", "autosave"}
  /\ k.project = document.project /\ k.delta = document.journal
  /\ k.checkpoint = document.journal_checkpoint /\ k.epoch = document.document_epoch
  /\ k.stage = "payloads" /\ k.written = 0 /\ k.ok /\ ~k.persisted /\ k.sources = {}

\* Between its own steps a task only loses its listener.
KeepsTasks ==
  \A k \in saves' : k \in saves \/ Fresh(k) \/ \E j \in saves : Silenced(j, k)

\* Only a task's own step touches the disk or the point a task is at.
LEMMA OnlyTasksWrite ==
  ASSUME Typed, [Next]_vars
  PROVE  \/ \E j \in saves : \E k : Moves(j, k)
         \/ disk' = disk /\ KeepsTasks
<1>1. ASSUME NEW p \in Packages, SavePrimary(p) PROVE disk' = disk /\ KeepsTasks
  <2>1. document # None /\ document \in Document
    BY <1>1 DEF SavePrimary, Typed, DocumentSound
  <2>2. Fresh(SaveTask("primary", document, p))
    BY <2>1, BegunTask DEF Fresh
  <2> QED BY <1>1, <2>2, UnheardTasks DEF SavePrimary, KeepsTasks
<1>2. ASSUME Autosave PROVE disk' = disk /\ KeepsTasks
  <2>1. document # None /\ document \in Document
    BY <1>2 DEF Autosave, Typed, DocumentSound
  <2>2. PICK p \in Packages : saves' = saves \cup {SaveTask("autosave", document, p)}
    BY <1>2 DEF Autosave
  <2>3. Fresh(SaveTask("autosave", document, p))
    BY <2>1, BegunTask DEF Fresh
  <2> QED BY <1>2, <2>2, <2>3 DEF Autosave, KeepsTasks
<1>3. ASSUME UNCHANGED disk, saves' \subseteq saves PROVE disk' = disk /\ KeepsTasks
  BY <1>3 DEF KeepsTasks
<1>4. ASSUME UNCHANGED disk, saves' = Unheard(saves) PROVE disk' = disk /\ KeepsTasks
  BY <1>4, UnheardTasks DEF KeepsTasks
<1>5. ASSUME NEW j \in saves, FinishSave(j) \/ FinishAutosave(j) \/ DropSave(j)
      PROVE  disk' = disk /\ KeepsTasks
  BY <1>3, <1>5 DEF FinishSave, FinishAutosave, DropSave
<1>6. ASSUME NEW p \in Packages, OpenProject(p) PROVE disk' = disk /\ KeepsTasks
  BY <1>4, <1>6 DEF OpenProject, BeginsOpen
<1>7. ASSUME OpenRecovery \/ OpenAudio PROVE disk' = disk /\ KeepsTasks
  BY <1>4, <1>7 DEF OpenRecovery, OpenAudio, BeginsOpen
<1>8. ASSUME NewProject \/ FinishAudio \/ FinishOpen PROVE disk' = disk /\ KeepsTasks
  BY <1>4, <1>8 DEF NewProject, FinishAudio, FinishOpen, Replaces
<1>9. ASSUME LoadManifest \/ OpenFails \/ ReadSegments PROVE disk' = disk /\ KeepsTasks
  BY <1>3, <1>9 DEF LoadManifest, OpenFails, ReadSegments, Opening
<1>10. ASSUME Crash \/ UNCHANGED vars PROVE disk' = disk /\ KeepsTasks
  BY <1>3, <1>10 DEF Crash, vars
<1>11. ASSUME NEW c \in Commands, Edit(c) PROVE disk' = disk /\ KeepsTasks
  BY <1>3, <1>11 DEF Edit
<1> QED BY <1>1, <1>2, <1>5, <1>6, <1>7, <1>8, <1>9, <1>10, <1>11, TaskMoves DEF Next

\* What a task has written of its checkpoint is on disk.
PayloadsWritten ==
  \A j \in saves : j.stage = "payloads" =>
    \A n \in 1 .. j.written : PayloadThere(disk[j.package], j, n)

Whole == ManifestsAreWhole /\ PayloadsWritten

\* Payloads are not rewritten, so a manifest that was whole stays whole.
LEMMA WholeStays ==
  ASSUME NEW p, NEW q, NEW project,
         \A key \in DOMAIN p.payloads :
           key \in DOMAIN q.payloads /\ q.payloads[key] = p.payloads[key]
  PROVE  /\ IsWhole(p, project) => IsWhole(q, project)
         /\ \A j, n : PayloadThere(p, j, n) => PayloadThere(q, j, n)
BY DEF IsWhole, AdmitsPayload, PayloadThere

\* A checkpoint all of whose payloads are written is whole.
LEMMA AllPayloadsMakeItWhole ==
  ASSUME NEW q, NEW j, \A n \in 1 .. Len(PayloadOrder) : PayloadThere(q, j, n)
  PROVE  IsWhole(q, j.project)
<1>1. Domains = ToSet(PayloadOrder) /\ DOMAIN PayloadOrder = 1 .. Len(PayloadOrder)
  BY PackageAssumption, LenProperties
<1>2. ASSUME NEW d \in Domains
      PROVE  PayloadKey(j.project, d) \in DOMAIN q.payloads /\ AdmitsPayload(q, j.project, d)
  <2>1. PICK n \in 1 .. Len(PayloadOrder) : PayloadOrder[n] = d
    BY <1>1 DEF ToSet
  <2> QED BY <2>1 DEF PayloadThere, AdmitsPayload
<1> QED BY <1>2 DEF IsWhole

\* Every step keeps the manifests whole: payloads are written before the manifest that
\* names them, and none is ever removed.
LEMMA WholeNext ==
  ASSUME Typed, Whole, [Next]_vars
  PROVE  Whole'
<1>1. ASSUME NEW j \in saves, NEW k, Moves(j, k) PROVE Whole'
  <2> DEFINE p == disk[j.package]
             q == disk'[j.package]
  <2>1. /\ MovesCheckpoint(j, k, p, q) /\ Captured(j, k) /\ saves' = (saves \ {j}) \cup {k}
        /\ \A x \in Packages \ {j.package} : disk'[x] = disk[x]
        /\ DOMAIN p.payloads \subseteq DOMAIN q.payloads
        /\ \A key \in DOMAIN p.payloads : q.payloads[key] = p.payloads[key]
    BY <1>1 DEF Moves, MovesCheckpoint
  <2>2. j.package \in Packages /\ j.written \in 0 .. Len(PayloadOrder) /\ Len(PayloadOrder) \in Nat
    BY TaskFacts, SaveIsAt
  <2>3. \A x \in Packages : \A key \in DOMAIN disk[x].payloads :
          key \in DOMAIN disk'[x].payloads /\ disk'[x].payloads[key] = disk[x].payloads[key]
    BY <2>1
  <2>4. \A x \in Packages : \A project : IsWhole(disk[x], project) => IsWhole(disk'[x], project)
    BY <2>3, WholeStays
  <2>5. \A x \in Packages : \A i, n : PayloadThere(disk[x], i, n) => PayloadThere(disk'[x], i, n)
    BY <2>3, WholeStays
  <2>6. j.stage = "payloads" /\ j.written = Len(PayloadOrder) => IsWhole(q, j.project)
    <3> SUFFICES ASSUME j.stage = "payloads", j.written = Len(PayloadOrder)
                 PROVE  IsWhole(q, j.project)
      OBVIOUS
    <3>1. \A n \in 1 .. Len(PayloadOrder) : PayloadThere(q, j, n)
      BY <2>2, <2>5 DEF Whole, PayloadsWritten
    <3> QED BY <3>1, AllPayloadsMakeItWhole
  <2>7. /\ q.primary # None => IsWhole(q, q.primary)
        /\ \A t \in DOMAIN q.recoveries : IsWhole(q, q.recoveries[t])
    <3>1. /\ p.primary # None => IsWhole(q, p.primary)
          /\ \A t \in DOMAIN p.recoveries : IsWhole(q, p.recoveries[t])
      BY <2>2, <2>4 DEF Whole, ManifestsAreWhole
    <3>2. \/ q.primary = p.primary
          \/ q.primary = j.project /\ j.stage = "payloads" /\ j.written = Len(PayloadOrder)
      BY <2>1 DEF MovesCheckpoint, Publishes
    <3>3. \A t \in DOMAIN q.recoveries :
            \/ t \in DOMAIN p.recoveries /\ q.recoveries[t] = p.recoveries[t]
            \/ /\ q.recoveries[t] = j.project
               /\ j.stage = "payloads" /\ j.written = Len(PayloadOrder)
      BY <2>1 DEF MovesCheckpoint
    <3> HIDE DEF p, q
    <3> QED BY <2>6, <3>1, <3>2, <3>3
  <2>8. ManifestsAreWhole'
    BY <2>1, <2>4, <2>7 DEF Whole, ManifestsAreWhole
  <2>9. ASSUME NEW i \in saves', i.stage = "payloads", NEW n \in 1 .. i.written
        PROVE  PayloadThere(disk'[i.package], i, n)
    <3>1. CASE i \in saves
      BY <2>5, <2>9, <3>1, TaskFacts DEF Whole, PayloadsWritten
    <3>2. CASE i = k
      <4>1. /\ j.stage = "payloads" /\ k.written = j.written + 1 /\ PayloadThere(q, j, k.written)
            /\ k.package = j.package /\ k.project = j.project
        BY <2>1, <2>9, <3>2 DEF MovesCheckpoint, Captured
      <4>2. n \in 1 .. j.written \/ n = k.written
        BY <2>2, <2>9, <3>2, <4>1
      <4>3. PayloadThere(q, j, n)
        BY <2>2, <2>5, <4>1, <4>2 DEF Whole, PayloadsWritten
      <4> QED BY <3>2, <4>1, <4>3 DEF PayloadThere
    <3> QED BY <2>1, <3>1, <3>2
  <2> QED BY <2>8, <2>9 DEF Whole, PayloadsWritten
<1>2. ASSUME disk' = disk, KeepsTasks PROVE Whole'
  <2>1. ManifestsAreWhole'
    BY <1>2 DEF Whole, ManifestsAreWhole
  <2>2. ASSUME NEW i \in saves', i.stage = "payloads", NEW n \in 1 .. i.written
        PROVE  PayloadThere(disk'[i.package], i, n)
    <3>1. CASE i \in saves
      BY <1>2, <2>2, <3>1 DEF Whole, PayloadsWritten
    <3>2. CASE Fresh(i)
      BY <2>2, <3>2 DEF Fresh
    <3>3. ASSUME NEW j \in saves, Silenced(j, i) PROVE PayloadThere(disk'[i.package], i, n)
      <4>1. j.stage = "payloads" /\ n \in 1 .. j.written /\ i.package = j.package
            /\ i.project = j.project
        BY <2>2, <3>3 DEF Silenced
      <4> QED BY <1>2, <4>1 DEF Whole, PayloadsWritten, PayloadThere
    <3> QED BY <1>2, <3>1, <3>2, <3>3 DEF KeepsTasks
  <2> QED BY <2>1, <2>2 DEF Whole, PayloadsWritten
<1> QED BY <1>1, <1>2, OnlyTasksWrite

\* No manifest, of an explicit save or of an autosave, ever names a payload that
\* is not there with the bytes it was saved with (write_manifest and the write-once
\* payloads of project_store.rs), whatever other tasks save into the package.
THEOREM ManifestsStayWhole == Spec => []ManifestsAreWhole
<1>1. Init => Whole
  BY DEF Init, Whole, ManifestsAreWhole, PayloadsWritten, EmptyPackage
<1>2. Whole => ManifestsAreWhole
  BY DEF Whole
<1> QED BY <1>1, <1>2, TypedInit, TypedNext, WholeNext, PTL DEF Spec

-----------------------------------------------------------------------------
(* Compaction loses no command                                             *)

\* s may go: another segment that was compacted holds all of its frames.
Replaceable(s, segments) ==
  \E m \in segments : m # s /\ m.compacted /\ s.frames \subseteq m.frames

\* Whatever a task is about to remove may go, even when other tasks compact the
\* package as well and remove what this one relies on.
SourcesCovered ==
  \A j \in saves : j.stage = "remove" =>
    \A s \in j.sources : Replaceable(s, disk[j.package].segments)

\* A segment is its two fields.
LEMMA SameSegment ==
  ASSUME NEW s \in Segment, NEW m \in Segment, s.compacted = m.compacted, s.frames = m.frames
  PROVE  s = m
BY DEF Segment

\* Removing a segment that may go loses no frame, and whatever could go still can:
\* what covered it is covered in turn, by a segment that is not itself.
LEMMA CoverSurvives ==
  ASSUME NEW segments \in SUBSET Segment, NEW gone, Replaceable(gone, segments)
  PROVE  /\ FramesIn(segments) \subseteq FramesIn(segments \ {gone})
         /\ \A s \in Segment : Replaceable(s, segments) => Replaceable(s, segments \ {gone})
<1>1. PICK n \in segments : n # gone /\ n.compacted /\ gone.frames \subseteq n.frames
  BY DEF Replaceable
<1>2. FramesIn(segments) \subseteq FramesIn(segments \ {gone})
  BY <1>1 DEF FramesIn
<1>3. ASSUME NEW s \in Segment, Replaceable(s, segments)
      PROVE  Replaceable(s, segments \ {gone})
  <2>1. PICK m \in segments : m # s /\ m.compacted /\ s.frames \subseteq m.frames
    BY <1>3 DEF Replaceable
  <2>2. CASE m # gone
    BY <2>1, <2>2 DEF Replaceable
  <2>3. CASE m = gone
    <3>1. n # s
      <4> SUFFICES ASSUME n = s PROVE FALSE
        OBVIOUS
      <4>1. n.frames = m.frames /\ n \in Segment /\ m \in Segment
        BY <1>1, <2>1, <2>3
      <4>2. n.compacted = m.compacted
        BY <1>1, <2>1, <4>1 DEF Segment
      <4>3. n = m
        BY <4>1, <4>2, SameSegment
      <4> QED BY <2>1, <4>3
    <3> QED BY <1>1, <2>1, <2>3, <3>1 DEF Replaceable
  <2> QED BY <2>2, <2>3
<1> QED BY <1>2, <1>3

\* More segments cover more.
LEMMA CoverGrows ==
  ASSUME NEW segments, NEW more, segments \subseteq more
  PROVE  /\ FramesIn(segments) \subseteq FramesIn(more)
         /\ \A s : Replaceable(s, segments) => Replaceable(s, more)
BY DEF FramesIn, Replaceable

\* What is merged may go, but for the merged segment itself.
LEMMA MergedCovers ==
  ASSUME NEW sources, NEW segments, NEW s \in sources \ {Merged(sources)}
  PROVE  Replaceable(s, segments \cup {Merged(sources)})
<1> DEFINE m == Merged(sources)
<1>1. m.compacted /\ m.frames = FramesIn(sources)
  BY DEF Merged
<1> HIDE DEF m
<1>2. s.frames \subseteq m.frames /\ m # s /\ m \in segments \cup {m}
  BY <1>1 DEF FramesIn, m
<1>3. Replaceable(s, segments \cup {m})
  BY <1>1, <1>2 DEF Replaceable
<1> QED BY <1>3 DEF m

\* A task's own step keeps every frame, and whatever could be removed still can.
LEMMA JournalKept ==
  ASSUME Typed, SourcesCovered, NEW j \in saves, NEW k, Moves(j, k)
  PROVE  /\ \A p \in Packages : Frames(disk[p]) \subseteq Frames(disk'[p])
         /\ \A p \in Packages, s \in Segment :
              Replaceable(s, disk[p].segments) => Replaceable(s, disk'[p].segments)
         /\ k.stage = "remove" =>
              \A s \in k.sources : Replaceable(s, disk'[j.package].segments)
<1> DEFINE p == disk[j.package]
           q == disk'[j.package]
<1>1. /\ MovesJournal(j, k, p, q)
      /\ \A x \in Packages \ {j.package} : disk'[x] = disk[x]
  BY DEF Moves
<1>2. p.segments \in SUBSET Segment /\ (j.stage = "remove" => \A s \in j.sources : s \in Segment)
  BY TaskFacts DEF IsPackage, SaveSound, IsSegmentFile
<1>3. j.stage = "remove" => \A s \in j.sources : Replaceable(s, p.segments)
  BY DEF SourcesCovered
<1> HIDE DEF p, q
<1>4. /\ FramesIn(p.segments) \subseteq FramesIn(q.segments)
      /\ \A s \in Segment : Replaceable(s, p.segments) => Replaceable(s, q.segments)
      /\ k.stage = "remove" => \A s \in k.sources : Replaceable(s, q.segments)
  <2>1. CASE q.segments = p.segments /\ k.stage # "remove"
    BY <2>1
  <2>2. CASE q.segments = p.segments \cup {SegmentOf(j.delta)} /\ k.stage # "remove"
    BY <2>2, CoverGrows
  <2>3. CASE /\ q.segments = p.segments \cup {Merged(j.sources)}
             /\ k.sources = j.sources \ {Merged(j.sources)}
    <3>1. p.segments \subseteq q.segments
      BY <2>3
    <3>2. /\ FramesIn(p.segments) \subseteq FramesIn(q.segments)
          /\ \A s : Replaceable(s, p.segments) => Replaceable(s, q.segments)
      BY <3>1, CoverGrows
    <3>3. ASSUME NEW s \in k.sources PROVE Replaceable(s, q.segments)
      <4>1. s \in j.sources \ {Merged(j.sources)}
        BY <2>3
      <4>2. Replaceable(s, p.segments \cup {Merged(j.sources)})
        BY <4>1, MergedCovers
      <4> QED BY <2>3, <4>2
    <3> QED BY <3>2, <3>3
  <2>4. CASE /\ j.stage = "remove" /\ k.stage = "remove"
             /\ \E s \in j.sources : /\ q.segments = p.segments \ {s}
                                     /\ k.sources = j.sources \ {s}
    <3>1. PICK s \in j.sources : q.segments = p.segments \ {s} /\ k.sources = j.sources \ {s}
      BY <2>4
    <3>2. Replaceable(s, p.segments)
      BY <1>3, <2>4
    <3>3. /\ FramesIn(p.segments) \subseteq FramesIn(q.segments)
          /\ \A t \in Segment : Replaceable(t, p.segments) => Replaceable(t, q.segments)
      <4> DEFINE segments == p.segments
      <4>1. segments \in SUBSET Segment /\ Replaceable(s, segments)
        BY <1>2, <3>2
      <4>2. q.segments = segments \ {s}
        BY <3>1
      <4> HIDE DEF segments
      <4>3. /\ FramesIn(segments) \subseteq FramesIn(segments \ {s})
            /\ \A t \in Segment : Replaceable(t, segments) => Replaceable(t, segments \ {s})
        BY <4>1, CoverSurvives
      <4> QED BY <4>2, <4>3 DEF segments
    <3> QED BY <1>2, <1>3, <2>4, <3>1, <3>3
  <2> QED BY <1>1, <2>1, <2>2, <2>3, <2>4 DEF MovesJournal
<1> QED BY <1>1, <1>4 DEF Frames, p, q

\* Every step keeps the sources covered, and so every frame.
LEMMA CoveredNext ==
  ASSUME Typed, SourcesCovered, [Next]_vars
  PROVE  SourcesCovered' /\ \A p \in Packages : Frames(disk[p]) \subseteq Frames(disk'[p])
<1>1. ASSUME NEW j \in saves, NEW k, Moves(j, k)
      PROVE  SourcesCovered' /\ \A p \in Packages : Frames(disk[p]) \subseteq Frames(disk'[p])
  <2>1. saves' = (saves \ {j}) \cup {k} /\ k.package = j.package
    BY <1>1 DEF Moves, Captured
  <2>2. ASSUME NEW i \in saves', i.stage = "remove", NEW s \in i.sources
        PROVE  Replaceable(s, disk'[i.package].segments)
    <3>1. CASE i \in saves
      <4>1. i.package \in Packages /\ s \in Segment
        BY <2>2, <3>1, TaskFacts DEF SaveSound, IsSegmentFile
      <4>2. Replaceable(s, disk[i.package].segments)
        BY <2>2, <3>1 DEF SourcesCovered
      <4> QED BY <1>1, <4>1, <4>2, JournalKept
    <3>2. CASE i = k
      BY <1>1, <2>1, <2>2, <3>2, JournalKept
    <3> QED BY <2>1, <3>1, <3>2
  <2>3. \A p \in Packages : Frames(disk[p]) \subseteq Frames(disk'[p])
    BY <1>1, JournalKept
  <2> QED BY <2>2, <2>3 DEF SourcesCovered
<1>2. ASSUME disk' = disk, KeepsTasks
      PROVE  SourcesCovered' /\ \A p \in Packages : Frames(disk[p]) \subseteq Frames(disk'[p])
  <2>1. ASSUME NEW i \in saves', i.stage = "remove", NEW s \in i.sources
        PROVE  Replaceable(s, disk'[i.package].segments)
    <3>1. CASE i \in saves
      BY <1>2, <2>1, <3>1 DEF SourcesCovered
    <3>2. CASE Fresh(i)
      BY <2>1, <3>2 DEF Fresh
    <3>3. ASSUME NEW j \in saves, Silenced(j, i)
          PROVE  Replaceable(s, disk'[i.package].segments)
      BY <1>2, <2>1, <3>3 DEF SourcesCovered, Silenced
    <3> QED BY <1>2, <3>1, <3>2, <3>3 DEF KeepsTasks
  <2> QED BY <1>2, <2>1 DEF SourcesCovered
<1> QED BY <1>1, <1>2, OnlyTasksWrite

\* Compaction never loses a command of the journal (compact_journal_segments of
\* project_store.rs), however many tasks compact one package and wherever they
\* fail or the process ends.
THEOREM CommandsAreKept == Spec => CommandsAreNeverLost
<1>1. Init => SourcesCovered
  BY DEF Init, SourcesCovered
<1>2. Typed /\ SourcesCovered /\ [Next]_vars => Typed' /\ SourcesCovered'
  BY TypedNext, CoveredNext
<1>3. Typed /\ SourcesCovered /\ [Next]_vars
      => [\A p \in Packages : Frames(disk[p]) \subseteq Frames(disk[p])']_vars
  BY CoveredNext DEF Frames
<1> QED BY <1>1, <1>2, <1>3, TypedInit, PTL DEF Spec, CommandsAreNeverLost

-----------------------------------------------------------------------------
(* The pending records                                                     *)

\* The beginning of a sequence, element by element.
LEMMA FirstElements ==
  ASSUME NEW S, NEW s \in Seq(S), NEW n \in 0 .. Len(s)
  PROVE  /\ SubSeq(s, 1, n) \in Seq(S) /\ Len(SubSeq(s, 1, n)) = n
         /\ \A i \in 1 .. n : SubSeq(s, 1, n)[i] = s[i]
<1>1. Len(s) \in Nat /\ \A i \in 1 .. n : s[i] \in S
  BY LenProperties, ElementOfSeq
<1>2. n \in Int /\ 1 \in Int /\ n - 1 + 1 = n /\ \A i \in 1 .. n : 1 + i - 1 = i
  BY <1>1
<1>3. /\ SubSeq(s, 1, n) \in Seq(S) /\ Len(SubSeq(s, 1, n)) = IF 1 <= n THEN n - 1 + 1 ELSE 0
      /\ \A i \in 1 .. n - 1 + 1 : SubSeq(s, 1, n)[i] = s[1 + i - 1]
  BY <1>1, <1>2, SubSeqProperties
<1> QED BY <1>1, <1>2, <1>3

\* One more element changes no beginning.
LEMMA BeginningOfAppend ==
  ASSUME NEW S, NEW s \in Seq(S), NEW x \in S, NEW n \in 0 .. Len(s)
  PROVE  SubSeq(Append(s, x), 1, n) = SubSeq(s, 1, n)
<1> DEFINE t == Append(s, x)
<1>1. Len(s) \in Nat /\ t \in Seq(S) /\ Len(t) = Len(s) + 1 /\ \A i \in 1 .. Len(s) : t[i] = s[i]
  BY LenProperties, AppendProperties
<1> HIDE DEF t
<1>2. n \in 0 .. Len(t)
  BY <1>1
<1>3. /\ SubSeq(s, 1, n) \in Seq(S) /\ Len(SubSeq(s, 1, n)) = n
      /\ \A i \in 1 .. n : SubSeq(s, 1, n)[i] = s[i]
      /\ SubSeq(t, 1, n) \in Seq(S) /\ Len(SubSeq(t, 1, n)) = n
      /\ \A i \in 1 .. n : SubSeq(t, 1, n)[i] = t[i]
  BY <1>1, <1>2, FirstElements
<1>4. \A i \in 1 .. n : SubSeq(t, 1, n)[i] = SubSeq(s, 1, n)[i]
  BY <1>1, <1>3
<1> QED BY <1>3, <1>4, SeqEqual DEF t

\* The record that is the i-th after the cursor.
IsRecord(doc, f, i) ==
  LET from == doc.journal_checkpoint IN
    /\ f.sequence = from.through_sequence + i
    /\ f.result = SubSeq(doc.project, 1, from.project_revision + i)

\* What is pending is what came after the cursor, and the next record follows it.
IsPending(doc) ==
  LET from == doc.journal_checkpoint IN
    /\ doc.next_journal_sequence = from.through_sequence + Len(doc.journal) + 1
    /\ Len(doc.project) = from.project_revision + Len(doc.journal)
    /\ \A i \in 1 .. Len(doc.journal) : IsRecord(doc, doc.journal[i], i)

Pending == document # None => IsPending(document)

\* What is known of a document's sequences.
LEMMA DocumentLengths ==
  ASSUME NEW doc \in Document
  PROVE  /\ doc.project \in Seq(Commands) /\ Len(doc.project) \in Nat
         /\ doc.journal \in Seq(Frame) /\ Len(doc.journal) \in Nat
         /\ DOMAIN doc.journal = 1 .. Len(doc.journal)
         /\ doc.next_journal_sequence \in Nat
         /\ doc.journal_checkpoint.through_sequence \in Nat
         /\ doc.journal_checkpoint.project_revision \in Nat
BY DocumentIs, LenProperties DEF Project, Checkpoint

\* An edit records the next frame at the end of the journal.
LEMMA EditKeepsPending ==
  ASSUME NEW doc \in Document, IsPending(doc), NEW c \in Commands
  PROVE  IsPending(Edited(doc, c))
<1> DEFINE e == Edited(doc, c)
           f == FrameOf(doc, c)
           from == doc.journal_checkpoint
           n == Len(doc.journal)
<1>1. /\ e \in Document /\ f \in Frame /\ e.project = Append(doc.project, c)
      /\ e.journal = Append(doc.journal, f)
      /\ e.next_journal_sequence = doc.next_journal_sequence + 1
      /\ e.journal_checkpoint = from
  BY EditedDocument
<1>2. f.sequence = doc.next_journal_sequence /\ f.result = e.project
  BY <1>1 DEF FrameOf
<1> HIDE DEF e, f
<1>3. /\ doc.project \in Seq(Commands) /\ Len(doc.project) \in Nat
      /\ doc.journal \in Seq(Frame) /\ n \in Nat
      /\ from.through_sequence \in Nat /\ from.project_revision \in Nat
  BY DocumentLengths
<1>4. /\ Len(e.project) = Len(doc.project) + 1 /\ Len(e.journal) = n + 1
      /\ e.project \in Seq(Commands)
      /\ \A i \in 1 .. n : e.journal[i] = doc.journal[i]
      /\ e.journal[n + 1] = f
  BY <1>1, <1>3, AppendProperties
<1>5. /\ doc.next_journal_sequence = from.through_sequence + n + 1
      /\ Len(doc.project) = from.project_revision + n
      /\ \A i \in 1 .. n : IsRecord(doc, doc.journal[i], i)
  BY DEF IsPending
<1>6. ASSUME NEW i \in 1 .. n PROVE IsRecord(e, e.journal[i], i)
  <2> DEFINE length == from.project_revision + i
  <2>1. length \in 0 .. Len(doc.project)
    BY <1>3, <1>5
  <2> HIDE DEF length
  <2>2. SubSeq(e.project, 1, length) = SubSeq(doc.project, 1, length)
    BY <1>1, <1>3, <2>1, BeginningOfAppend
  <2> QED BY <1>1, <1>4, <1>5, <2>2 DEF IsRecord, length
<1>7. IsRecord(e, f, n + 1)
  <2>1. from.project_revision + (n + 1) = Len(e.project)
    BY <1>3, <1>4, <1>5
  <2>2. SubSeq(e.project, 1, Len(e.project)) = e.project
    BY <1>4, SubSeqFull
  <2>3. f.sequence = from.through_sequence + (n + 1)
    BY <1>2, <1>3, <1>5
  <2> QED BY <1>1, <1>2, <2>1, <2>2, <2>3 DEF IsRecord
<1>8. \A i \in 1 .. n + 1 : IsRecord(e, e.journal[i], i)
  BY <1>3, <1>4, <1>6, <1>7
<1>9. /\ e.next_journal_sequence = from.through_sequence + Len(e.journal) + 1
      /\ Len(e.project) = from.project_revision + Len(e.journal)
  <2> DEFINE sequence == doc.next_journal_sequence
             through == from.through_sequence
             revision == from.project_revision
             length == Len(doc.project)
             pending == Len(e.journal)
             longer == Len(e.project)
  <2>1. /\ sequence = through + n + 1 /\ length = revision + n
        /\ longer = length + 1 /\ pending = n + 1
        /\ n \in Nat /\ through \in Nat /\ revision \in Nat
    BY <1>3, <1>4, <1>5
  <2>2. e.next_journal_sequence = sequence + 1
    BY <1>1
  <2> HIDE DEF sequence, through, revision, length, n, pending, longer
  <2>3. sequence + 1 = through + pending + 1 /\ longer = revision + pending
    BY <2>1
  <2> QED BY <2>2, <2>3 DEF through, revision, pending, longer
<1> QED BY <1>1, <1>4, <1>8, <1>9 DEF IsPending, e

\* The head of what is pending, and what is left when it is acknowledged.
LEMMA AcknowledgedParts ==
  ASSUME NEW doc \in Document, NEW delta \in Seq(Frame), delta # << >>,
         IsPrefix(delta, doc.journal)
  PROVE  LET m == Len(delta)
             n == Len(doc.journal)
         IN  /\ m \in Nat \ {0} /\ m <= n /\ Last(delta) = doc.journal[m]
             /\ \A i \in 1 .. m : delta[i] = doc.journal[i]
             /\ PendingAfter(doc, delta) \in Seq(Frame)
             /\ Len(PendingAfter(doc, delta)) = n - m
             /\ \A i \in 1 .. n - m : PendingAfter(doc, delta)[i] = doc.journal[m + i]
<1> DEFINE m == Len(delta)
           n == Len(doc.journal)
           rest == PendingAfter(doc, delta)
<1>1. m \in Nat \ {0} /\ n \in Nat /\ doc.journal \in Seq(Frame)
  BY EmptySeq, DocumentLengths
<1>2. m <= n /\ SubSeq(delta, 1, m) = SubSeq(doc.journal, 1, m)
  BY DEF IsPrefix
<1>3. m \in 0 .. Len(delta) /\ m \in 0 .. Len(doc.journal)
  BY <1>1, <1>2
<1>4. /\ \A i \in 1 .. m : SubSeq(delta, 1, m)[i] = delta[i]
      /\ \A i \in 1 .. m : SubSeq(doc.journal, 1, m)[i] = doc.journal[i]
  BY <1>1, <1>3, FirstElements
<1>5. \A i \in 1 .. m : delta[i] = doc.journal[i]
  BY <1>2, <1>4
<1>6. Last(delta) = doc.journal[m]
  BY <1>1, <1>5 DEF Last
<1>7. /\ rest = SubSeq(doc.journal, m + 1, n) /\ m + 1 \in Int /\ n \in Int
      /\ \A i \in m + 1 .. n : doc.journal[i] \in Frame
  BY <1>1, <1>2, ElementOfSeq DEF PendingAfter
<1> HIDE DEF m, n, rest
<1>8. /\ rest \in Seq(Frame)
      /\ Len(rest) = IF m + 1 <= n THEN n - (m + 1) + 1 ELSE 0
      /\ \A i \in 1 .. n - (m + 1) + 1 : rest[i] = doc.journal[(m + 1) + i - 1]
  BY <1>7, SubSeqProperties
<1>9. /\ Len(rest) = n - m /\ n - (m + 1) + 1 = n - m
      /\ \A i \in 1 .. n - m : (m + 1) + i - 1 = m + i
  BY <1>1, <1>2, <1>8
<1>10. \A i \in 1 .. n - m : rest[i] = doc.journal[m + i]
  BY <1>8, <1>9
<1> QED BY <1>1, <1>2, <1>5, <1>6, <1>8, <1>9, <1>10 DEF m, n, rest

\* An acknowledgement drops from the journal exactly the frames up to its new checkpoint.
LEMMA SettlingKeepsPending ==
  ASSUME NEW doc \in Document, IsPending(doc), NEW e, e \in Document, NEW j \in Save,
         Settles(doc, e, j), e.project = doc.project,
         e.next_journal_sequence = doc.next_journal_sequence
  PROVE  IsPending(e)
<1>1. CASE e.journal = doc.journal /\ e.journal_checkpoint = doc.journal_checkpoint
  BY <1>1 DEF IsPending, IsRecord
<1>2. CASE /\ j.delta # << >> /\ IsPrefix(j.delta, doc.journal)
           /\ e.journal = PendingAfter(doc, j.delta)
           /\ e.journal_checkpoint = CheckpointAfter(j.delta)
  <2> DEFINE m == Len(j.delta)
             n == Len(doc.journal)
             from == doc.journal_checkpoint
             to == e.journal_checkpoint
             last == doc.journal[m]
  <2>1. j.delta \in Seq(Frame)
    BY SaveIsAt
  <2>2. /\ m \in Nat \ {0} /\ m <= n /\ Last(j.delta) = last
        /\ Len(e.journal) = n - m
        /\ \A i \in 1 .. n - m : e.journal[i] = doc.journal[m + i]
    <3> DEFINE delta == j.delta
    <3>1. delta \in Seq(Frame) /\ delta # << >> /\ IsPrefix(delta, doc.journal)
      BY <1>2, <2>1
    <3>2. e.journal = PendingAfter(doc, delta)
      BY <1>2
    <3> HIDE DEF delta
    <3>3. /\ Len(delta) \in Nat \ {0} /\ Len(delta) <= n /\ Last(delta) = doc.journal[Len(delta)]
          /\ Len(PendingAfter(doc, delta)) = n - Len(delta)
          /\ \A i \in 1 .. n - Len(delta) : PendingAfter(doc, delta)[i] = doc.journal[Len(delta) + i]
      BY <3>1, AcknowledgedParts
    <3> QED BY <3>2, <3>3 DEF delta
  <2>3. /\ doc.project \in Seq(Commands) /\ Len(doc.project) \in Nat /\ n \in Nat
        /\ from.through_sequence \in Nat /\ from.project_revision \in Nat
    BY DocumentLengths
  <2>4. to.through_sequence = last.sequence /\ to.project_revision = Len(last.result)
    BY <1>2, <2>2 DEF CheckpointAfter, Revision
  <2>5. /\ doc.next_journal_sequence = from.through_sequence + n + 1
        /\ Len(doc.project) = from.project_revision + n
        /\ \A i \in 1 .. n : IsRecord(doc, doc.journal[i], i)
    BY DEF IsPending
  <2>6. IsRecord(doc, last, m)
    BY <2>2, <2>3, <2>5
  <2>7. from.project_revision + m \in 0 .. Len(doc.project)
    BY <2>2, <2>3, <2>5
  <2>8. /\ to.through_sequence = from.through_sequence + m
        /\ to.project_revision = from.project_revision + m
    BY <2>3, <2>4, <2>6, <2>7, FirstElements DEF IsRecord
  <2>9. ASSUME NEW i \in 1 .. n - m PROVE IsRecord(e, e.journal[i], i)
    <3>1. m + i \in 1 .. n
      BY <2>2, <2>3
    <3>2. IsRecord(doc, doc.journal[m + i], m + i) /\ e.journal[i] = doc.journal[m + i]
      BY <2>2, <2>5, <3>1
    <3>3. /\ to.through_sequence + i = from.through_sequence + (m + i)
          /\ to.project_revision + i = from.project_revision + (m + i)
      BY <2>2, <2>3, <2>8, <3>1
    <3> QED BY <3>2, <3>3 DEF IsRecord
  <2>10. /\ e.next_journal_sequence = to.through_sequence + Len(e.journal) + 1
         /\ Len(e.project) = to.project_revision + Len(e.journal)
    <3> DEFINE through == from.through_sequence
               revision == from.project_revision
               then == to.through_sequence
               later == to.project_revision
               left == Len(e.journal)
               length == Len(doc.project)
    <3>1. /\ m \in Nat /\ n \in Nat /\ m <= n /\ left = n - m
          /\ through \in Nat /\ revision \in Nat
          /\ then = through + m /\ later = revision + m /\ length = revision + n
      BY <2>2, <2>3, <2>5, <2>8
    <3>2. e.next_journal_sequence = through + n + 1 /\ Len(e.project) = length
      BY <2>5
    <3> HIDE DEF m, n, through, revision, then, later, left, length
    <3>3. through + n + 1 = then + left + 1 /\ length = later + left
      BY <3>1
    <3> QED BY <3>2, <3>3 DEF then, later, left
  <2> QED BY <2>2, <2>9, <2>10 DEF IsPending
<1> QED BY <1>1, <1>2 DEF Settles

\* Nothing is pending in a document that has just been installed.
LEMMA NothingPending ==
  ASSUME NEW doc \in Document, doc.journal = << >>,
         doc.journal_checkpoint = [through_sequence |-> doc.next_journal_sequence - 1,
                                   project_revision |-> Revision(doc.project)]
  PROVE  IsPending(doc)
<1>1. /\ doc.journal_checkpoint.through_sequence = doc.next_journal_sequence - 1
      /\ doc.journal_checkpoint.project_revision = Len(doc.project)
  BY DEF Revision
<1>2. Len(doc.journal) = 0 /\ doc.next_journal_sequence \in Nat /\ Len(doc.project) \in Nat
  BY DocumentLengths
<1> QED BY <1>1, <1>2 DEF IsPending

\* The steps that leave the document as it is.
Beside ==
  \/ \E p \in Packages : SavePrimary(p) \/ OpenProject(p)
  \/ \E j \in saves : SaveTaskStep(j) \/ DropSave(j)
  \/ OpenAudio \/ OpenRecovery \/ LoadManifest \/ OpenFails \/ ReadSegments
  \/ UNCHANGED vars

\* What goes on beside the document leaves it alone.
LEMMA DocumentStays == Beside => document' = document
<1>1. ASSUME NEW p \in Packages, SavePrimary(p) \/ OpenProject(p) PROVE document' = document
  BY <1>1 DEF SavePrimary, OpenProject, BeginsOpen
<1>2. ASSUME NEW j \in saves, SaveTaskStep(j) \/ DropSave(j) PROVE document' = document
  BY <1>2
  DEF SaveTaskStep, WritePayload, WriteManifest, CheckpointFails, Rotate, WriteSegment,
      NoSegment, ChooseSources, NoCompaction, WriteCompacted, RemoveSource, StopRemoving,
      NoFault, Fault, SaveStep, DropSave
<1>3. ASSUME \/ OpenAudio \/ OpenRecovery \/ LoadManifest \/ OpenFails \/ ReadSegments
             \/ UNCHANGED vars
      PROVE  document' = document
  BY <1>3
  DEF OpenAudio, OpenRecovery, BeginsOpen, LoadManifest, OpenFails, ReadSegments, Opening, vars
<1> QED BY <1>1, <1>2, <1>3 DEF Beside

\* Every other step is one of these.
LEMMA NextSteps ==
  ASSUME [Next]_vars
  PROVE  \/ Beside \/ (\E c \in Commands : Edit(c)) \/ Autosave
         \/ (\E j \in saves : FinishSave(j)) \/ (\E j \in saves : FinishAutosave(j))
         \/ NewProject \/ FinishAudio \/ FinishOpen \/ Crash
BY DEF Next, Beside

\* A document that replaces another is one of these.
LEMMA ReplacedDocument ==
  ASSUME Typed, NewProject \/ FinishAudio \/ FinishOpen
  PROVE  /\ document' \in Document /\ document' # None /\ document'.journal = << >>
         /\ document'.journal_checkpoint =
              [through_sequence |-> document'.next_journal_sequence - 1,
               project_revision |-> Revision(document'.project)]
         /\ IsPrefix(document'.saved_project, document'.project)
         /\ Replaces(document')
<1>1. CASE NewProject \/ FinishAudio
  <2>1. document' = Untitled /\ Replaces(document')
    BY <1>1 DEF NewProject, FinishAudio, Replaces
  <2>2. /\ document'.next_journal_sequence - 1 = 0 /\ Revision(document'.project) = 0
        /\ IsPrefix(document'.saved_project, document'.project)
    BY <2>1, UntitledDocument DEF Revision, IsPrefix
  <2> QED BY <2>1, <2>2, UntitledDocument
<1>2. CASE FinishOpen
  <2>1. Replaces(document')
    BY <1>2 DEF FinishOpen, Replaces
  <2>2. SubSeq(opening.project, 1, Len(opening.project)) = opening.project
    BY <1>2, OpenReady, SubSeqFull DEF Project
  <2>3. IsPrefix(document'.saved_project, document'.project)
    BY <1>2, <2>2, OpenReady DEF IsPrefix, Revision
  <2> QED BY <1>2, <2>1, <2>3, OpenReady
<1> QED BY <1>1, <1>2

\* Every step keeps the journal pending.
LEMMA PendingNext ==
  ASSUME Typed, Pending, [Next]_vars
  PROVE  Pending'
<1>1. ASSUME document' = document \/ document' = None PROVE Pending'
  BY <1>1 DEF Pending
<1>2. document # None => document \in Document /\ IsPending(document)
  BY DEF Pending, Typed, DocumentSound
<1>3. ASSUME NEW c \in Commands, Edit(c) PROVE Pending'
  BY <1>2, <1>3, EditKeepsPending DEF Edit, Pending
<1>4. ASSUME Autosave PROVE Pending'
  <2>1. PICK p \in Packages : document' = [document EXCEPT !.files = p]
    BY <1>4 DEF Autosave
  <2>2. document # None
    BY <1>4 DEF Autosave
  <2>3. /\ document'.project = document.project /\ document'.journal = document.journal
        /\ document'.next_journal_sequence = document.next_journal_sequence
        /\ document'.journal_checkpoint = document.journal_checkpoint
    BY <1>2, <2>1, <2>2, FiledDocument
  <2>4. IsPending(document')
    BY <1>2, <2>2, <2>3 DEF IsPending, IsRecord
  <2> QED BY <2>4 DEF Pending
<1>5. ASSUME NEW j \in saves, FinishSave(j) PROVE Pending'
  BY <1>2, <1>5, SaveHeard, SettlingKeepsPending, TaskFacts DEF Pending
<1>6. ASSUME NEW j \in saves, FinishAutosave(j) PROVE Pending'
  BY <1>2, <1>6, AutosaveHeard, SettlingKeepsPending, TaskFacts DEF Pending
<1>7. ASSUME NewProject \/ FinishAudio \/ FinishOpen PROVE Pending'
  BY <1>7, ReplacedDocument, NothingPending DEF Pending
<1>8. ASSUME Crash PROVE Pending'
  BY <1>1, <1>8 DEF Crash
<1> QED BY <1>1, <1>3, <1>4, <1>5, <1>6, <1>7, <1>8, NextSteps, DocumentStays

\* The records that wait for a save are exactly the commands since the journal
\* cursor, in order and without a gap, whatever saves of older states are heard in
\* between (acknowledge_journal_delta and pending_journal_delta).
THEOREM JournalFollows == Spec => []JournalFollowsCheckpoint
<1>1. Init => Pending
  BY DEF Init, Pending
<1>2. Typed /\ Pending => JournalFollowsCheckpoint
  <2> SUFFICES ASSUME Typed, Pending, document # None PROVE JournalFollowsCheckpoint
    BY DEF JournalFollowsCheckpoint
  <2> DEFINE from == document.journal_checkpoint
  <2>1. document \in Document /\ IsPending(document)
    BY DEF Typed, Pending, DocumentSound
  <2>2. /\ Len(document.project) = from.project_revision + Len(document.journal)
        /\ Len(document.journal) \in Nat /\ from.project_revision \in Nat
        /\ DOMAIN document.journal = 1 .. Len(document.journal)
    BY <2>1, DocumentLengths DEF IsPending
  <2>3. Len(document.journal) = Revision(document.project) - from.project_revision
    BY <2>2 DEF Revision
  <2>4. ASSUME NEW i \in DOMAIN document.journal
        PROVE  document.journal[i] = [sequence |-> from.through_sequence + i,
                                      result |-> SubSeq(document.project, 1, from.project_revision + i)]
    <3>1. IsRecord(document, document.journal[i], i)
      BY <2>1, <2>2 DEF IsPending
    <3>2. document.journal[i] \in Frame
      BY <2>1, <2>2, DocumentLengths, ElementOfSeq
    <3> QED BY <3>1, <3>2 DEF IsRecord, Frame
  <2> QED BY <2>3, <2>4 DEF JournalFollowsCheckpoint
<1> QED BY <1>1, <1>2, TypedInit, TypedNext, PendingNext, PTL DEF Spec

-----------------------------------------------------------------------------
(* The saved mark                                                          *)

\* Prefixes of a project that grows.
LEMMA PrefixKept ==
  ASSUME NEW s \in Project, NEW t \in Project, IsPrefix(s, t), NEW c \in Commands
  PROVE  IsPrefix(s, Append(t, c))
<1>1. /\ Len(s) \in Nat /\ Len(t) \in Nat /\ Len(Append(t, c)) = Len(t) + 1
      /\ s \in Seq(Commands) /\ t \in Seq(Commands)
  BY LenProperties, AppendProperties DEF Project
<1> DEFINE n == Len(s)
<1>2. n \in 0 .. Len(t) /\ SubSeq(s, 1, n) = SubSeq(t, 1, n)
  BY <1>1 DEF IsPrefix
<1>3. n <= Len(Append(t, c))
  BY <1>1, <1>2
<1> HIDE DEF n
<1>4. SubSeq(Append(t, c), 1, n) = SubSeq(t, 1, n)
  BY <1>1, <1>2, BeginningOfAppend
<1> QED BY <1>2, <1>3, <1>4 DEF IsPrefix, n

\* What is a prefix and as long is the whole.
LEMMA PrefixIsAll ==
  ASSUME NEW s \in Project, NEW t \in Project
  PROVE  /\ IsPrefix(s, s)
         /\ IsPrefix(s, t) => Len(s) <= Len(t)
         /\ IsPrefix(s, t) /\ Len(s) = Len(t) => s = t
<1>1. s \in Seq(Commands) /\ t \in Seq(Commands) /\ Len(s) \in Nat /\ Len(t) \in Nat
  BY LenProperties DEF Project
<1>2. SubSeq(s, 1, Len(s)) = s /\ SubSeq(t, 1, Len(t)) = t
  BY <1>1, SubSeqFull
<1>3. Len(s) <= Len(s)
  BY <1>1
<1>4. IsPrefix(s, s)
  BY <1>3 DEF IsPrefix
<1>5. IsPrefix(s, t) => Len(s) <= Len(t) /\ SubSeq(s, 1, Len(s)) = SubSeq(t, 1, Len(s))
  BY DEF IsPrefix
<1> QED BY <1>2, <1>4, <1>5

\* The project captured for the saved revision is how the project began, and so is
\* what every save that may still be heard captured.
Marked ==
  /\ document # None => IsPrefix(document.saved_project, document.project)
  /\ \A j \in saves : j.kind = "primary" /\ j.heard =>
       document # None /\ IsPrefix(j.project, document.project)

\* The steps that replace or end a document, and with it silence every save.
Ends == NewProject \/ FinishAudio \/ FinishOpen \/ Crash

\* When the document ends, no explicit save is heard any more.
LEMMA EndsSilence ==
  ASSUME Typed, Ends
  PROVE  \A k \in saves' : k.kind = "primary" => ~k.heard
<1>1. CASE Crash
  BY <1>1 DEF Crash
<1>2. CASE NewProject \/ FinishAudio \/ FinishOpen
  BY <1>2, UnheardTasks DEF NewProject, FinishAudio, FinishOpen, Replaces, Silenced
<1> QED BY <1>1, <1>2 DEF Ends

\* In every other step a document stays or grows.
LEMMA ProjectGrows ==
  ASSUME Typed, [Next]_vars, ~Ends
  PROVE  \/ document' = document
         \/ /\ document # None /\ document \in Document
            /\ document' \in Document /\ document' # None
            /\ \/ document'.project = document.project
               \/ \E c \in Commands : document'.project = Append(document.project, c)
<1>1. document # None => document \in Document
  BY DEF Typed, DocumentSound
<1>2. CASE Beside
  BY <1>2, DocumentStays
<1>3. ASSUME NEW c \in Commands, Edit(c)
      PROVE  /\ document # None /\ document' \in Document
             /\ document'.project = Append(document.project, c)
  BY <1>1, <1>3, EditedDocument DEF Edit
<1>4. ASSUME Autosave
      PROVE  document # None /\ document' \in Document /\ document'.project = document.project
  BY <1>1, <1>4, FiledDocument DEF Autosave
<1> QED BY <1>1, <1>2, <1>3, <1>4, SaveHeard, AutosaveHeard, NextSteps, NoneAssumption DEF Ends

\* Every step keeps the saved mark.
LEMMA MarkedNext ==
  ASSUME Typed, Marked, [Next]_vars
  PROVE  Marked'
<1>1. document # None => document \in Document /\ document.project \in Project
                         /\ document.saved_project \in Project
  BY DocumentIs DEF Typed, DocumentSound
<1>2. \A j \in saves : j.project \in Project
  BY TaskFacts
<1>3. document' # None => IsPrefix(document'.saved_project, document'.project)
  <2>1. CASE document' = document
    BY <2>1 DEF Marked
  <2>2. ASSUME NEW c \in Commands, Edit(c) PROVE IsPrefix(document'.saved_project, document'.project)
    <3>1. document # None /\ document' = Edited(document, c)
      BY <2>2 DEF Edit
    <3>2. /\ document'.saved_project = document.saved_project
          /\ document'.project = Append(document.project, c)
      BY <1>1, <3>1, EditedDocument
    <3> QED BY <1>1, <3>1, <3>2, PrefixKept DEF Marked
  <2>3. ASSUME Autosave PROVE IsPrefix(document'.saved_project, document'.project)
    <3>1. PICK p \in Packages : document' = [document EXCEPT !.files = p]
      BY <2>3 DEF Autosave
    <3>2. /\ document # None /\ document'.saved_project = document.saved_project
          /\ document'.project = document.project
      BY <1>1, <2>3, <3>1, FiledDocument DEF Autosave
    <3> QED BY <3>2 DEF Marked
  <2>4. ASSUME NEW j \in saves, FinishSave(j)
        PROVE  IsPrefix(document'.saved_project, document'.project)
    <3>1. j.kind = "primary" /\ j.heard
      BY <2>4 DEF FinishSave
    <3>2. /\ IsPrefix(j.project, document.project) /\ document # None
          /\ IsPrefix(document.saved_project, document.project)
      BY <3>1 DEF Marked
    <3> QED BY <2>4, <3>2, SaveHeard
  <2>5. ASSUME NEW j \in saves, FinishAutosave(j)
        PROVE  IsPrefix(document'.saved_project, document'.project)
    BY <2>5, AutosaveHeard DEF Marked
  <2>6. ASSUME NewProject \/ FinishAudio \/ FinishOpen
        PROVE  IsPrefix(document'.saved_project, document'.project)
    BY <2>6, ReplacedDocument
  <2>7. CASE Crash
    BY <2>7 DEF Crash
  <2> QED BY <2>1, <2>2, <2>3, <2>4, <2>5, <2>6, <2>7, NextSteps, DocumentStays
<1>4. ASSUME NEW k \in saves', k.kind = "primary", k.heard
      PROVE  document' # None /\ IsPrefix(k.project, document'.project)
  <2>1. ~Ends
    BY <1>4, EndsSilence
  <2>2. document # None /\ IsPrefix(k.project, document.project) /\ k.project \in Project
    <3>1. CASE k \in saves
      BY <1>2, <1>4, <3>1 DEF Marked
    <3>2. CASE Fresh(k)
      BY <1>1, <3>2, PrefixIsAll DEF Fresh
    <3>3. ASSUME NEW j \in saves, Silenced(j, k) PROVE FALSE
      BY <1>4, <3>3 DEF Silenced
    <3>4. ASSUME NEW j \in saves, NEW m, Moves(j, m), k \notin saves
          PROVE  document # None /\ IsPrefix(k.project, document.project) /\ k.project \in Project
      <4>1. k = m /\ j.kind = "primary" /\ j.heard /\ k.project = j.project
        BY <1>4, <3>4 DEF Moves, Captured
      <4> QED BY <1>2, <4>1 DEF Marked
    <3> QED BY <1>4, <3>1, <3>2, <3>3, <3>4, OnlyTasksWrite DEF KeepsTasks
  <2>3. CASE document' = document
    BY <2>2, <2>3
  <2>4. CASE document'.project = document.project /\ document' # None
    BY <2>2, <2>4
  <2>5. ASSUME NEW c \in Commands, document'.project = Append(document.project, c), document' # None
        PROVE  document' # None /\ IsPrefix(k.project, document'.project)
    BY <1>1, <2>2, <2>5, PrefixKept
  <2> QED BY <2>1, <2>3, <2>4, <2>5, ProjectGrows
<1> QED BY <1>3, <1>4 DEF Marked

\* A document that has no unsaved edits holds what the save that marked it captured
\* (mark_saved compares only the revisions), although edits go on while it is
\* written and older saves complete later.
THEOREM SavedMarkHolds == Spec => []SavedMarkIsContent
<1>1. Init => Marked
  BY DEF Init, Marked
<1>2. Typed /\ Marked => SavedMarkIsContent
  <2> SUFFICES ASSUME Typed, Marked, document # None, ~SessionDirty(document)
               PROVE  document.saved_project = document.project
    BY DEF SavedMarkIsContent
  <2>1. document \in Document /\ document.saved_revision = Revision(document.saved_project)
    BY DEF Typed, DocumentSound
  <2>2. document.project \in Project /\ document.saved_project \in Project
    BY <2>1, DocumentIs
  <2>3. Len(document.saved_project) = Len(document.project)
    BY <2>1 DEF SessionDirty, Revision
  <2> QED BY <2>2, <2>3, PrefixIsAll DEF Marked
<1> QED BY <1>1, <1>2, TypedInit, TypedNext, MarkedNext, PTL DEF Spec

-----------------------------------------------------------------------------
(* Clean documents match their last save                                   *)

\* One explicit save runs at a time.
OneAtATime == \A i, j \in Explicit : i = j

\* Nothing but the explicit save that runs replaces the manifest.
PublishedIsThere ==
  \A j \in Explicit : j.ok /\ j.stage # "payloads" => disk[j.package].primary = j.project

\* What a clean document of this package holds is what its manifest names, ...
OwnIsThere ==
  document # None /\ document.identity = "primary" /\ ~SessionDirty(document)
    => disk[document.files].primary = document.project

\* ... and a save that could still replace the manifest, or be heard, captured no
\* less than the last save that was heard.
NothingOlder ==
  \A j \in Explicit : j.heard \/ document.identity = "primary" =>
    /\ IsPrefix(j.project, document.project)
    /\ document.saved_revision <= Len(j.project)

NoDocumentNoSave == document = None => saves = {}

\* A project.json is opened only when nothing is installed, so that it stays as it
\* was read.
OpenedAlone ==
  opening # None /\ opening.identity = "primary" =>
    /\ document = None
    /\ opening.stage \in {"journal", "ready"} => disk[opening.package].primary = opening.project

Matching ==
  /\ OneAtATime /\ PublishedIsThere /\ OwnIsThere /\ NothingOlder
  /\ NoDocumentNoSave /\ OpenedAlone

\* What a step does to the explicit saves: it may be a task's own step, start one
\* when none runs, silence them all, or keep the ones it does not remove.
LEMMA ExplicitSteps ==
  ASSUME Typed, [Next]_vars, MaxPrimarySaves <= 1
  PROVE  \/ /\ \E j \in saves : \E k : Moves(j, k)
            /\ ~Ends
         \/ /\ disk' = disk /\ document' = document /\ document # None /\ ~Ends
            /\ opening' = opening /\ Explicit = {}
            /\ \E p \in Packages : saves' = Unheard(saves) \cup {SaveTask("primary", document, p)}
         \/ /\ disk' = disk /\ (document' = document \/ Ends) /\ saves' = Unheard(saves)
         \/ /\ disk' = disk /\ Explicit' \subseteq Explicit
            /\ (document' = None \/ ~Ends)
<1>1. ASSUME NEW p \in Packages, SavePrimary(p)
      PROVE  /\ disk' = disk /\ document' = document /\ document # None
             /\ opening' = opening /\ Explicit = {} /\ installs' = installs
             /\ saves' = Unheard(saves) \cup {SaveTask("primary", document, p)}
  <2>1. Cardinality(Explicit) < 1 /\ Cardinality(Explicit) \in Nat /\ IsFiniteSet(Explicit)
    <3>1. IsFiniteSet(Explicit)
      BY FS_Subset DEF Explicit, Typed
    <3>2. MaxPrimarySaves \in Nat
      BY DocumentAssumption
    <3>3. Cardinality(Explicit) < MaxPrimarySaves
      BY <1>1 DEF SavePrimary
    <3> QED BY <3>1, <3>2, <3>3, FS_CardinalityType
  <2>2. Explicit = {}
    BY <2>1, FS_EmptySet
  <2> QED BY <1>1, <2>2 DEF SavePrimary
<1>2. ASSUME NEW p \in Packages, OpenProject(p)
      PROVE  disk' = disk /\ document' = document /\ saves' = Unheard(saves)
  BY <1>2 DEF OpenProject, BeginsOpen
<1>3. ASSUME OpenAudio \/ OpenRecovery
      PROVE  disk' = disk /\ document' = document /\ saves' = Unheard(saves)
  BY <1>3 DEF OpenAudio, OpenRecovery, BeginsOpen
<1>4. ASSUME NewProject \/ FinishAudio \/ FinishOpen
      PROVE  disk' = disk /\ Ends /\ saves' = Unheard(saves)
  BY <1>4 DEF NewProject, FinishAudio, FinishOpen, Replaces, Ends
<1>5. ASSUME Crash PROVE disk' = disk /\ Explicit' \subseteq Explicit /\ document' = None
  BY <1>5 DEF Crash, Explicit
<1>6. ASSUME UNCHANGED disk, saves' \subseteq saves
      PROVE  disk' = disk /\ Explicit' \subseteq Explicit
  BY <1>6 DEF Explicit
<1>7. ASSUME \/ \E c \in Commands : Edit(c)
             \/ \E j \in saves : FinishSave(j) \/ FinishAutosave(j) \/ DropSave(j)
             \/ LoadManifest \/ OpenFails \/ ReadSegments \/ UNCHANGED vars
      PROVE  disk' = disk /\ Explicit' \subseteq Explicit
  BY <1>6, <1>7
  DEF Edit, FinishSave, FinishAutosave, DropSave, LoadManifest, OpenFails, ReadSegments,
      Opening, vars
<1>8. ASSUME Autosave PROVE disk' = disk /\ Explicit' \subseteq Explicit
  <2>1. document \in Document
    BY <1>8 DEF Autosave, Typed, DocumentSound
  <2>2. PICK p \in Packages : saves' = saves \cup {SaveTask("autosave", document, p)}
    BY <1>8 DEF Autosave
  <2>3. SaveTask("autosave", document, p).kind = "autosave"
    BY <2>1, BegunTask
  <2> QED BY <1>8, <2>2, <2>3 DEF Autosave, Explicit
<1>9. Ends => \/ document' = None /\ disk' = disk /\ Explicit' \subseteq Explicit
              \/ disk' = disk /\ saves' = Unheard(saves)
  BY <1>4, <1>5 DEF Ends
<1>10. CASE Ends
  BY <1>9, <1>10
<1>11. CASE ~Ends
  BY <1>1, <1>2, <1>3, <1>7, <1>8, <1>11, TaskMoves DEF Next, Ends
<1> QED BY <1>10, <1>11

\* Silencing explicit saves keeps them apart and at the point they are at.
LEMMA SilencedExplicit ==
  ASSUME Typed, NEW k \in Unheard(saves), k.kind = "primary"
  PROVE  \E j \in Explicit : Silenced(j, k) /\ k = Hushed(j) /\ ~k.heard
<1>1. PICK j \in saves : k = Hushed(j)
  BY DEF Unheard, Hushed
<1>2. Silenced(j, k)
  BY <1>1, HushedTask DEF Typed
<1> QED BY <1>1, <1>2 DEF Silenced, Explicit

\* With one explicit save at a time, every step keeps its manifest on disk.
LEMMA AloneNext ==
  ASSUME Typed, Matching, [Next]_vars, MaxPrimarySaves <= 1
  PROVE  OneAtATime' /\ PublishedIsThere'
<1> USE DEF Explicit
<1>1. ASSUME NEW j \in saves, NEW k, Moves(j, k) PROVE OneAtATime' /\ PublishedIsThere'
  <2>1. /\ saves' = (saves \ {j}) \cup {k} /\ Captured(j, k) /\ (k.ok => j.ok)
        /\ \A x \in Packages \ {j.package} : disk'[x] = disk[x]
        /\ MovesCheckpoint(j, k, disk[j.package], disk'[j.package])
    BY <1>1 DEF Moves
  <2>2. OneAtATime'
    BY <2>1 DEF Matching, OneAtATime, Captured
  <2>3. ASSUME NEW i \in saves', i.kind = "primary", i.ok, i.stage # "payloads"
        PROVE  disk'[i.package].primary = i.project
    <3>1. CASE i = k
      <4>1. j.kind = "primary" /\ j.ok /\ k.package = j.package /\ k.project = j.project
        BY <2>1, <2>3, <3>1 DEF Captured
      <4>2. CASE j.stage = "payloads"
        BY <2>1, <2>3, <3>1, <4>1, <4>2 DEF MovesCheckpoint, Publishes
      <4>3. CASE j.stage # "payloads"
        BY <2>1, <3>1, <4>1, <4>3 DEF MovesCheckpoint, Publishes, Matching, PublishedIsThere
      <4> QED BY <4>2, <4>3
    <3>2. CASE i # k
      <4>1. i \in saves /\ i # j
        BY <2>1, <3>2
      <4>2. j.kind # "primary"
        BY <2>3, <4>1 DEF Matching, OneAtATime
      <4>3. disk'[j.package].primary = disk[j.package].primary
        BY <2>1, <4>2 DEF MovesCheckpoint, Publishes
      <4>4. disk'[i.package].primary = disk[i.package].primary
        BY <2>1, <4>1, <4>3, TaskFacts
      <4> QED BY <2>3, <4>1, <4>4 DEF Matching, PublishedIsThere
    <3> QED BY <3>1, <3>2
  <2> QED BY <2>2, <2>3 DEF PublishedIsThere
<1>2. ASSUME disk' = disk, Explicit' \subseteq Explicit PROVE OneAtATime' /\ PublishedIsThere'
  BY <1>2 DEF Matching, OneAtATime, PublishedIsThere
<1>3. ASSUME disk' = disk, saves' = Unheard(saves) PROVE OneAtATime' /\ PublishedIsThere'
  <2>1. OneAtATime'
    BY <1>3, SilencedExplicit DEF Matching, OneAtATime
  <2>2. ASSUME NEW k \in Unheard(saves), k.kind = "primary", k.ok, k.stage # "payloads"
        PROVE  disk[k.package].primary = k.project
    <3>1. PICK j \in saves : j.kind = "primary" /\ Silenced(j, k)
      BY <2>2, SilencedExplicit
    <3> QED BY <2>2, <3>1 DEF Matching, PublishedIsThere, Silenced
  <2> QED BY <1>3, <2>1, <2>2 DEF PublishedIsThere
<1>4. ASSUME disk' = disk, document # None, Explicit = {}, NEW p \in Packages,
             saves' = Unheard(saves) \cup {SaveTask("primary", document, p)}
      PROVE  OneAtATime' /\ PublishedIsThere'
  <2>1. \A k \in Unheard(saves) : k.kind # "primary"
    BY <1>4, SilencedExplicit
  <2>2. SaveTask("primary", document, p).stage = "payloads"
    BY DEF SaveTask
  <2> QED BY <1>4, <2>1, <2>2 DEF OneAtATime, PublishedIsThere
<1> QED BY <1>1, <1>2, <1>3, <1>4, ExplicitSteps

\* What is known of the installed document and of a running explicit save.
LEMMA MatchingFacts ==
  ASSUME Typed, Marked, Matching
  PROVE  /\ document # None =>
              /\ document \in Document /\ document.project \in Project
              /\ document.saved_project \in Project
              /\ document.saved_revision = Len(document.saved_project)
              /\ document.saved_revision <= Len(document.project)
              /\ document.saved_revision \in Nat /\ Len(document.project) \in Nat
         /\ \A j \in saves : document # None /\ j.project \in Project /\ Len(j.project) \in Nat
         /\ \A j \in Explicit :
              (j.heard \/ document.identity = "primary") /\ ~SessionDirty(document)
                => j.project = document.project
<1>1. ASSUME document # None
      PROVE  /\ document \in Document /\ document.project \in Project
             /\ document.saved_project \in Project
             /\ document.saved_revision = Len(document.saved_project)
             /\ document.saved_revision <= Len(document.project)
             /\ document.saved_revision \in Nat /\ Len(document.project) \in Nat
  <2>1. /\ document \in Document /\ document.saved_revision = Len(document.saved_project)
        /\ IsPrefix(document.saved_project, document.project)
    BY <1>1 DEF Typed, DocumentSound, Marked, Revision
  <2>2. document.project \in Project /\ document.saved_project \in Project
        /\ document.saved_revision \in Nat
    BY <2>1, DocumentIs
  <2>3. Len(document.project) \in Nat
    BY <2>2, LenProperties DEF Project
  <2> QED BY <2>1, <2>2, <2>3, PrefixIsAll
<1>2. ASSUME NEW j \in saves
      PROVE  document # None /\ j.project \in Project /\ Len(j.project) \in Nat
  BY TaskFacts, LenProperties DEF Matching, NoDocumentNoSave, Project
<1>3. ASSUME NEW j \in Explicit, j.heard \/ document.identity = "primary", ~SessionDirty(document)
      PROVE  j.project = document.project
  <2>1. j \in saves
    BY DEF Explicit
  <2>2. /\ IsPrefix(j.project, document.project) /\ document.saved_revision <= Len(j.project)
        /\ document.saved_revision = Len(document.project)
    BY <1>3 DEF Matching, NothingOlder, SessionDirty, Revision
  <2>3. Len(j.project) = Len(document.project)
    BY <1>1, <1>2, <2>1, <2>2, PrefixIsAll
  <2> QED BY <1>1, <1>2, <2>1, <2>2, <2>3, PrefixIsAll
<1> QED BY <1>1, <1>2, <1>3

\* Every step keeps the clean document's own manifest, given the rest.
LEMMA OwnNext ==
  ASSUME Typed, Marked, Matching, [Next]_vars, MaxPrimarySaves <= 1
  PROVE  OwnIsThere'
<1>1. ASSUME disk' = disk, document' = document PROVE OwnIsThere'
  BY <1>1 DEF Matching, OwnIsThere, SessionDirty
<1>2. ASSUME NEW j \in saves, NEW k, Moves(j, k) PROVE OwnIsThere'
  <2>1. /\ document' = document
        /\ \A x \in Packages \ {j.package} : disk'[x] = disk[x]
        /\ MovesCheckpoint(j, k, disk[j.package], disk'[j.package])
    BY <1>2 DEF Moves
  <2> SUFFICES ASSUME document # None, document.identity = "primary", ~SessionDirty(document)
               PROVE  disk'[document.files].primary = document.project
    BY <2>1 DEF OwnIsThere, SessionDirty
  <2>2. disk[document.files].primary = document.project /\ document.files \in Packages
    <3>1. document.files \in {None} \cup Packages /\ document.files # None
      BY DocumentIs DEF Typed, DocumentSound
    <3> QED BY <3>1 DEF Matching, OwnIsThere
  <2>3. CASE j.package = document.files /\ Publishes(j, k)
    <3>1. j \in Explicit
      BY <2>3 DEF Publishes, Explicit
    <3>2. j.project = document.project
      BY <3>1, MatchingFacts
    <3> QED BY <2>1, <2>3, <3>2 DEF MovesCheckpoint
  <2>4. CASE j.package # document.files
    BY <2>1, <2>2, <2>4
  <2>5. CASE j.package = document.files /\ ~Publishes(j, k)
    BY <2>1, <2>2, <2>5 DEF MovesCheckpoint
  <2> QED BY <2>3, <2>4, <2>5
<1>3. CASE Beside
  BY <1>1, <1>2, <1>3, DocumentStays, OnlyTasksWrite
<1>4. ASSUME NEW c \in Commands, Edit(c) PROVE OwnIsThere'
  <2>1. /\ document # None /\ document'.saved_revision = document.saved_revision
        /\ document'.project = Append(document.project, c)
    BY <1>4, MatchingFacts, EditedDocument DEF Edit
  <2>2. Len(document'.project) = Len(document.project) + 1
    BY <2>1, MatchingFacts, AppendProperties DEF Project
  <2>3. SessionDirty(document')
    BY <2>1, <2>2, MatchingFacts DEF SessionDirty, Revision
  <2> QED BY <2>3 DEF OwnIsThere
<1>5. ASSUME Autosave PROVE OwnIsThere'
  <2>1. document # None /\ document \in Document /\ DocumentSound(document) /\ disk' = disk
    BY <1>5 DEF Autosave, Typed, DocumentSound
  <2>2. PICK p \in Packages : /\ document' = [document EXCEPT !.files = p]
                              /\ document.files # None => p = document.files
    BY <1>5 DEF Autosave
  <2>3. /\ document'.project = document.project /\ document'.identity = document.identity
        /\ document'.saved_revision = document.saved_revision /\ document'.files = p
    BY <2>1, <2>2, FiledDocument
  <2>4. document.identity = "primary" => document'.files = document.files
    BY <2>1, <2>2, <2>3 DEF DocumentSound
  <2> QED BY <2>1, <2>3, <2>4 DEF Matching, OwnIsThere, SessionDirty
<1>6. ASSUME NEW j \in saves, FinishSave(j) PROVE OwnIsThere'
  <2>1. /\ disk' = disk /\ j \in Explicit /\ j.heard /\ j.ok /\ j.stage = "finished"
        /\ document # None
    BY <1>6 DEF FinishSave, Explicit, IsSameDocument
  <2>2. /\ document'.project = document.project /\ document'.files = j.package
        /\ IF Len(j.project) = Len(document.project)
           THEN document'.saved_revision = Len(j.project)
           ELSE document'.saved_revision = document.saved_revision
    BY <1>6, SaveHeard DEF Revision
  <2>3. /\ disk[j.package].primary = j.project
        /\ IsPrefix(j.project, document.project)
        /\ document.saved_revision <= Len(j.project)
    BY <2>1 DEF Matching, PublishedIsThere, NothingOlder
  <2>4. /\ j.project \in Project /\ document.project \in Project
        /\ Len(j.project) \in Nat /\ Len(document.project) \in Nat
        /\ document.saved_revision \in Nat
    BY <2>1, MatchingFacts
  <2>5. CASE Len(j.project) = Len(document.project)
    <3>1. j.project = document.project
      BY <2>3, <2>4, <2>5, PrefixIsAll
    <3> QED BY <2>1, <2>2, <2>3, <3>1 DEF OwnIsThere
  <2>6. CASE Len(j.project) # Len(document.project)
    <3>1. Len(j.project) <= Len(document.project)
      BY <2>3, <2>4, PrefixIsAll
    <3>2. document'.saved_revision # Len(document'.project)
      BY <2>2, <2>3, <2>4, <2>6, <3>1
    <3> QED BY <3>2 DEF OwnIsThere, SessionDirty, Revision
  <2> QED BY <2>5, <2>6
<1>7. ASSUME NEW j \in saves, FinishAutosave(j) PROVE OwnIsThere'
  <2>1. disk' = disk
    BY <1>7 DEF FinishAutosave
  <2> QED BY <1>7, <2>1, AutosaveHeard DEF Matching, OwnIsThere, SessionDirty
<1>8. ASSUME NewProject \/ FinishAudio PROVE OwnIsThere'
  <2>1. document'.identity = "none"
    BY <1>8, UntitledDocument DEF NewProject, FinishAudio, Replaces
  <2> QED BY <2>1 DEF OwnIsThere
<1>9. ASSUME FinishOpen PROVE OwnIsThere'
  <2> SUFFICES ASSUME document'.identity = "primary", ~SessionDirty(document')
               PROVE  disk'[document'.files].primary = document'.project
    BY DEF OwnIsThere
  <2>1. /\ opening # None /\ opening.stage = "ready" /\ opening.identity = "primary"
        /\ document'.files = opening.package /\ disk' = disk
        /\ document'.saved_revision = Len(opening.project)
        /\ SubSeq(document'.project, 1, Len(opening.project)) = opening.project
        /\ document'.project \in Project
    BY <1>9, OpenReady, DocumentIs DEF FinishOpen, Revision
  <2>2. disk[opening.package].primary = opening.project
    BY <2>1 DEF Matching, OpenedAlone
  <2>3. SubSeq(document'.project, 1, Len(document'.project)) = document'.project
    BY <2>1, SubSeqFull DEF Project
  <2>4. Len(opening.project) = Len(document'.project)
    BY <2>1 DEF SessionDirty, Revision
  <2> QED BY <2>1, <2>2, <2>3, <2>4
<1>10. ASSUME Crash PROVE OwnIsThere'
  BY <1>10 DEF Crash, OwnIsThere
<1> QED BY <1>3, <1>4, <1>5, <1>6, <1>7, <1>8, <1>9, <1>10, NextSteps

\* Every step keeps explicit saves from capturing less than what is marked saved.
LEMMA NothingOlderNext ==
  ASSUME Typed, Marked, Matching, [Next]_vars, MaxPrimarySaves <= 1
  PROVE  NothingOlder'
<1> SUFFICES ASSUME NEW k \in Explicit', k.heard \/ document'.identity = "primary"
             PROVE  /\ IsPrefix(k.project, document'.project)
                    /\ document'.saved_revision <= Len(k.project)
  BY DEF NothingOlder
<1>1. k \in saves' /\ k.kind = "primary"
  BY DEF Explicit
\* The task was there before, or has just begun, and the step may be heard by it.
<1>2. ASSUME document' = document
      PROVE  /\ IsPrefix(k.project, document'.project)
             /\ document'.saved_revision <= Len(k.project)
  <2>1. CASE k \in saves
    BY <1>1, <1>2, <2>1 DEF Matching, NothingOlder, Explicit
  <2>2. CASE Fresh(k)
    <3>1. document # None /\ k.project = document.project
      BY <2>2 DEF Fresh
    <3> QED BY <1>2, <3>1, MatchingFacts, PrefixIsAll
  <2>3. ASSUME NEW j \in saves, Silenced(j, k)
        PROVE  /\ IsPrefix(k.project, document'.project)
               /\ document'.saved_revision <= Len(k.project)
    <3>1. j \in Explicit /\ k.project = j.project /\ ~k.heard
      BY <1>1, <2>3 DEF Silenced, Explicit
    <3> QED BY <1>2, <3>1 DEF Matching, NothingOlder
  <2>4. ASSUME NEW j \in saves, NEW m, Moves(j, m), k \notin saves
        PROVE  /\ IsPrefix(k.project, document'.project)
               /\ document'.saved_revision <= Len(k.project)
    <3>1. j \in Explicit /\ k.project = j.project /\ k.heard = j.heard
      BY <1>1, <2>4 DEF Moves, Captured, Explicit
    <3> QED BY <1>2, <3>1 DEF Matching, NothingOlder
  <2> QED BY <1>1, <2>1, <2>2, <2>3, <2>4, OnlyTasksWrite DEF KeepsTasks
<1>3. ASSUME k \in saves, document # None, NEW e, e = document',
             e.identity = document.identity, e.saved_revision = document.saved_revision,
             \/ e.project = document.project
             \/ \E c \in Commands : e.project = Append(document.project, c)
      PROVE  IsPrefix(k.project, e.project) /\ e.saved_revision <= Len(k.project)
  <2>1. IsPrefix(k.project, document.project) /\ document.saved_revision <= Len(k.project)
    BY <1>1, <1>3 DEF Matching, NothingOlder, Explicit
  <2> QED BY <1>3, <2>1, MatchingFacts, PrefixKept
<1>4. ASSUME NEW c \in Commands, Edit(c)
      PROVE  /\ IsPrefix(k.project, document'.project)
             /\ document'.saved_revision <= Len(k.project)
  <2>1. document # None /\ saves' = saves /\ document' = Edited(document, c)
    BY <1>4 DEF Edit
  <2>2. /\ document'.identity = document.identity
        /\ document'.saved_revision = document.saved_revision
        /\ document'.project = Append(document.project, c)
    BY <2>1, MatchingFacts, EditedDocument
  <2> QED BY <1>1, <1>3, <2>1, <2>2
<1>5. ASSUME Autosave
      PROVE  /\ IsPrefix(k.project, document'.project)
             /\ document'.saved_revision <= Len(k.project)
  <2>1. document # None
    BY <1>5 DEF Autosave
  <2>2. PICK p \in Packages : /\ document' = [document EXCEPT !.files = p]
                              /\ saves' = saves \cup {SaveTask("autosave", document, p)}
    BY <1>5 DEF Autosave
  <2>3. SaveTask("autosave", document, p).kind = "autosave"
    BY DEF SaveTask
  <2>4. /\ document'.identity = document.identity
        /\ document'.saved_revision = document.saved_revision
        /\ document'.project = document.project
    BY <2>1, <2>2, MatchingFacts, FiledDocument
  <2> QED BY <1>1, <1>3, <2>1, <2>2, <2>3, <2>4
<1>6. ASSUME NEW j \in saves, FinishSave(j) PROVE FALSE
  <2>1. j.kind = "primary" /\ saves' = saves \ {j}
    BY <1>6 DEF FinishSave
  <2> QED BY <1>1, <2>1 DEF Matching, OneAtATime, Explicit
<1>7. ASSUME NEW j \in saves, FinishAutosave(j)
      PROVE  /\ IsPrefix(k.project, document'.project)
             /\ document'.saved_revision <= Len(k.project)
  <2>1. saves' = saves \ {j}
    BY <1>7 DEF FinishAutosave
  <2> QED BY <1>1, <1>3, <1>7, <2>1, AutosaveHeard
<1>8. ASSUME NewProject \/ FinishAudio PROVE FALSE
  <2>1. document'.identity = "none" /\ saves' = Unheard(saves)
    BY <1>8, UntitledDocument DEF NewProject, FinishAudio, Replaces
  <2> QED BY <1>1, <2>1, SilencedExplicit
<1>9. ASSUME FinishOpen PROVE FALSE
  <2>1. /\ opening # None /\ document'.identity = opening.identity /\ saves' = Unheard(saves)
    BY <1>9, OpenReady DEF FinishOpen, Replaces
  <2>2. opening.identity = "primary"
    BY <1>1, <2>1, SilencedExplicit
  <2>3. saves = {}
    BY <2>1, <2>2 DEF Matching, OpenedAlone, NoDocumentNoSave
  <2> QED BY <1>1, <2>1, <2>3 DEF Unheard
<1>10. ASSUME Crash PROVE FALSE
  BY <1>1, <1>10 DEF Crash
<1> QED
  BY <1>2, <1>4, <1>5, <1>6, <1>7, <1>8, <1>9, <1>10, NextSteps, DocumentStays

\* While nothing is opened over a document, every step keeps the opening alone.
LEMMA OpenedNext ==
  ASSUME Typed, Matching, [Next]_vars, "open" \notin Replacements
  PROVE  NoDocumentNoSave' /\ OpenedAlone'
<1>1. document = None => saves = {}
  BY DEF Matching, NoDocumentNoSave
<1>2. ASSUME document' = None PROVE saves' = {}
  <2>1. CASE Crash
    BY <2>1 DEF Crash
  <2>2. CASE ~Crash
    <3>1. document = None
      BY <1>2, <2>2, ProjectGrows, ReplacedDocument DEF Ends
    <3>2. saves = {}
      BY <1>1, <3>1
    <3>3. \A k \in saves' : FALSE
      BY <3>1, <3>2, OnlyTasksWrite DEF KeepsTasks, Fresh
    <3> QED BY <3>3
  <2> QED BY <2>1, <2>2
<1>3. ASSUME opening' = None PROVE OpenedAlone'
  BY <1>3 DEF OpenedAlone
<1>4. ASSUME opening' # None, opening'.identity = "primary"
      PROVE  /\ document' = None
             /\ opening'.stage \in {"journal", "ready"} =>
                  disk'[opening'.package].primary = opening'.project
  <2>1. ASSUME NEW p \in Packages, OpenProject(p)
        PROVE  document' = None /\ opening'.stage = "manifest"
    BY <2>1 DEF OpenProject, Offered, BeginsOpen, OpenTask
  <2>2. ~OpenAudio
    BY <1>4 DEF OpenAudio, BeginsOpen, OpenTask
  <2>3. ~OpenRecovery
    <3> SUFFICES ASSUME OpenRecovery PROVE FALSE
      OBVIOUS
    <3>1. PICK t \in DOMAIN disk[document.files].recoveries :
            opening' = [OpenTask(document.files, "recovery", "manifest") EXCEPT
                          !.checkpoint = disk[document.files].recoveries[t]]
      BY DEF OpenRecovery, BeginsOpen
    <3> QED BY <1>4, <3>1 DEF OpenTask
  <2>4. ASSUME LoadManifest
        PROVE  /\ document' = None /\ disk'[opening'.package].primary = opening'.project
    <3>1. /\ opening # None /\ opening.identity = "primary" /\ opening'.package = opening.package
          /\ opening'.project = Chosen(opening) /\ disk' = disk /\ document' = document
      BY <1>4, <2>4, LoadedManifest DEF LoadManifest, Opening
    <3> QED BY <3>1 DEF Matching, OpenedAlone, Chosen
  <2>5. ASSUME ReadSegments
        PROVE  /\ document' = None /\ disk'[opening'.package].primary = opening'.project
    <3>1. /\ opening # None /\ opening.identity = "primary" /\ opening'.package = opening.package
          /\ opening'.project = opening.project /\ disk' = disk /\ document' = document
          /\ opening.stage = "journal"
      BY <1>4, <2>5, ReadJournal DEF ReadSegments, Opening
    <3> QED BY <3>1 DEF Matching, OpenedAlone
  <2>6. ~OpenFails
    BY <1>4 DEF OpenFails, Opening
  <2>7. ~Ends
    BY <1>4 DEF Ends, NewProject, FinishAudio, FinishOpen, Replaces, Crash
  <2>8. ASSUME opening' = opening
        PROVE  /\ document' = None
               /\ opening'.stage \in {"journal", "ready"} =>
                    disk'[opening'.package].primary = opening'.project
    <3>1. document = None /\ saves = {}
      BY <1>1, <1>4, <2>8 DEF Matching, OpenedAlone
    <3>2. document' = None
      BY <2>7, <3>1, ProjectGrows
    <3>3. disk' = disk
      BY <3>1, OnlyTasksWrite
    <3> QED BY <1>4, <2>8, <3>2, <3>3 DEF Matching, OpenedAlone
  <2>9. ASSUME NEW j \in saves, SaveTaskStep(j) PROVE opening' = opening
    BY <2>9, TaskMoves DEF Moves
  <2>10. ASSUME \/ \E c \in Commands : Edit(c)
                \/ \E p \in Packages : SavePrimary(p)
                \/ Autosave
                \/ \E j \in saves : FinishSave(j) \/ FinishAutosave(j) \/ DropSave(j)
                \/ UNCHANGED vars
         PROVE  opening' = opening
    BY <2>10 DEF Edit, SavePrimary, Autosave, FinishSave, FinishAutosave, DropSave, vars
  <2> QED BY <2>1, <2>2, <2>3, <2>4, <2>5, <2>6, <2>7, <2>8, <2>9, <2>10 DEF Next, Ends
<1>5. OpenedAlone'
  BY <1>3, <1>4 DEF OpenedAlone
<1> QED BY <1>2, <1>5 DEF NoDocumentNoSave

\* ProjectReplacementDisposition::Clean means what it says: while one explicit save
\* runs at a time and no open replaces a document, a document without unsaved edits
\* and without a save in flight is what its manifest names.
THEOREM CleanDocumentsMatch ==
  MaxPrimarySaves <= 1 /\ "open" \notin Replacements
    => (Spec => []CleanDocumentsMatchTheirLastSave)
<1> SUFFICES ASSUME MaxPrimarySaves <= 1, "open" \notin Replacements
             PROVE  Spec => []CleanDocumentsMatchTheirLastSave
  OBVIOUS
<1>1. Init => Marked /\ Matching
  BY DEF Init, Marked, Matching, OneAtATime, PublishedIsThere, OwnIsThere, NothingOlder,
         NoDocumentNoSave, OpenedAlone, Explicit
<1>2. Typed /\ Marked /\ Matching /\ [Next]_vars => Matching'
  BY AloneNext, OwnNext, NothingOlderNext, OpenedNext DEF Matching
<1>3. Matching => CleanDocumentsMatchTheirLastSave
  BY DEF Matching, OwnIsThere, CleanDocumentsMatchTheirLastSave, Dirty
<1> QED BY <1>1, <1>2, <1>3, TypedInit, TypedNext, MarkedNext, PTL DEF Spec

-----------------------------------------------------------------------------
(* What is acknowledged is durable                                         *)

\* An autosave of the installed document goes where its recovery will look.
AutosavesAtHome ==
  \A j \in saves :
    /\ document # None /\ j.epoch <= document.document_epoch
    /\ j.kind = "autosave" /\ j.epoch = document.document_epoch => j.package = document.files

\* The records of a segment that was written stay on disk.
PersistedIsThere ==
  \A j \in saves : j.persisted => ToSet(j.delta) \subseteq Frames(disk[j.package])

\* Material is loaded only when nothing is installed, and saves need a document.
LoadedAlone ==
  /\ document = None => saves = {}
  /\ opening # None /\ opening.stage = "analyze" => document = None

Durable == AutosavesAtHome /\ PersistedIsThere /\ LoadedAlone

\* Every step keeps the persisted deltas on disk.
LEMMA PersistedNext ==
  ASSUME Typed, SourcesCovered, Durable, [Next]_vars
  PROVE  PersistedIsThere'
<1>1. ASSUME NEW j \in saves, NEW k, Moves(j, k) PROVE PersistedIsThere'
  <2>1. /\ saves' = (saves \ {j}) \cup {k} /\ Captured(j, k)
        /\ MovesJournal(j, k, disk[j.package], disk'[j.package])
        /\ \A p \in Packages : Frames(disk[p]) \subseteq Frames(disk'[p])
    BY <1>1, CoveredNext DEF Moves
  <2>2. ASSUME NEW i \in saves', i.persisted
        PROVE  ToSet(i.delta) \subseteq Frames(disk'[i.package])
    <3>1. CASE i \in saves
      BY <2>1, <2>2, <3>1, TaskFacts DEF Durable, PersistedIsThere
    <3>2. CASE i = k /\ j.persisted
      BY <2>1, <2>2, <3>2, TaskFacts DEF Durable, PersistedIsThere, Captured
    <3>3. CASE i = k /\ ~j.persisted
      <4>1. SegmentOf(j.delta) \in disk'[j.package].segments
        BY <2>1, <2>2, <3>3 DEF MovesJournal
      <4>2. SegmentOf(j.delta).frames = ToSet(j.delta)
        BY DEF SegmentOf
      <4>3. ToSet(j.delta) \subseteq Frames(disk'[j.package])
        BY <4>1, <4>2 DEF Frames, FramesIn
      <4> QED BY <2>1, <3>3, <4>3 DEF Captured
    <3> QED BY <2>1, <3>1, <3>2, <3>3
  <2> QED BY <2>2 DEF PersistedIsThere
<1>2. ASSUME disk' = disk, KeepsTasks PROVE PersistedIsThere'
  <2>1. ASSUME NEW i \in saves', i.persisted
        PROVE  ToSet(i.delta) \subseteq Frames(disk'[i.package])
    <3>1. CASE i \in saves
      BY <1>2, <2>1, <3>1 DEF Durable, PersistedIsThere
    <3>2. CASE Fresh(i)
      BY <2>1, <3>2 DEF Fresh
    <3>3. ASSUME NEW j \in saves, Silenced(j, i)
          PROVE  ToSet(i.delta) \subseteq Frames(disk'[i.package])
      BY <1>2, <2>1, <3>3 DEF Durable, PersistedIsThere, Silenced
    <3> QED BY <1>2, <3>1, <3>2, <3>3 DEF KeepsTasks
  <2> QED BY <2>1 DEF PersistedIsThere
<1> QED BY <1>1, <1>2, OnlyTasksWrite

\* While no document is replaced by a new one, every step keeps the loading alone.
LEMMA LoadedNext ==
  ASSUME Typed, Durable, [Next]_vars, {"new", "audio"} \cap Replacements = {}
  PROVE  LoadedAlone'
<1>1. document = None => saves = {}
  BY DEF Durable, LoadedAlone
<1>2. ASSUME document' = None PROVE saves' = {}
  <2>1. CASE Crash
    BY <2>1 DEF Crash
  <2>2. CASE ~Crash
    <3>1. document = None
      BY <1>2, <2>2, ProjectGrows, ReplacedDocument DEF Ends
    <3>2. saves = {}
      BY <1>1, <3>1
    <3>3. \A k \in saves' : FALSE
      BY <3>1, <3>2, OnlyTasksWrite DEF KeepsTasks, Fresh
    <3> QED BY <3>3
  <2> QED BY <2>1, <2>2
<1>3. ASSUME opening' # None, opening'.stage = "analyze" PROVE document' = None
  <2>1. \A p \in Packages : ~OpenProject(p)
    BY <1>3 DEF OpenProject, BeginsOpen, OpenTask
  <2>2. ASSUME OpenAudio PROVE document' = None
    BY <2>2 DEF OpenAudio, Offered, BeginsOpen
  <2>3. ~OpenRecovery
    <3> SUFFICES ASSUME OpenRecovery PROVE FALSE
      OBVIOUS
    <3>1. PICK t \in DOMAIN disk[document.files].recoveries :
            opening' = [OpenTask(document.files, "recovery", "manifest") EXCEPT
                          !.checkpoint = disk[document.files].recoveries[t]]
      BY DEF OpenRecovery, BeginsOpen
    <3> QED BY <1>3, <3>1 DEF OpenTask
  <2>4. ~LoadManifest /\ ~ReadSegments /\ ~OpenFails
    BY <1>3, LoadedManifest, ReadJournal DEF OpenFails, Opening
  <2>5. ~Ends
    BY <1>3 DEF Ends, NewProject, FinishAudio, FinishOpen, Replaces, Crash
  <2>6. ASSUME opening' = opening PROVE document' = None
    BY <1>3, <2>5, <2>6, ProjectGrows DEF Durable, LoadedAlone
  <2>7. ASSUME NEW j \in saves, SaveTaskStep(j) PROVE opening' = opening
    BY <2>7, TaskMoves DEF Moves
  <2>8. ASSUME \/ \E c \in Commands : Edit(c)
               \/ \E p \in Packages : SavePrimary(p)
               \/ Autosave
               \/ \E j \in saves : FinishSave(j) \/ FinishAutosave(j) \/ DropSave(j)
               \/ UNCHANGED vars
        PROVE  opening' = opening
    BY <2>8 DEF Edit, SavePrimary, Autosave, FinishSave, FinishAutosave, DropSave, vars
  <2> QED BY <2>1, <2>2, <2>3, <2>4, <2>5, <2>6, <2>7, <2>8 DEF Next, Ends
<1> QED BY <1>2, <1>3 DEF LoadedAlone

\* The task k is j at another point, or with no listener.
SameTask(j, k) == k.epoch = j.epoch /\ k.kind = j.kind /\ k.package = j.package

\* Where a task that runs after a step comes from.
LEMMA TaskOrigins ==
  ASSUME Typed, [Next]_vars
  PROVE  \A k \in saves' :
           \/ \E j \in saves : SameTask(j, k)
           \/ /\ document # None /\ k.epoch = document.document_epoch
              /\ k.kind = "autosave" => k.package = document'.files
<1>1. ASSUME saves' \subseteq saves PROVE \A k \in saves' : \E j \in saves : SameTask(j, k)
  BY <1>1 DEF SameTask
<1>2. ASSUME saves' = Unheard(saves) PROVE \A k \in saves' : \E j \in saves : SameTask(j, k)
  BY <1>2, UnheardTasks DEF SameTask, Silenced
<1>3. ASSUME NEW j \in saves, NEW m, Moves(j, m)
      PROVE  \A k \in saves' : \E i \in saves : SameTask(i, k)
  BY <1>3 DEF SameTask, Moves, Captured
<1>4. ASSUME NEW p \in Packages, SavePrimary(p), NEW k \in saves'
      PROVE  \/ \E j \in saves : SameTask(j, k)
             \/ /\ document # None /\ k.epoch = document.document_epoch
                /\ k.kind = "autosave" => k.package = document'.files
  <2>1. /\ saves' = Unheard(saves) \cup {SaveTask("primary", document, p)}
        /\ document # None /\ document \in Document
    BY <1>4 DEF SavePrimary, Typed, DocumentSound
  <2>2. /\ SaveTask("primary", document, p).kind = "primary"
        /\ SaveTask("primary", document, p).epoch = document.document_epoch
    BY DEF SaveTask
  <2> QED BY <2>1, <2>2, UnheardTasks DEF SameTask, Silenced
<1>5. ASSUME Autosave, NEW k \in saves'
      PROVE  \/ \E j \in saves : SameTask(j, k)
             \/ /\ document # None /\ k.epoch = document.document_epoch
                /\ k.kind = "autosave" => k.package = document'.files
  <2>1. document # None /\ document \in Document
    BY <1>5 DEF Autosave, Typed, DocumentSound
  <2>2. PICK p \in Packages : /\ document' = [document EXCEPT !.files = p]
                              /\ saves' = saves \cup {SaveTask("autosave", document, p)}
    BY <1>5 DEF Autosave
  <2>3. /\ SaveTask("autosave", document, p).package = p
        /\ SaveTask("autosave", document, p).epoch = document.document_epoch
        /\ document'.files = p
    BY <2>1, <2>2, BegunTask, FiledDocument
  <2> QED BY <2>1, <2>2, <2>3 DEF SameTask
<1>6. ASSUME NEW p \in Packages, OpenProject(p) PROVE saves' = Unheard(saves)
  BY <1>6 DEF OpenProject, BeginsOpen
<1>7. ASSUME OpenAudio \/ OpenRecovery \/ NewProject \/ FinishAudio \/ FinishOpen
      PROVE  saves' = Unheard(saves)
  BY <1>7 DEF OpenAudio, OpenRecovery, BeginsOpen, NewProject, FinishAudio, FinishOpen, Replaces
<1>8. ASSUME \/ \E c \in Commands : Edit(c)
             \/ \E j \in saves : FinishSave(j) \/ FinishAutosave(j) \/ DropSave(j)
             \/ LoadManifest \/ OpenFails \/ ReadSegments \/ Crash \/ UNCHANGED vars
      PROVE  saves' \subseteq saves
  BY <1>8
  DEF Edit, FinishSave, FinishAutosave, DropSave, LoadManifest, OpenFails, ReadSegments,
      Opening, Crash, vars
<1> QED BY <1>1, <1>2, <1>3, <1>4, <1>5, <1>6, <1>7, <1>8, TaskMoves DEF Next

\* When the document keeps its epoch and its place, autosaves stay at home.
LEMMA HomeKept ==
  ASSUME Typed, Durable, [Next]_vars, document # None, document' # None,
         document'.document_epoch = document.document_epoch,
         document.files # None => document'.files = document.files
  PROVE  AutosavesAtHome'
<1>1. document.document_epoch \in Nat
  BY DocumentIs DEF Typed, DocumentSound
<1>2. ASSUME NEW k, NEW j \in saves, SameTask(j, k)
      PROVE  /\ k.epoch <= document'.document_epoch
             /\ k.kind = "autosave" /\ k.epoch = document'.document_epoch
                  => k.package = document'.files
  <2>1. j.package # None
    BY TaskFacts, DocumentAssumption DEF Packages
  <2> QED BY <1>2, <2>1 DEF Durable, AutosavesAtHome, SameTask
<1>3. document.document_epoch <= document'.document_epoch
  BY <1>1
<1> QED BY <1>2, <1>3, TaskOrigins DEF AutosavesAtHome

\* When the epoch moves on, no save of it is running.
LEMMA HomeLeft ==
  ASSUME Typed, Durable, document' # None,
         \A k \in saves' : \E j \in saves : SameTask(j, k),
         document # None => document'.document_epoch = document.document_epoch + 1
  PROVE  AutosavesAtHome'
<1>1. ASSUME NEW k \in saves'
      PROVE  k.epoch <= document'.document_epoch /\ k.epoch # document'.document_epoch
  <2>1. PICK j \in saves : k.epoch = j.epoch
    BY DEF SameTask
  <2>2. document # None /\ j.epoch <= document.document_epoch /\ j.epoch \in Nat
    BY TaskFacts, SaveIsAt DEF Durable, AutosavesAtHome
  <2>3. document.document_epoch \in Nat
    BY <2>2, DocumentIs DEF Typed, DocumentSound
  <2> QED BY <2>1, <2>2, <2>3
<1> QED BY <1>1 DEF AutosavesAtHome

\* While no document is replaced by a new one, every step keeps autosaves with the
\* document that began them.
LEMMA HomeNext ==
  ASSUME Typed, Durable, [Next]_vars, {"new", "audio"} \cap Replacements = {}
  PROVE  AutosavesAtHome'
<1>1. document = None => saves = {}
  BY DEF Durable, LoadedAlone
<1>2. ASSUME saves' = {} PROVE AutosavesAtHome'
  BY <1>2 DEF AutosavesAtHome
<1>3. document # None => document \in Document /\ DocumentSound(document)
  BY DEF Typed, DocumentSound
<1>4. ASSUME document' = document PROVE AutosavesAtHome'
  <2>1. CASE document # None
    BY <1>4, <2>1, HomeKept
  <2>2. CASE document = None
    <3>1. \A k \in saves' : FALSE
      BY <1>1, <2>2, TaskOrigins
    <3> QED BY <1>2, <3>1
  <2> QED BY <2>1, <2>2
<1>5. ASSUME NEW c \in Commands, Edit(c) PROVE AutosavesAtHome'
  <2>1. document # None /\ document' = Edited(document, c)
    BY <1>5 DEF Edit
  <2>2. /\ document'.document_epoch = document.document_epoch
        /\ document'.files = document.files /\ document' \in Document
    BY <1>3, <2>1, EditedDocument
  <2> QED BY <2>1, <2>2, HomeKept, NoneAssumption
<1>6. ASSUME Autosave PROVE AutosavesAtHome'
  <2>1. document # None
    BY <1>6 DEF Autosave
  <2>2. PICK p \in Packages : /\ document' = [document EXCEPT !.files = p]
                              /\ document.files # None => p = document.files
    BY <1>6 DEF Autosave
  <2>3. /\ document'.document_epoch = document.document_epoch
        /\ document'.files = p /\ document' \in Document
    BY <1>3, <2>1, <2>2, FiledDocument
  <2> QED BY <2>1, <2>2, <2>3, HomeKept, NoneAssumption
<1>7. ASSUME NEW j \in saves, FinishSave(j) PROVE AutosavesAtHome'
  <2>1. \A k \in saves' : \E i \in saves : SameTask(i, k)
    BY <1>7 DEF FinishSave, SameTask
  <2> QED BY <1>7, <2>1, SaveHeard, HomeKept, HomeLeft
<1>8. ASSUME NEW j \in saves, FinishAutosave(j) PROVE AutosavesAtHome'
  BY <1>8, AutosaveHeard, HomeKept
<1>9. ASSUME NewProject \/ FinishAudio PROVE AutosavesAtHome'
  <2>1. document = None /\ saves' = Unheard(saves)
    BY <1>9 DEF NewProject, FinishAudio, Offered, Replaces, Durable, LoadedAlone
  <2>2. saves' = {}
    BY <1>1, <2>1 DEF Unheard
  <2> QED BY <1>2, <2>2
<1>10. ASSUME FinishOpen PROVE AutosavesAtHome'
  <2>1. \A k \in saves' : \E j \in saves : SameTask(j, k)
    BY <1>10, UnheardTasks DEF FinishOpen, Replaces, SameTask, Silenced
  <2>2. document' # None /\ document'.document_epoch = Epoch + 1
    BY <1>10, OpenReady
  <2> QED BY <2>1, <2>2, HomeLeft DEF Epoch
<1>11. ASSUME Crash PROVE AutosavesAtHome'
  BY <1>2, <1>11 DEF Crash
<1> QED BY <1>4, <1>5, <1>6, <1>7, <1>8, <1>9, <1>10, <1>11, NextSteps, DocumentStays

\* The records an acknowledgement drops are those of its delta.
LEMMA DroppedRecords ==
  ASSUME NEW doc \in Document, NEW e, NEW j \in Save, Settles(doc, e, j),
         NEW f \in ToSet(doc.journal) \ ToSet(e.journal)
  PROVE  j.persisted /\ f \in ToSet(j.delta)
<1>1. e.journal # doc.journal
  OBVIOUS
<1>2. /\ j.persisted /\ j.delta # << >> /\ IsPrefix(j.delta, doc.journal)
      /\ e.journal = PendingAfter(doc, j.delta)
  BY <1>1 DEF Settles
<1> DEFINE delta == j.delta
           rest == PendingAfter(doc, delta)
           m == Len(delta)
           n == Len(doc.journal)
<1>3. delta \in Seq(Frame) /\ delta # << >> /\ IsPrefix(delta, doc.journal) /\ e.journal = rest
  BY <1>2, SaveIsAt
<1>4. n \in Nat /\ DOMAIN doc.journal = 1 .. n /\ DOMAIN delta = 1 .. m
  BY <1>3, DocumentLengths, LenProperties
<1> HIDE DEF delta
<1>5. /\ m \in Nat \ {0} /\ m <= n /\ \A i \in 1 .. m : delta[i] = doc.journal[i]
      /\ rest \in Seq(Frame) /\ Len(rest) = n - m
      /\ \A i \in 1 .. n - m : rest[i] = doc.journal[m + i]
  BY <1>3, AcknowledgedParts
<1> HIDE DEF rest, m, n
<1>6. DOMAIN rest = 1 .. n - m
  BY <1>5, LenProperties
<1>7. PICK i \in 1 .. n : f = doc.journal[i]
  BY <1>4 DEF ToSet
<1>8. CASE i <= m
  <2>1. i \in 1 .. m
    BY <1>4, <1>5, <1>8
  <2> QED BY <1>2, <1>4, <1>5, <1>7, <2>1 DEF ToSet, delta
<1>9. CASE i > m
  <2>1. i - m \in 1 .. n - m /\ m + (i - m) = i
    BY <1>4, <1>5, <1>9
  <2>2. rest[i - m] = f
    BY <1>5, <1>7, <2>1
  <2>3. f \in ToSet(rest)
    BY <1>6, <2>1, <2>2 DEF ToSet
  <2> QED BY <1>3, <2>3
<1> QED BY <1>4, <1>5, <1>8, <1>9

\* The journal cursor passes a record only when the record is in the package that a
\* recovery of the document will read (finish_save, finish_autosave and
\* acknowledge_journal_delta), while no new document and no material takes its
\* place.
THEOREM AcknowledgedIsDurable ==
  {"new", "audio"} \cap Replacements = {} => (Spec => AcknowledgedFramesAreDurable)
<1> SUFFICES ASSUME {"new", "audio"} \cap Replacements = {}
             PROVE  Spec => AcknowledgedFramesAreDurable
  OBVIOUS
<1>1. Init => SourcesCovered /\ Durable
  BY DEF Init, SourcesCovered, Durable, AutosavesAtHome, PersistedIsThere, LoadedAlone
<1>2. Typed /\ SourcesCovered /\ Durable /\ [Next]_vars => SourcesCovered' /\ Durable'
  BY CoveredNext, PersistedNext, LoadedNext, HomeNext DEF Durable
<1>3. ASSUME Typed, SourcesCovered, Durable, [Next]_vars,
             document # None, document' # None, installs' = installs,
             NEW f \in ToSet(document.journal) \ ToSet(document'.journal)
      PROVE  document'.files # None /\ f \in Frames(disk'[document'.files])
  <2>1. document \in Document /\ document.journal \in Seq(Frame)
    BY <1>3, DocumentIs DEF Typed, DocumentSound
  <2>2. \A c \in Commands : ~Edit(c)
    <3> SUFFICES ASSUME NEW c \in Commands, Edit(c) PROVE FALSE
      OBVIOUS
    <3> DEFINE n == Len(document.journal)
    <3>1. /\ FrameOf(document, c) \in Frame /\ document'.journal = Append(document.journal, FrameOf(document, c))
      BY <2>1, EditedDocument DEF Edit
    <3>2. /\ document'.journal \in Seq(Frame) /\ Len(document'.journal) = n + 1 /\ n \in Nat
          /\ \A i \in 1 .. n : document'.journal[i] = document.journal[i]
      BY <2>1, <3>1, AppendProperties, LenProperties
    <3>3. DOMAIN document.journal = 1 .. n /\ DOMAIN document'.journal = 1 .. n + 1
      BY <2>1, <3>2, LenProperties
    <3>4. PICK i \in 1 .. n : f = document.journal[i]
      BY <1>3, <3>3 DEF ToSet
    <3>5. i \in 1 .. n + 1 /\ document'.journal[i] = f
      BY <3>2, <3>4
    <3>6. f \in ToSet(document'.journal)
      BY <3>3, <3>5 DEF ToSet
    <3> QED BY <1>3, <3>6
  <2>3. ~Autosave
    <3> SUFFICES ASSUME Autosave PROVE FALSE
      OBVIOUS
    <3>1. PICK p \in Packages : document' = [document EXCEPT !.files = p]
      BY DEF Autosave
    <3> QED BY <1>3, <2>1, <3>1, FiledDocument
  <2>4. document' # document /\ ~Ends
    <3>1. document' # document
      BY <1>3
    <3>2. ~Crash
      BY <1>3 DEF Crash
    <3>3. ~Replaces(document')
      BY <1>3 DEF Replaces, Typed
    <3> QED BY <1>3, <3>1, <3>2, <3>3, ReplacedDocument DEF Ends
  <2>5. PICK j \in saves : FinishSave(j) \/ FinishAutosave(j)
    BY <1>3, <2>2, <2>3, <2>4, NextSteps, DocumentStays DEF Ends
  <2>6. /\ document' \in Document /\ Settles(document, document', j) /\ j \in Save
        /\ j.package \in Packages
    BY <1>3, <2>5, SaveHeard, AutosaveHeard, TaskFacts
  <2>7. j.persisted /\ f \in ToSet(j.delta)
    BY <1>3, <2>1, <2>6, DroppedRecords
  <2>8. f \in Frames(disk[j.package])
    BY <1>3, <2>7 DEF Durable, PersistedIsThere
  <2>9. document'.files = j.package
    <3>1. CASE FinishSave(j)
      BY <1>3, <3>1, SaveHeard
    <3>2. CASE FinishAutosave(j)
      BY <1>3, <3>2, AutosaveHeard DEF FinishAutosave, IsSameDocument, Durable, AutosavesAtHome
    <3> QED BY <2>5, <3>1, <3>2
  <2>10. Frames(disk[j.package]) \subseteq Frames(disk'[j.package])
    BY <1>3, <2>6, CoveredNext
  <2> QED BY <2>6, <2>8, <2>9, <2>10, DocumentAssumption DEF Packages
<1>4. Typed /\ SourcesCovered /\ Durable /\ [Next]_vars
      => [document # None /\ document' # None /\ installs' = installs =>
            \A f \in ToSet(document.journal) \ ToSet(document'.journal) :
              document'.files # None /\ f \in Frames(disk[document.files])']_vars
  BY <1>3
<1> QED BY <1>1, <1>2, <1>4, TypedInit, TypedNext, PTL DEF Spec, AcknowledgedFramesAreDurable

=============================================================================
