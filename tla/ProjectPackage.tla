---------------------------- MODULE ProjectPackage ----------------------------
(***************************************************************************)
(* One `.audec` package on disk and the steps ProjectStore takes on it.    *)
(* Every step here is atomic on the file system: a temporary file that is  *)
(* linked or renamed into place, or one file removed.  What happens        *)
(* between two of them is left to the module that uses this one.           *)
(*                                                                         *)
(* A project is the sequence of command batches applied to it, so its      *)
(* revision is its length and two timelines that part at a revision differ *)
(* from there on.  A command edits one domain and carries the value it saw *)
(* there; a domain's payload is the sequence of the edits made to it.      *)
(***************************************************************************)
EXTENDS Naturals, FiniteSets, SequencesExt

CONSTANTS
  Commands,               \* command batches
  Domains,                \* the editable domains
  DomainOf,               \* the domain a command edits
  PayloadOrder,           \* the order the payload map writes them in
  None,                   \* no checkpoint, package, document or revision
  MaxRecoveryCheckpoints, \* DEFAULT_MAX_RECOVERY_CHECKPOINTS
  MaxActiveSegments       \* DEFAULT_MAX_ACTIVE_JOURNAL_SEGMENTS

ASSUME PackageAssumption ==
  /\ DomainOf \in [Commands -> Domains]
  /\ PayloadOrder \in Seq(Domains)
  /\ ToSet(PayloadOrder) = Domains /\ Len(PayloadOrder) = Cardinality(Domains)
  /\ MaxRecoveryCheckpoints \in Nat \ {0}
  /\ MaxActiveSegments \in Nat \ {0, 1}

Project == Seq(Commands)
Revision(project) == Len(project)
DomainPayload(project, d) == SelectSeq(project, LAMBDA c : DomainOf[c] = d)

\* A journal frame: its sequence and the project the command left, which also
\* stands for the base revision and the values the command saw.
Frame == [sequence : Nat \ {0}, result : Project \ {<< >>}]
BaseRevision(frame) == Revision(frame.result) - 1

\* A segment holds its frames in the order of their sequences.
Segment == [compacted : BOOLEAN, frames : SUBSET Frame]

\* primary is what project.json names, payloads the files by revision and domain,
\* recoveries the autosave manifests by the time they were written at.
IsPackage(p) ==
  /\ p = [primary |-> p.primary, payloads |-> p.payloads,
          recoveries |-> p.recoveries, segments |-> p.segments]
  /\ p.primary \in {None} \cup Project
  /\ DOMAIN p.payloads \subseteq Nat \X Domains
  /\ IsFiniteSet(DOMAIN p.recoveries) /\ DOMAIN p.recoveries \subseteq Nat
  /\ \A t \in DOMAIN p.recoveries : p.recoveries[t] \in Project
  /\ IsFiniteSet(p.segments) /\ p.segments \subseteq Segment
  /\ \A s \in p.segments : IsFiniteSet(s.frames) /\ s.frames # {}

EmptyPackage == [primary |-> None, payloads |-> << >>, recoveries |-> << >>,
                 segments |-> {}]

Put(files, key, content) ==
  [k \in DOMAIN files \cup {key} |-> IF k = key THEN content ELSE files[k]]

-----------------------------------------------------------------------------
(* Checkpoints                                                             *)

PayloadKey(project, d) == <<Revision(project), d>>

\* write_immutable creates the file or finds the same bytes there.
AdmitsPayload(package, project, d) ==
  PayloadKey(project, d) \in DOMAIN package.payloads
    => package.payloads[PayloadKey(project, d)] = DomainPayload(project, d)

WithPayload(package, project, d) ==
  [package EXCEPT !.payloads = Put(@, PayloadKey(project, d), DomainPayload(project, d))]

\* Every payload a manifest names is on disk with the bytes it was saved with.
IsWhole(package, project) ==
  \A d \in Domains : /\ PayloadKey(project, d) \in DOMAIN package.payloads
                     /\ AdmitsPayload(package, project, d)

WithPrimary(package, project) == [package EXCEPT !.primary = project]

\* Later than every manifest that is there.
Now(package) == 1 + Max({0} \cup DOMAIN package.recoveries)
WithRecovery(package, project) ==
  [package EXCEPT !.recoveries = Put(@, Now(package), project)]

\* rotate_recovery_checkpoints orders by revision first, by time second.
Outlives(recoveries, i, j) ==
  \/ Revision(recoveries[i]) > Revision(recoveries[j])
  \/ Revision(recoveries[i]) = Revision(recoveries[j]) /\ i > j

Rotated(package) ==
  LET all  == package.recoveries
      kept == {i \in DOMAIN all :
                 Cardinality({j \in DOMAIN all : Outlives(all, j, i)}) < MaxRecoveryCheckpoints}
  IN  [package EXCEPT !.recoveries = Restrict(all, kept)]

-----------------------------------------------------------------------------
(* The command journal                                                     *)

SegmentOf(delta) == [compacted |-> FALSE, frames |-> ToSet(delta)]

Oldest(s) == CHOOSE f \in s.frames : \A g \in s.frames : f.sequence <= g.sequence
Newest(s) == CHOOSE f \in s.frames : \A g \in s.frames : f.sequence >= g.sequence

\* commands-r..-r..-s..-s.. or compacted-r..-r..-s..-s..
Name(s) ==
  <<IF s.compacted THEN 1 ELSE 0, BaseRevision(Oldest(s)), Revision(Newest(s).result),
    Oldest(s).sequence, Newest(s).sequence>>

AdmitsSegment(package, segment) ==
  \A other \in package.segments : Name(other) = Name(segment) => other = segment

WithSegment(package, segment) == [package EXCEPT !.segments = @ \cup {segment}]
WithoutSegment(package, segment) == [package EXCEPT !.segments = @ \ {segment}]

FramesIn(segments) == UNION {s.frames : s \in segments}
Frames(package) == FramesIn(package.segments)

\* Segments are taken by first sequence, then by path.
Precedes(s, t) ==
  LET k == <<Oldest(s).sequence>> \o Name(s)
      l == <<Oldest(t).sequence>> \o Name(t)
  IN  \E i \in DOMAIN k : k[i] < l[i] /\ \A j \in 1 .. i - 1 : k[j] = l[j]

\* The segments compact_journal_segments would merge; none while few are active.
Compactable(package) ==
  LET excess == Cardinality(package.segments) - (MaxActiveSegments - 1)
  IN  IF excess < 2 THEN {}
      ELSE {s \in package.segments :
              Cardinality({t \in package.segments : Precedes(t, s)}) < excess}

\* Merging keeps provenance: no sequence has two frames, and the frames are one
\* unbroken history.
IsOneHistory(frames) ==
  /\ \A f, g \in frames : f.sequence = g.sequence => f = g
  /\ \A f \in frames :
       \/ \A g \in frames : g.sequence <= f.sequence
       \/ \E g \in frames : /\ g.sequence = f.sequence + 1
                            /\ BaseRevision(g) = Revision(f.result)

Merged(segments) == [compacted |-> TRUE, frames |-> FramesIn(segments)]

-----------------------------------------------------------------------------
(* Recovery: the frames that extend a loaded snapshot                      *)

\* Two frames that claim one sequence are both set aside.
Unambiguous(frames) ==
  {f \in frames : \A g \in frames : g.sequence = f.sequence => g = f}

Anchors(frames, project) ==
  {f.sequence : f \in {g \in Unambiguous(frames) : Revision(g.result) = Revision(project)}}

Heads(frames, project) ==
  {f.sequence : f \in {g \in Unambiguous(frames) : BaseRevision(g) = Revision(project)}}

\* Replay starts after the last frame that ends at the snapshot's revision, or
\* else at the first that begins there.
ReplayStart(frames, project) ==
  IF Anchors(frames, project) # {} THEN 1 + Max(Anchors(frames, project))
  ELSE IF Heads(frames, project) # {} THEN Min(Heads(frames, project))
  ELSE 1

\* The command finds the values it recorded.
Applies(frame, project) ==
  LET d == DomainOf[Last(frame.result)]
  IN  /\ BaseRevision(frame) = Revision(project)
      /\ DomainPayload(project, d) = DomainPayload(Front(frame.result), d)

\* The n-th frame of the replay: none, or the only one with its sequence.
Nth(frames, project, n) ==
  {f \in Unambiguous(frames) : f.sequence = ReplayStart(frames, project) + n - 1}

\* The project once n frames are applied.
Replaying(frames, project, n) ==
  project \o [i \in 1 .. n |-> Last((CHOOSE f \in Nth(frames, project, i) : TRUE).result)]

IsReplayable(frames, project, n) ==
  \A i \in 1 .. n : \E f \in Nth(frames, project, i) :
    Applies(f, Replaying(frames, project, i - 1))

\* Replay stops before the first frame that is missing or does not apply.
ReplayLength(frames, project) ==
  Max({n \in 0 .. Cardinality(frames) : IsReplayable(frames, project, n)})

Replayed(frames, project) == Replaying(frames, project, ReplayLength(frames, project))

\* The sequence the next command gets.
NextSequence(frames, project) ==
  LET replayed == ReplayLength(frames, project)
  IN  IF Anchors(frames, project) = {} /\ replayed = 0 THEN 1
      ELSE ReplayStart(frames, project) + replayed

=============================================================================
