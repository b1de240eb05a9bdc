---------------------------- MODULE ProjectDocument ----------------------------
(***************************************************************************)
(* The installed document and the background work that makes it durable:   *)
(* ProjectDocumentLifecycle and the journal of ProjectController behind    *)
(* it, the workbench that starts saves, autosaves and opens and hears      *)
(* their completions, and the background tasks that write and read the     *)
(* package one file-system step at a time.  Any number of tasks may run at *)
(* once, edits go on meanwhile, every write may fail, and the process may  *)
(* end between any two steps.                                              *)
(*                                                                         *)
(* The workspace document and its own dirty mark are left out.             *)
(***************************************************************************)
EXTENDS ProjectPackage

CONSTANTS
  Places,            \* packages the musician can name
  RecoveryPackages,  \* fresh packages under the unsaved recovery root
  MaxRevision,       \* bound: commands in one project
  MaxInstalls,       \* bound: documents installed, over all sessions
  MaxPrimarySaves,   \* bound: explicit saves that run at once
  AutosaveEnabled,   \* whether the autosave timer may fire
  Replacements,      \* commands that may replace a document
  MaxFaults          \* bound: writes that fail and times the process ends, together

ASSUME DocumentAssumption ==
  /\ Places \cap RecoveryPackages = {} /\ None \notin Places \cup RecoveryPackages
  /\ AutosaveEnabled \in BOOLEAN
  /\ Replacements \subseteq {"new", "audio", "open", "recovery"}
  /\ \A n \in {MaxRevision, MaxInstalls, MaxPrimarySaves, MaxFaults} : n \in Nat

VARIABLES
  disk,                   \* package -> what is on disk
  document,               \* session and lifecycle of the installed document, or None
  saves,                  \* background save tasks
  opening,                \* the newest open task, or None
  autosave_last_revision, \* workbench: the revision the last autosave kept
  installs,               \* documents installed so far
  faults                  \* failed writes and ends of the process so far

vars == <<disk, document, saves, opening, autosave_last_revision, installs, faults>>

Packages == Places \cup RecoveryPackages

\* identity is the manifest_path and the origin taken together: "none" before the
\* first save or open.  saved_project is what was captured for the revision in
\* saved_revision; no code reads it.
Installed(project, saved, sequence, files, identity, epoch) ==
  [project               |-> project,
   saved_revision        |-> Revision(saved),
   saved_project         |-> saved,
   next_journal_sequence |-> sequence,
   journal               |-> << >>,
   journal_checkpoint    |-> [through_sequence |-> sequence - 1,
                              project_revision |-> Revision(project)],
   files                 |-> files,
   identity              |-> identity,
   document_epoch        |-> epoch]

Untitled == Installed(<< >>, << >>, 1, None, "none", 0)

Init == /\ disk = [p \in Packages |-> EmptyPackage]
        /\ document = None
        /\ saves = {}
        /\ opening = None
        /\ autosave_last_revision = None
        /\ installs = 0
        /\ faults = 0

-----------------------------------------------------------------------------
(* The session                                                             *)

\* apply_and_record_with_pcm: a command, an undo or a redo.
Edited(doc, c) ==
  LET project == Append(doc.project, c)
  IN  [doc EXCEPT !.project = project,
                  !.journal = Append(@, [sequence |-> doc.next_journal_sequence,
                                         result |-> project]),
                  !.next_journal_sequence = @ + 1]

Edit(c) == /\ document # None /\ Revision(document.project) < MaxRevision
           /\ document' = Edited(document, c)
           /\ UNCHANGED <<disk, saves, opening, autosave_last_revision, installs, faults>>

SessionDirty(doc) == doc.saved_revision # Revision(doc.project)
Dirty(doc) == doc.identity # "primary" \/ SessionDirty(doc)

\* Fault: an older delta moves the cursor, whatever happened since.
AcknowledgedBlindly(doc, delta, checkpoint) ==
  IF delta = << >> THEN doc
  ELSE [doc EXCEPT !.journal_checkpoint = [through_sequence |-> Last(delta).sequence,
                                           project_revision |-> Revision(Last(delta).result)],
                   !.journal = SubSeq(@, Len(delta) + 1, Len(@))]

\* acknowledge_journal_delta refuses a delta that is not the exact head of what
\* is pending.
Acknowledged(doc, delta, checkpoint) ==
  IF checkpoint = doc.journal_checkpoint /\ delta # << >> /\ IsPrefix(delta, doc.journal)
  THEN [doc EXCEPT !.journal_checkpoint =
                      [through_sequence |-> Last(delta).sequence,
                       project_revision |-> Revision(Last(delta).result)],
                   !.journal = SubSeq(@, Len(delta) + 1, Len(@))]
  ELSE doc

\* Fault: a save of an older revision clears the dirty mark of a newer one.
MarkedSavedAlways(doc, project) ==
  [doc EXCEPT !.saved_revision = Revision(doc.project), !.saved_project = project]

MarkedSaved(doc, project) ==
  IF Revision(project) = Revision(doc.project)
  THEN [doc EXCEPT !.saved_revision = Revision(project), !.saved_project = project]
  ELSE doc

-----------------------------------------------------------------------------
(* Starting a save.  A task captures everything it needs.                  *)

SaveTask(kind, doc, package) ==
  [kind |-> kind, package |-> package, project |-> doc.project, delta |-> doc.journal,
   checkpoint |-> doc.journal_checkpoint, epoch |-> doc.document_epoch,
   heard |-> TRUE,      \* the workbench's authorities have not moved on
   stage |-> "payloads", written |-> 0,
   ok |-> TRUE,         \* SaveResult
   persisted |-> FALSE, \* ProjectJournalPersistenceState::Persisted
   sources |-> {}]

Explicit == {j \in saves : j.kind = "primary"}

\* Starting a newer explicit save or replacing the document moves an authority
\* on: the workbench will drop the older completions, and latest_primary_save
\* would refuse them as well.
Unheard(tasks) == {IF j.kind = "primary" THEN [j EXCEPT !.heard = FALSE] ELSE j : j \in tasks}

\* save_project: Save when the place is the document's own, else Save As.
SavePrimary(p) ==
  /\ document # None /\ Cardinality(Explicit) < MaxPrimarySaves
  /\ p \in Places \/ (document.identity # "none" /\ p = document.files)
  /\ saves' = Unheard(saves) \cup {SaveTask("primary", document, p)}
  /\ UNCHANGED <<disk, document, opening, autosave_last_revision, installs, faults>>

\* maybe_autosave; an unsaved document adopts a fresh recovery repository first.
Autosave ==
  /\ AutosaveEnabled
  /\ document # None /\ Dirty(document)
  /\ \A j \in saves : j.kind # "autosave"
  /\ document.identity = "none" => SessionDirty(document)
  /\ autosave_last_revision # Revision(document.project)
  /\ \E p \in Packages :
       /\ IF document.files # None THEN p = document.files
          ELSE p \in RecoveryPackages /\ disk[p] = EmptyPackage
       /\ document' = [document EXCEPT !.files = p]
       /\ saves' = saves \cup {SaveTask("autosave", document, p)}
  /\ UNCHANGED <<disk, opening, autosave_last_revision, installs, faults>>

-----------------------------------------------------------------------------
(* A save task: payloads, manifest, rotation, journal segment, compaction. *)

Becomes(j, k) == saves' = (saves \ {j}) \cup {k}
Writes(j, package) == disk' = [disk EXCEPT ![j.package] = package]
SaveStep == UNCHANGED <<document, opening, autosave_last_revision, installs>>
NoFault  == UNCHANGED faults /\ SaveStep
Fault    == faults < MaxFaults /\ faults' = faults + 1 /\ SaveStep

Failed(j) == [j EXCEPT !.stage = "finished", !.ok = FALSE]

\* A payload that is there with other bytes ends the save.
WritePayload(j) ==
  /\ j.stage = "payloads" /\ j.written < Len(PayloadOrder)
  /\ LET d == PayloadOrder[j.written + 1] IN
       \/ /\ AdmitsPayload(disk[j.package], j.project, d)
          /\ Writes(j, WithPayload(disk[j.package], j.project, d))
          /\ Becomes(j, [j EXCEPT !.written = @ + 1])
       \/ /\ ~AdmitsPayload(disk[j.package], j.project, d)
          /\ Becomes(j, Failed(j))
          /\ UNCHANGED disk
  /\ NoFault

\* Fault: the manifest does not wait for the payloads.
WriteManifestEarly(j) ==
  /\ j.stage = "payloads"
  /\ Writes(j, IF j.kind = "primary" THEN WithPrimary(disk[j.package], j.project)
               ELSE WithRecovery(disk[j.package], j.project))
  /\ Becomes(j, [j EXCEPT !.stage = "segment"])
  /\ NoFault

\* An explicit save replaces project.json, an autosave adds a recovery manifest.
WriteManifest(j) ==
  /\ j.stage = "payloads" /\ j.written = Len(PayloadOrder)
  /\ \/ /\ j.kind = "primary"
        /\ Writes(j, WithPrimary(disk[j.package], j.project))
        /\ Becomes(j, [j EXCEPT !.stage = "segment"])
     \/ /\ j.kind = "autosave"
        /\ Writes(j, WithRecovery(disk[j.package], j.project))
        /\ Becomes(j, [j EXCEPT !.stage = "rotate"])
  /\ NoFault

\* A payload or the manifest cannot be written.
CheckpointFails(j) ==
  /\ j.stage = "payloads"
  /\ Becomes(j, Failed(j))
  /\ UNCHANGED disk
  /\ Fault

\* The oldest manifests go; one that cannot be removed is only a diagnostic.
Rotate(j) ==
  /\ j.stage = "rotate"
  /\ \/ Writes(j, Rotated(disk[j.package])) /\ NoFault
     \/ disk[j.package] # Rotated(disk[j.package]) /\ UNCHANGED disk /\ Fault
  /\ Becomes(j, [j EXCEPT !.stage = "segment"])

WriteSegment(j) ==
  /\ j.stage = "segment" /\ j.delta # << >>
  /\ AdmitsSegment(disk[j.package], SegmentOf(j.delta))
  /\ Writes(j, WithSegment(disk[j.package], SegmentOf(j.delta)))
  /\ Becomes(j, [j EXCEPT !.stage = "compact", !.persisted = TRUE])
  /\ NoFault

\* Nothing is pending, or the segment cannot be written or its name is taken.
NoSegment(j) ==
  /\ j.stage = "segment"
  /\ IF j.delta = << >> \/ ~AdmitsSegment(disk[j.package], SegmentOf(j.delta))
     THEN NoFault ELSE Fault
  /\ Becomes(j, [j EXCEPT !.stage = "finished"])
  /\ UNCHANGED disk

\* Fault: the sources go before the segment that replaces them is written.
ChooseSourcesToRemove(j) ==
  /\ j.stage = "compact" /\ Compactable(disk[j.package]) # {}
  /\ Becomes(j, [j EXCEPT !.stage = "remove", !.sources = Compactable(disk[j.package])])
  /\ UNCHANGED disk
  /\ NoFault

\* compact_journal_segments selects and reads the segments it will merge.
ChooseSources(j) ==
  /\ j.stage = "compact"
  /\ LET sources == Compactable(disk[j.package]) IN
       /\ sources # {} /\ IsOneHistory(FramesIn(sources))
       /\ Becomes(j, [j EXCEPT !.stage = "merge", !.sources = sources])
  /\ UNCHANGED disk
  /\ NoFault

\* Few segments, an ambiguous or broken history, a name that is taken, or a file
\* that cannot be read or written.
NoCompaction(j) ==
  /\ \/ /\ j.stage = "compact"
        /\ LET sources == Compactable(disk[j.package]) IN
             IF sources = {} \/ ~IsOneHistory(FramesIn(sources)) THEN NoFault ELSE Fault
     \/ /\ j.stage = "merge"
        /\ IF AdmitsSegment(disk[j.package], Merged(j.sources)) THEN Fault ELSE NoFault
  /\ Becomes(j, [j EXCEPT !.stage = "finished", !.sources = {}])
  /\ UNCHANGED disk

WriteCompacted(j) ==
  /\ j.stage = "merge"
  /\ LET compacted == Merged(j.sources) IN
       /\ AdmitsSegment(disk[j.package], compacted)
       /\ Writes(j, WithSegment(disk[j.package], compacted))
       /\ Becomes(j, [j EXCEPT !.stage = "remove", !.sources = @ \ {compacted}])
  /\ NoFault

RemoveSource(j) ==
  /\ j.stage = "remove"
  /\ \E s \in j.sources :
       /\ \A t \in j.sources \ {s} : Precedes(s, t)
       /\ Writes(j, WithoutSegment(disk[j.package], s))
       /\ Becomes(j, [j EXCEPT !.sources = @ \ {s}])
  /\ NoFault

\* Every source is gone, or one could not be removed.
StopRemoving(j) ==
  /\ j.stage = "remove"
  /\ IF j.sources = {} THEN NoFault ELSE Fault
  /\ Becomes(j, [j EXCEPT !.stage = "finished", !.sources = {}])
  /\ UNCHANGED disk

-----------------------------------------------------------------------------
(* The completion of a save                                                *)

\* Fault: the cursor moves although the segment was not written.
PersistedOrNot(j) == Acknowledged(document, j.delta, j.checkpoint)

Persisted(j) == IF j.persisted THEN Acknowledged(document, j.delta, j.checkpoint) ELSE document

\* Fault: Save As does not adopt the new repository.
SavedElsewhere(doc, j) == [MarkedSaved(doc, j.project) EXCEPT !.identity = "primary"]

\* What a successful explicit save does: the package becomes the document's
\* own, and the epoch moves on when the manifest path did.
SavedInto(doc, j) ==
  LET moved == doc.identity # "primary" \/ doc.files # j.package
  IN  [MarkedSaved(doc, j.project) EXCEPT
         !.files = j.package, !.identity = "primary",
         !.document_epoch = IF moved THEN @ + 1 ELSE @]

\* The document_epoch test that finish_save begins with.
IsSameDocument(j) == document # None /\ document.document_epoch = j.epoch

FinishSave(j) ==
  /\ j.stage = "finished"
  /\ j.kind = "primary" /\ j.heard /\ IsSameDocument(j) /\ j.ok
  /\ document' = SavedInto(Persisted(j), j)
  /\ saves' = saves \ {j}
  /\ UNCHANGED <<disk, opening, autosave_last_revision, installs, faults>>

FinishAutosave(j) ==
  /\ j.stage = "finished"
  /\ j.kind = "autosave" /\ IsSameDocument(j) /\ j.ok
  /\ document' = Persisted(j)
  /\ autosave_last_revision' = Revision(j.project)
  /\ saves' = saves \ {j}
  /\ UNCHANGED <<disk, opening, installs, faults>>

\* An older or failed completion changes nothing.
DropSave(j) ==
  /\ j.stage = "finished"
  /\ ~j.ok \/ ~IsSameDocument(j) \/ (j.kind = "primary" /\ ~j.heard)
  /\ saves' = saves \ {j}
  /\ UNCHANGED <<disk, document, opening, autosave_last_revision, installs, faults>>

-----------------------------------------------------------------------------
(* Replacing the document.  Save / Discard / Cancel has been answered.     *)

Replaces(doc) ==
  /\ installs < MaxInstalls
  /\ installs' = installs + 1
  /\ document' = doc
  /\ saves' = Unheard(saves)
  /\ opening' = None

Offered(command) == document = None \/ command \in Replacements

NewProject ==
  /\ Offered("new")
  /\ Replaces(Untitled)
  /\ autosave_last_revision' = None
  /\ UNCHANGED <<disk, faults>>

\* An open runs beside the installed document and replaces it when it is ready.
\* A newer open makes the older one stale before it has changed anything, as if
\* only the newer had been started.
OpenTask(p, identity, stage) ==
  [package |-> p, identity |-> identity, stage |-> stage, checkpoint |-> None,
   project |-> None, frames |-> {}]

BeginsOpen(task) ==
  /\ installs < MaxInstalls /\ opening = None
  /\ opening' = task
  /\ saves' = Unheard(saves)
  /\ UNCHANGED <<disk, document, autosave_last_revision, installs, faults>>

OpenProject(p) == Offered("open") /\ BeginsOpen(OpenTask(p, "primary", "manifest"))

\* choose_recovery looks for checkpoints beside the document's own project.json.
OpenRecovery ==
  /\ document # None /\ document.identity = "primary" /\ Offered("recovery")
  /\ \E t \in DOMAIN disk[document.files].recoveries :
       BeginsOpen([OpenTask(document.files, "recovery", "manifest") EXCEPT
                     !.checkpoint = disk[document.files].recoveries[t]])

\* load_path
OpenAudio == Offered("audio") /\ BeginsOpen(OpenTask(None, "none", "analyze"))

\* A new lifecycle, but the workbench keeps the revision it last autosaved.
FinishAudio ==
  /\ opening # None /\ opening.stage = "analyze"
  /\ Replaces(Untitled)
  /\ UNCHANGED <<disk, autosave_last_revision, faults>>

Opening(task) ==
  /\ opening' = task
  /\ UNCHANGED <<disk, document, saves, autosave_last_revision, installs, faults>>

Chosen(task) ==
  IF task.identity = "primary" THEN disk[task.package].primary ELSE task.checkpoint

\* The manifest is there, and every payload it names.
IsReadable(task) ==
  /\ IF task.identity = "primary" THEN disk[task.package].primary # None
     ELSE task.checkpoint \in Range(disk[task.package].recoveries)
  /\ IsWhole(disk[task.package], Chosen(task))

LoadManifest ==
  /\ opening # None /\ opening.stage = "manifest" /\ IsReadable(opening)
  /\ Opening([opening EXCEPT !.stage = "journal", !.project = Chosen(opening)])

\* The material or the package cannot be read; the installed document stays as
\* it is.
OpenFails ==
  /\ opening # None /\ opening.stage \in {"analyze", "manifest"}
  /\ Opening(None)

\* Long after the manifest was read (media is decoded in between), the journal
\* segments that are there are read.
ReadSegments ==
  /\ opening # None /\ opening.stage = "journal"
  /\ Opening([opening EXCEPT !.stage = "ready", !.frames = Frames(disk[opening.package])])

Epoch == IF document = None THEN 0 ELSE document.document_epoch

FinishOpen ==
  /\ opening # None /\ opening.stage = "ready"
  /\ Replaces(Installed(Replayed(opening.frames, opening.project), opening.project,
                        NextSequence(opening.frames, opening.project),
                        opening.package, opening.identity, Epoch + 1))
  /\ autosave_last_revision' = None
  /\ UNCHANGED <<disk, faults>>

\* The process ends, in order or not: whatever was not written is gone.
Crash ==
  /\ document # None /\ faults < MaxFaults
  /\ document' = None /\ saves' = {} /\ opening' = None
  /\ autosave_last_revision' = None
  /\ faults' = faults + 1
  /\ UNCHANGED <<disk, installs>>

-----------------------------------------------------------------------------

SaveTaskStep(j) ==
  \/ WritePayload(j) \/ WriteManifest(j) \/ CheckpointFails(j) \/ Rotate(j)
  \/ WriteSegment(j) \/ NoSegment(j)
  \/ ChooseSources(j) \/ NoCompaction(j) \/ WriteCompacted(j)
  \/ RemoveSource(j) \/ StopRemoving(j)

Next ==
  \/ \E c \in Commands : Edit(c)
  \/ \E p \in Packages : SavePrimary(p) \/ OpenProject(p)
  \/ Autosave
  \/ \E j \in saves : SaveTaskStep(j) \/ FinishSave(j) \/ FinishAutosave(j) \/ DropSave(j)
  \/ NewProject \/ OpenAudio \/ FinishAudio \/ OpenRecovery
  \/ LoadManifest \/ OpenFails \/ ReadSegments \/ FinishOpen
  \/ Crash

Spec == Init /\ [][Next]_vars

-----------------------------------------------------------------------------
(* Properties                                                              *)

Checkpoint == [through_sequence : Nat, project_revision : Nat]

Document ==
  [project : Project, saved_revision : Nat, saved_project : Project,
   next_journal_sequence : Nat \ {0}, journal : Seq(Frame),
   journal_checkpoint : Checkpoint, files : {None} \cup Packages,
   identity : {"none", "primary", "recovery"}, document_epoch : Nat]

Save ==
  [kind : {"primary", "autosave"}, package : Packages, project : Project,
   delta : Seq(Frame), checkpoint : Checkpoint, epoch : Nat, heard : BOOLEAN,
   stage : {"payloads", "rotate", "segment", "compact", "merge", "remove", "finished"},
   written : 0 .. Len(PayloadOrder), ok : BOOLEAN, persisted : BOOLEAN,
   sources : SUBSET Segment]

Open ==
  [package : {None} \cup Packages, identity : {"none", "primary", "recovery"},
   stage : {"analyze", "manifest", "journal", "ready"}, checkpoint : {None} \cup Project,
   project : {None} \cup Project, frames : SUBSET Frame]

\* A document is a record and never the absence of one.
ASSUME NoneAssumption == None \notin Document \cup Open

TypeOK ==
  /\ DOMAIN disk = Packages /\ \A p \in Packages : IsPackage(disk[p])
  /\ document \in {None} \cup Document
  /\ document # None =>
       /\ document.saved_revision = Revision(document.saved_project)
       /\ document.files = None => document.identity = "none"
  /\ saves \subseteq Save
  /\ \A j \in saves : j.persisted => j.ok /\ j.delta # << >>
  /\ opening \in {None} \cup Open
  /\ autosave_last_revision \in {None} \cup Nat
  /\ installs \in 0 .. MaxInstalls /\ faults \in 0 .. MaxFaults

\* "A crash can ... leave unreferenced payloads behind, but it cannot publish a
\* manifest that points at a half-written checkpoint" (src/project_store.rs:5-6),
\* however many tasks save into the package at once.
ManifestsAreWhole ==
  \A p \in Packages :
    /\ disk[p].primary # None => IsWhole(disk[p], disk[p].primary)
    /\ \A t \in DOMAIN disk[p].recoveries : IsWhole(disk[p], disk[p].recoveries[t])

\* Compaction bounds the number of segments "without discarding command
\* provenance": no step of any task loses a frame the journal once held.
CommandsAreNeverLost ==
  [][\A p \in Packages : Frames(disk[p]) \subseteq Frames(disk[p])']_vars

\* The pending records are exactly the commands between the journal checkpoint
\* and the project (the assertion in pending_journal_delta, for every record).
JournalFollowsCheckpoint ==
  document # None =>
    LET from == document.journal_checkpoint IN
      /\ Len(document.journal) = Revision(document.project) - from.project_revision
      /\ \A i \in DOMAIN document.journal :
           document.journal[i] =
             [sequence |-> from.through_sequence + i,
              result   |-> SubSeq(document.project, 1, from.project_revision + i)]

\* The revision guard: a document without unsaved edits holds what the save that
\* marked it wrote, not only a project of the same revision.
SavedMarkIsContent ==
  document # None /\ ~SessionDirty(document) => document.saved_project = document.project

\* The journal cursor moves only over records that are durable where the
\* document's recovery will look for them.
AcknowledgedFramesAreDurable ==
  [][document # None /\ document' # None /\ installs' = installs =>
       \A f \in ToSet(document.journal) \ ToSet(document'.journal) :
         document'.files # None /\ f \in Frames(disk[document.files])']_vars

\* ProjectReplacementDisposition::Clean: "The installed project and durable
\* workspace match their last save."
CleanDocumentsMatchTheirLastSave ==
  document # None /\ ~Dirty(document) /\ saves = {}
    => disk[document.files].primary = document.project

\* Opening the document's package again replays "every verified journal record
\* that extends" its snapshot, so it brings back all that was acknowledged.
AcknowledgedWorkIsRecoverable ==
  document # None /\ document.identity = "primary" /\ saves = {} =>
    LET package == disk[document.files] IN
      IsPrefix(SubSeq(document.project, 1, document.journal_checkpoint.project_revision),
               Replayed(Frames(package), package.primary))

=============================================================================
