----------------------------- MODULE PurgeStore -----------------------------
(***************************************************************************)
(* Physical cleanup of one authorized purge over the object store          *)
(* (purge_cleanup.rs).  resume_purge_cleanup advances a journal of SQLite  *)
(* rows by one step per call: it builds replacements for packs that also   *)
(* hold retained objects, commits the absence of the whole inventory, and  *)
(* only then unlinks files, each behind a durable unlink intent.           *)
(*                                                                         *)
(* A resume that its authorization checks refuse (manifest head, catalog   *)
(* fingerprint, a retained reference) is a call that changes nothing, so   *)
(* it is a step not taken here; what can make the checks refuse is the     *)
(* subject of PurgeLifecycle.  Maintenance of packs never runs beside an   *)
(* unfinished purge: its only callers recover the purge first.             *)
(***************************************************************************)
EXTENDS ObjectStore

CONSTANT RecoverFirst  \* TRUE: no put runs beside an unfinished purge either

ASSUME RecoverFirstAssumption == RecoverFirst \in BOOLEAN

VARIABLES
  phase,       \* purge_operations.state, "none" before authorization
  targets,     \* purge_objects
  planned,     \* the locations the authorized preview committed to
  published,   \* the manifest event that authenticates the inventory
  packWork,    \* purge_pack_work and the file rows of both its files
  replacement, \* purge_pack_work.replacement_pack_id
  looseWork,   \* purge_file_work of loose files
  replacing,   \* the mixed pack whose replacement is being written
  unlinked     \* entries unlinked by this call, directory not yet synced

journal == <<phase, targets, planned, published, packWork, replacement, looseWork>>
purgeVars == <<journal, replacing, unlinked>>
allVars == <<vars, purgeVars>>

Phases == {"none", "authorized", "repacking", "cleaning", "succeeded"}
Unfinished == phase \in {"authorized", "repacking", "cleaning"}

PurgeTypeOK ==
  /\ TypeOK
  /\ phase \in Phases
  /\ targets \subseteq Object
  /\ planned \in [loose : SUBSET Object, packs : SUBSET Pack]
  /\ published \in BOOLEAN
  /\ packWork \in [Pack -> {"none", "planned", "pending", "ready", "unlinking", "retired"}]
  /\ replacement \in [Pack -> Pack \cup {0}]
  /\ looseWork \in [Object -> {"none", "pending", "unlinking", "retired"}]
  /\ replacing \in Pack \cup {0}
  /\ unlinked \subseteq Entry

PurgeInit ==
  /\ Init
  /\ phase = "none"
  /\ targets = {}
  /\ planned = [loose |-> {}, packs |-> {}]
  /\ published = FALSE
  /\ packWork = [g \in Pack |-> "none"]
  /\ replacement = [g \in Pack |-> 0]
  /\ looseWork = [o \in Object |-> "none"]
  /\ replacing = 0
  /\ unlinked = {}

-----------------------------------------------------------------------------
(* Authorization and the journal's preparation.                            *)

Quiet == op = Idle /\ unlinked = {}

\* compute_purge_preview, its physical half: where the targets are.
Preview(T) ==
  [loose |-> {o \in T : looseRow[o] = "verified"},
   packs |-> {g \in Pack : packs[g].state = "verified" /\ packs[g].live \cap T # {}}]

\* PurgeObjectUnavailable and the pack-count checks of the preview.
Previewable(T) ==
  /\ T # {} /\ T \subseteq content
  /\ \A o \in T : HasLocation(o)
  /\ \A g \in Preview(T).packs : packs[g].live = packs[g].objects

\* Mutant: what a mixed pack retains is overlooked.
RetainedNothing(g) == packs[g].objects \ packs[g].objects

Retained(g) == packs[g].objects \ targets

Authorize(T) ==
  /\ Quiet /\ phase = "none"
  /\ Previewable(T)
  /\ phase' = "authorized"
  /\ targets' = T
  /\ planned' = Preview(T)
  /\ packWork' = [g \in Pack |-> IF g \in Preview(T).packs THEN "planned" ELSE "none"]
  /\ UNCHANGED <<vars, published, replacement, looseWork, replacing, unlinked>>

\* append_purge_manifest: the event is installed and its directory synced.
Publish ==
  /\ Quiet /\ phase = "authorized" /\ ~published
  /\ Preview(targets) = planned /\ Previewable(targets)
  /\ published' = TRUE
  /\ UNCHANGED <<vars, phase, targets, planned, packWork, replacement,
                 looseWork, replacing, unlinked>>

\* prepare_purge_file_work: every file of the inventory is read back before
\* the journal takes it over.
Prepare ==
  /\ Quiet /\ phase = "authorized" /\ published
  /\ Preview(targets) = planned /\ Previewable(targets)
  /\ \A o \in planned.loose : LooseReadable(o)
  /\ \A g \in planned.packs : PackFilesPresent(g)
  /\ phase' = "repacking"
  /\ looseWork' = [o \in Object |->
                     IF o \in planned.loose THEN "pending" ELSE looseWork[o]]
  /\ packWork' = [g \in Pack |->
                    IF packWork[g] = "planned" THEN "pending" ELSE packWork[g]]
  /\ UNCHANGED <<vars, targets, planned, published, replacement, replacing, unlinked>>

-----------------------------------------------------------------------------
(* Repacking.                                                              *)

\* Mutant: a work state the journal does not know.
MarkWholePackDone(g) ==
  /\ Quiet /\ phase = "repacking"
  /\ packWork[g] = "pending" /\ Retained(g) = {}
  /\ packWork' = [packWork EXCEPT ![g] = "whole-ready"]
  /\ UNCHANGED <<vars, phase, targets, planned, published, replacement,
                 looseWork, replacing, unlinked>>

MarkWholePackReady(g) ==
  /\ Quiet /\ phase = "repacking"
  /\ packWork[g] = "pending" /\ Retained(g) = {}
  /\ packs[g].state = "verified" /\ PackFilesPresent(g)
  /\ packWork' = [packWork EXCEPT ![g] = "ready"]
  /\ UNCHANGED <<vars, phase, targets, planned, published, replacement,
                 looseWork, replacing, unlinked>>

NoWholePackPending ==
  \A g \in Pack : packWork[g] = "pending" => Retained(g) # {}

\* replace_next_mixed_pack up to the first file of the replacement.
ReplaceMixedPack(old, g) ==
  /\ Quiet /\ phase = "repacking"
  /\ NoWholePackPending
  /\ packWork[old] = "pending"
  /\ Cardinality(Retained(old)) \in 1 .. MaxPackObjects
  /\ packs[old].state = "verified" /\ PackFilesPresent(old)
  /\ packs[old].live = packs[old].objects
  /\ \A o \in Retained(old) : Readable(o)
  /\ WritePack(g, Retained(old))
  /\ replacing' = old
  /\ UNCHANGED <<journal, unlinked>>

\* The activating transaction rechecks the work row and the retained set.
ActivateReplacement(g, S) ==
  /\ replacing # 0
  /\ packWork[replacing] = "pending"
  /\ packs[replacing].live \ targets = S
  /\ ActivatePack(g, S)
  /\ packWork' = [packWork EXCEPT ![replacing] = "ready"]
  /\ replacement' = [replacement EXCEPT ![replacing] = g]
  /\ replacing' = 0
  /\ UNCHANGED <<phase, targets, planned, published, looseWork, unlinked>>

\* validate_replacements and validate_physical_work_snapshot.
ReplacementsHold ==
  \A g \in Pack :
    packWork[g] # "none" =>
      /\ packWork[g] = "ready"
      /\ Retained(g) # {} =>
           LET r == replacement[g]
           IN /\ r \in Pack \ {g}
              /\ packs[r].state = "verified" /\ PackFilesPresent(r)
              /\ packs[r].live \ targets = packs[g].live \ targets

EveryLocationPlanned ==
  /\ \A o \in targets : looseRow[o] = "verified" => looseWork[o] # "none"
  /\ \A g \in Pack : packs[g].live \cap targets # {} => packWork[g] # "none"

\* commit_authorized_absence: one transaction makes the whole inventory
\* absent and every pack it touches obsolete.
CommitAbsence ==
  /\ Quiet /\ phase = "repacking"
  /\ Preview(targets) = planned /\ Previewable(targets)
  /\ ReplacementsHold /\ EveryLocationPlanned
  /\ \A o \in targets : Readable(o)
  /\ phase' = "cleaning"
  /\ absence' = [o \in Object |-> IF o \in targets THEN "unfinished" ELSE absence[o]]
  /\ looseRow' = [o \in Object |->
                    IF o \in targets /\ looseRow[o] = "verified"
                      THEN "obsolete" ELSE looseRow[o]]
  /\ packs' = [g \in Pack |->
                 IF packWork[g] # "none"
                   THEN [state |-> "obsolete", objects |-> packs[g].objects, live |-> {}]
                   ELSE [packs[g] EXCEPT !.live = @ \ targets]]
  /\ UNCHANGED <<content, disk, synced, op, faults, targets, planned, published,
                 packWork, replacement, looseWork, replacing, unlinked>>

-----------------------------------------------------------------------------
(* Cleaning: intent, unlink, directory sync, retirement.                   *)

\* An unlink already started goes first.
NextLoose(o) ==
  /\ looseWork[o] \in {"pending", "unlinking"}
  /\ looseWork[o] = "pending" => \A p \in Object : looseWork[p] # "unlinking"

LooseIntent(o) ==
  /\ Quiet /\ phase = "cleaning"
  /\ NextLoose(o) /\ looseWork[o] = "pending"
  /\ looseRow[o] = "obsolete" /\ Loose(o) \in disk
  /\ looseWork' = [looseWork EXCEPT ![o] = "unlinking"]
  /\ UNCHANGED <<vars, phase, targets, planned, published, packWork,
                 replacement, replacing, unlinked>>

LooseUnlink(o) ==
  /\ Quiet /\ phase = "cleaning"
  /\ looseWork[o] = "unlinking" /\ looseRow[o] = "obsolete"
  /\ Loose(o) \in disk
  /\ disk' = disk \ {Loose(o)}
  /\ unlinked' = {Loose(o)}
  /\ UNCHANGED <<dbVars, synced, op, faults, journal, replacing>>

\* Mutant: the row is retired whether or not the file is gone.
LooseRetireUnseen(o) ==
  /\ Quiet /\ phase = "cleaning"
  /\ looseWork[o] = "unlinking"
  /\ looseWork' = [looseWork EXCEPT ![o] = "retired"]
  /\ UNCHANGED <<vars, phase, targets, planned, published, packWork,
                 replacement, replacing, unlinked>>

\* A file already missing is retired without another look at its directory.
LooseRetire(o) ==
  /\ Quiet /\ phase = "cleaning"
  /\ looseWork[o] = "unlinking" /\ Loose(o) \notin disk
  /\ looseWork' = [looseWork EXCEPT ![o] = "retired"]
  /\ UNCHANGED <<vars, phase, targets, planned, published, packWork,
                 replacement, replacing, unlinked>>

\* Mutant: every target is expected to have had a loose file.
LooseDoneForEveryTarget == \A o \in targets : looseWork[o] = "retired"

LooseDone == \A o \in Object : looseWork[o] \in {"none", "retired"}

PackIntent(g) ==
  /\ Quiet /\ phase = "cleaning" /\ LooseDone
  /\ packWork[g] = "ready" /\ \A h \in Pack : packWork[h] # "unlinking"
  /\ packs[g].state = "obsolete" /\ PackFilesPresent(g)
  /\ packWork' = [packWork EXCEPT ![g] = "unlinking"]
  /\ UNCHANGED <<vars, phase, targets, planned, published, replacement,
                 looseWork, replacing, unlinked>>

\* The index goes before the pack.
PackUnlink(g) ==
  LET index == IndexFile(g, packs[g].objects)
      pack  == PackFile(g, packs[g].objects)
      file  == IF index \in disk THEN index ELSE pack
  IN /\ Quiet /\ phase = "cleaning" /\ LooseDone
     /\ packWork[g] = "unlinking" /\ file \in disk
     /\ disk' = disk \ {file}
     /\ unlinked' = {file}
     /\ UNCHANGED <<dbVars, synced, op, faults, journal, replacing>>

PackRetire(g) ==
  /\ Quiet /\ phase = "cleaning" /\ LooseDone
  /\ packWork[g] = "unlinking"
  /\ {PackFile(g, packs[g].objects), IndexFile(g, packs[g].objects)} \cap disk = {}
  /\ packWork' = [packWork EXCEPT ![g] = "retired"]
  /\ UNCHANGED <<vars, phase, targets, planned, published, replacement,
                 looseWork, replacing, unlinked>>

\* Mutant: the directory is not synced after the unlink.
SyncUnlinkedForgotten ==
  /\ unlinked # {}
  /\ unlinked' = {}
  /\ UNCHANGED <<vars, journal, replacing>>

\* PinnedManagedFile::unlink ends by syncing the file's own directory.
SyncUnlinked ==
  /\ unlinked # {}
  /\ IF \E e \in unlinked : InPackDirectory(e)
       THEN SyncPackDirectory
       ELSE synced' = synced \ unlinked
  /\ unlinked' = {}
  /\ UNCHANGED <<dbVars, disk, op, faults, journal, replacing>>

Finish ==
  /\ Quiet /\ phase = "cleaning" /\ LooseDone
  /\ \A g \in Pack : packWork[g] \in {"none", "retired"}
  /\ \A o \in targets : ~HasLocation(o)
  /\ phase' = "succeeded"
  /\ absence' = [o \in Object |-> IF o \in targets THEN "succeeded" ELSE absence[o]]
  /\ UNCHANGED <<content, looseRow, packs, disk, synced, op, faults, targets,
                 planned, published, packWork, replacement, looseWork,
                 replacing, unlinked>>

-----------------------------------------------------------------------------
ResumeStep ==
  \/ Publish \/ Prepare \/ CommitAbsence \/ SyncUnlinked \/ Finish
  \/ \E g \in Pack :
       \/ MarkWholePackReady(g) \/ PackIntent(g) \/ PackUnlink(g) \/ PackRetire(g)
       \/ \E old \in Pack : ReplaceMixedPack(old, g)
       \/ \E S \in SUBSET Object : ActivateReplacement(g, S)
  \/ \E o \in Object : LooseIntent(o) \/ LooseUnlink(o) \/ LooseRetire(o)
  \/ \E g \in Pack, S \in SUBSET Object :
       /\ replacing # 0
       /\ PersistIndex(g, S) \/ SyncNewPack(g, S)
       /\ UNCHANGED purgeVars

\* The rest of the store, between the calls that advance the purge.
StoreStep ==
  /\ unlinked = {} /\ replacing = 0 /\ UNCHANGED purgeVars
  /\ \/ /\ RecoverFirst => ~Unfinished
        /\ \E o \in Object : PutStep(o)
     \/ /\ ~Unfinished
        /\ \/ \E g \in Pack, S \in SUBSET Object : PackStep(g, S) \/ RetireStep(g, S)
           \/ \E old, g \in Pack : RepackPack(old, g)
           \/ \E g \in Pack : PruneCommit(g) \/ RetireCommit(g)
           \/ \E o \in Object : PruneUnlink(o)
           \/ PruneDone

\* A failure forgets what the call held in memory.
Failure ==
  /\ \/ Abort
     \/ PowerLoss
     \/ /\ unlinked # {} /\ faults.aborts < MaxAborts
        /\ faults' = [faults EXCEPT !.aborts = @ + 1]
        /\ UNCHANGED <<dbVars, disk, synced, op>>
  /\ replacing' = 0 /\ unlinked' = {}
  /\ UNCHANGED journal

PurgeNext ==
  \/ \E T \in SUBSET Object : Authorize(T)
  \/ ResumeStep
  \/ StoreStep
  \/ Failure

PurgeSpec == PurgeInit /\ [][PurgeNext]_allVars

\* Each start of the daemon, and each mutation, resumes the purge until it is
\* done (recover_unfinished_purges, drain_purge).
FairPurgeSpec == PurgeSpec /\ WF_allVars(ResumeStep)

-----------------------------------------------------------------------------
(* Safety and liveness.                                                    *)

\* verify_cleanup_file_rows: what the state of a file's work row says of the
\* file's presence.
PresenceAgrees(work, present) ==
  \/ phase = "repacking" /\ work = "pending" /\ present
  \/ phase = "cleaning" /\ work = "pending" /\ present
  \/ phase = "cleaning" /\ work = "unlinking"
  \/ phase \in {"cleaning", "succeeded"} /\ work = "retired" /\ ~present

Superseded(o) ==
  phase = "succeeded" /\ o \in targets /\ absence[o] = "none"

LooseRowsAgree ==
  \A o \in Object : looseWork[o] # "none" =>
    IF Superseded(o) /\ Loose(o) \in disk
      THEN LooseReadable(o)
      ELSE PresenceAgrees(looseWork[o], Loose(o) \in disk)

\* Both files of a pack are pending until the unlink intent of the group.
FileWork(g) == IF packWork[g] = "ready" THEN "pending" ELSE packWork[g]

PackRowsAgree ==
  \A g \in Pack : packWork[g] # "none" =>
    /\ \A e \in {PackFile(g, packs[g].objects), IndexFile(g, packs[g].objects)} :
         PresenceAgrees(FileWork(g), e \in disk)
    /\ packs[g].state = IF phase = "repacking" THEN "verified" ELSE "obsolete"
    /\ replacement[g] # 0 <=> packWork[g] # "pending" /\ Retained(g) # {}

\* verify_purge_cleanup_state accepts the journal, the files and the rows.
JournalAccepted ==
  /\ phase = "authorized" =>
       /\ \A o \in Object : looseWork[o] = "none"
       /\ \A o \in targets : absence[o] = "none"
  /\ phase \in {"repacking", "cleaning", "succeeded"} =>
       LooseRowsAgree /\ PackRowsAgree
  /\ phase = "repacking" => \E o \in targets : HasLocation(o)
  /\ phase = "cleaning" =>
       \A o \in targets : absence[o] = "unfinished" /\ ~HasLocation(o)
  /\ phase = "succeeded" =>
       \A o \in targets : absence[o] # "none" => ~HasLocation(o)

OneKindOfFault == faults.aborts = 0 \/ faults.losses = 0

\* Verification never calls an unfinished purge inconsistent, whatever call
\* was killed at whatever step, or whenever the power failed; a kill followed
\* by a power failure is what CompletedPurgeDurable is about.
UnfinishedJournalAccepted ==
  Unfinished /\ OneKindOfFault => JournalAccepted

InventoryFiles ==
  {Loose(o) : o \in {p \in Object : looseWork[p] # "none"}}
    \cup UNION {{PackFile(g, packs[g].objects), IndexFile(g, packs[g].objects)} :
                  g \in {h \in Pack : packWork[h] # "none"}}

SucceedsNow == phase # "succeeded" /\ phase' = "succeeded"

\* When the journal says the purge is complete, no file of its inventory is
\* left; and if no call was cut off on the way, no power loss can bring one
\* back: PinnedManagedFile::unlink synced each directory.
CompletedPurgeErased ==
  [][SucceedsNow =>
       /\ OneKindOfFault => InventoryFiles \cap disk = {}
       /\ faults.aborts = 0 => InventoryFiles \cap synced = {}]_allVars

\* The same, with calls cut off: "sync affected directories [...] only then
\* may the product report purge complete" (destructive-purge.md).
CompletedPurgeDurable ==
  [][SucceedsNow => InventoryFiles \cap (disk \cup synced) = {}]_allVars

\* A purge that nothing interferes with completes, whatever calls are killed
\* and whenever the power fails, given room for its replacement packs.
RoomForReplacements ==
  Cardinality({g \in Pack : packs[g].state = "none"})
    >= Cardinality({g \in Pack : packWork[g] # "none" /\ Retained(g) # {}})

PurgeCompletes ==
  (phase = "authorized" /\ RoomForReplacements) ~> (phase = "succeeded")
=============================================================================
