----------------------------- MODULE ObjectStore -----------------------------
(***************************************************************************)
(* The content-addressed object store of wikisync-store: canonical objects *)
(* as loose files and as packs, the SQLite rows that say which             *)
(* representation is verified, and the one writer that moves objects       *)
(* between them.  Every operation is split where it is durable: a file     *)
(* rename, a directory sync, a transaction commit, an unlink.  The process *)
(* may die between any two of these, and so may the machine.               *)
(*                                                                         *)
(* A pack is named by its generation.  Its two files are named, as in the  *)
(* code, by their content: generation and object set.                      *)
(***************************************************************************)
EXTENDS Naturals, FiniteSets

CONSTANTS
  Object,           \* content-object identities
  MaxPacks,         \* bound: pack generations explored
  MaxPackObjects,   \* config.max_pack_objects
  MaxAborts,        \* bound: failed or killed operations explored
  MaxLosses,        \* bound: power losses explored
  OrderedMetadata   \* TRUE: syncing a new directory also makes its own entry
                    \* in the parent durable (journalling file systems);
                    \* FALSE: only what POSIX promises for fsync of a directory

ASSUME BoundsAssumption ==
  /\ MaxPacks \in Nat
  /\ MaxPackObjects \in Nat \ {0}
  /\ MaxAborts \in Nat
  /\ MaxLosses \in Nat
  /\ OrderedMetadata \in BOOLEAN

Pack == 1 .. MaxPacks

VARIABLES
  content,    \* object IDs with a 'verified' content_objects row
  looseRow,   \* state of the loose object_locations row of each object
  packs,      \* packs row: state, the objects written, and the objects whose
              \* object_locations row in this pack is still 'verified'
  absence,    \* unsuperseded purge_authorized_absences row of each object:
              \* none, of an unfinished purge, or of a succeeded one
  disk,       \* directory entries a process sees
  synced,     \* directory entries that survive a power loss
  op,         \* the write operation in progress and where it is
  faults      \* failures so far, to bound the exploration

dbVars == <<content, looseRow, packs, absence>>
vars == <<content, looseRow, packs, absence, disk, synced, op, faults>>

-----------------------------------------------------------------------------
(* Names of files, and the state of the writer. *)

Entry == [kind : {"shard", "loose", "pack", "index"},
          gen  : Nat,
          objs : SUBSET Object]

\* objects/loose/b3/<xx>/<yy>: the directory a loose file lives in.
Shard(o) == [kind |-> "shard", gen |-> 0, objs |-> {o}]
Loose(o) == [kind |-> "loose", gen |-> 0, objs |-> {o}]
PackFile(g, S)  == [kind |-> "pack",  gen |-> g, objs |-> S]
IndexFile(g, S) == [kind |-> "index", gen |-> g, objs |-> S]

InPackDirectory(e) == e.kind \in {"pack", "index"}

Steps == {"idle", "put-persisted", "put-synced",
          "pack-persisted", "index-persisted", "packs-synced",
          "pruning", "retire-pack", "retire-index", "retire-sync"}

OpState == [at : Steps, pack : Pack \cup {0}, objs : SUBSET Object]

Idle == [at |-> "idle", pack |-> 0, objs |-> {}]
At(step, g, S) == [at |-> step, pack |-> g, objs |-> S]

RowState == {"none", "verified", "obsolete"}
PackRow  == [state : RowState, objects : SUBSET Object, live : SUBSET Object]

TypeOK ==
  /\ content \subseteq Object
  /\ looseRow \in [Object -> RowState]
  /\ packs \in [Pack -> PackRow]
  /\ absence \in [Object -> {"none", "unfinished", "succeeded"}]
  /\ disk \subseteq Entry
  /\ synced \subseteq Entry
  /\ op \in OpState
  /\ faults \in [aborts : 0 .. MaxAborts, losses : 0 .. MaxLosses]

Init ==
  /\ content = {}
  /\ looseRow = [o \in Object |-> "none"]
  /\ packs = [g \in Pack |-> [state |-> "none", objects |-> {}, live |-> {}]]
  /\ absence = [o \in Object |-> "none"]
  /\ disk = {}
  /\ synced = {}
  /\ op = Idle
  /\ faults = [aborts |-> 0, losses |-> 0]

-----------------------------------------------------------------------------
(* Reading.  read_object tries every verified location until one answers. *)

LooseReadable(o) ==
  /\ looseRow[o] = "verified"
  /\ {Shard(o), Loose(o)} \subseteq disk

PackFilesPresent(g) ==
  {PackFile(g, packs[g].objects), IndexFile(g, packs[g].objects)} \subseteq disk

PackReadable(g, o) ==
  /\ packs[g].state = "verified"
  /\ o \in packs[g].live
  /\ PackFilesPresent(g)

Readable(o) ==
  /\ o \in content
  /\ \/ LooseReadable(o)
     \/ \E g \in Pack : PackReadable(g, o)

\* A verified location other than one in pack g answers.
ReadableWithout(g, o) ==
  /\ o \in content
  /\ \/ LooseReadable(o)
     \/ \E h \in Pack \ {g} : PackReadable(h, o)

-----------------------------------------------------------------------------
(* put_reader: rename, directory sync and rows, in one write transaction. *)

\* Mutant: an unfinished purge does not block rehydration.
PutPersistUnchecked(o) ==
  /\ op = Idle
  /\ disk' = disk \cup {Shard(o), Loose(o)}
  /\ op' = At("put-persisted", 0, {o})
  /\ UNCHANGED <<dbVars, synced, faults>>

\* The transaction opens on the absence check and the temporary file takes
\* its content-derived name, over whatever is there.
PutPersist(o) ==
  /\ op = Idle
  /\ absence[o] # "unfinished"
  /\ disk' = disk \cup {Shard(o), Loose(o)}
  /\ op' = At("put-persisted", 0, {o})
  /\ UNCHANGED <<dbVars, synced, faults>>

\* Mutant: the directory sync before the rows is forgotten.
PutSyncForgotten(o) ==
  /\ op = At("put-persisted", 0, {o})
  /\ op' = At("put-synced", 0, {o})
  /\ UNCHANGED <<dbVars, disk, synced, faults>>

PutSync(o) ==
  /\ op = At("put-persisted", 0, {o})
  /\ synced' = synced \cup {Loose(o)}
                      \cup (IF OrderedMetadata THEN {Shard(o)} ELSE {})
  /\ op' = At("put-synced", 0, {o})
  /\ UNCHANGED <<dbVars, disk, faults>>

PutCommit(o) ==
  /\ op = At("put-synced", 0, {o})
  /\ content' = content \cup {o}
  /\ looseRow' = [looseRow EXCEPT ![o] = "verified"]
  /\ absence' = [absence EXCEPT ![o] = IF @ = "succeeded" THEN "none" ELSE @]
  /\ op' = Idle
  /\ UNCHANGED <<packs, disk, synced, faults>>

-----------------------------------------------------------------------------
(* activate_pack_sources: write pack and index, sync, verify, commit rows. *)

\* generation = MAX(generation) + 1; rows are never deleted.
NextGeneration(g) ==
  /\ packs[g].state = "none"
  /\ \A h \in Pack : h < g => packs[h].state # "none"

WritePack(g, S) ==
  /\ NextGeneration(g)
  /\ disk' = disk \cup {PackFile(g, S)}
  /\ op' = At("pack-persisted", g, S)
  /\ UNCHANGED <<dbVars, synced, faults>>

\* Loose objects no verified pack holds yet.  Which of them fit the object
\* and byte limits is left open.
PackCandidates ==
  {o \in content : /\ looseRow[o] = "verified"
                   /\ ~\E g \in Pack : /\ packs[g].state = "verified"
                                       /\ o \in packs[g].live}

PackLooseObjects(g, S) ==
  /\ op = Idle
  /\ S # {} /\ S \subseteq PackCandidates
  /\ Cardinality(S) <= MaxPackObjects
  /\ \A o \in S : LooseReadable(o)
  /\ WritePack(g, S)

RepackPack(old, g) ==
  /\ op = Idle
  /\ packs[old].state = "verified" /\ PackFilesPresent(old)
  /\ Cardinality(packs[old].objects) <= MaxPackObjects
  /\ packs[old].live = packs[old].objects
  /\ \A o \in packs[old].live : Readable(o)
  /\ WritePack(g, packs[old].live)

PersistIndex(g, S) ==
  /\ op = At("pack-persisted", g, S)
  /\ disk' = disk \cup {IndexFile(g, S)}
  /\ op' = At("index-persisted", g, S)
  /\ UNCHANGED <<dbVars, synced, faults>>

\* Mutant: the directory is never synced.
SyncPackFilesOnly == UNCHANGED synced

\* sync_directory(objects/packs): every pending change of the directory.
SyncPackDirectory ==
  synced' = {e \in synced : ~InPackDirectory(e)}
            \cup {e \in disk : InPackDirectory(e)}

SyncNewPack(g, S) ==
  /\ op = At("index-persisted", g, S)
  /\ SyncPackDirectory
  /\ op' = At("packs-synced", g, S)
  /\ UNCHANGED <<dbVars, disk, faults>>

\* The pack as the activating transaction leaves it.
Activated(g, S) ==
  [packs EXCEPT ![g] = [state |-> "verified", objects |-> S, live |-> S]]

ActivatePack(g, S) ==
  /\ op = At("packs-synced", g, S)
  /\ {PackFile(g, S), IndexFile(g, S)} \subseteq disk
  /\ packs' = Activated(g, S)
  /\ op' = Idle
  /\ UNCHANGED <<content, looseRow, absence, disk, synced, faults>>

-----------------------------------------------------------------------------
(* prune_packed_loose_objects: rows first, then the files, unsynced. *)

PruneCommit(g) ==
  LET pruned == {o \in packs[g].live : looseRow[o] = "verified"}
  IN /\ op = Idle
     /\ packs[g].state = "verified" /\ PackFilesPresent(g)
     /\ looseRow' = [o \in Object |->
                       IF o \in pruned THEN "obsolete" ELSE looseRow[o]]
     /\ op' = At("pruning", g, pruned)
     /\ UNCHANGED <<content, packs, absence, disk, synced, faults>>

PruneUnlink(o) ==
  /\ op.at = "pruning" /\ o \in op.objs
  /\ disk' = disk \ {Loose(o)}
  /\ op' = [op EXCEPT !.objs = @ \ {o}]
  /\ UNCHANGED <<dbVars, synced, faults>>

PruneDone ==
  /\ op.at = "pruning" /\ op.objs = {}
  /\ op' = Idle
  /\ UNCHANGED <<dbVars, disk, synced, faults>>

-----------------------------------------------------------------------------
(* retire_pack: every object must be readable elsewhere, then rows, files,  *)
(* directory sync.                                                         *)

RetireCommit(g) ==
  /\ op = Idle
  /\ packs[g].state = "verified"
  /\ packs[g].live = packs[g].objects
  /\ \A o \in packs[g].live : ReadableWithout(g, o)
  /\ packs' = [packs EXCEPT ![g] =
                 [state |-> "obsolete", objects |-> @.objects, live |-> {}]]
  /\ op' = At("retire-pack", g, packs[g].objects)
  /\ UNCHANGED <<content, looseRow, absence, disk, synced, faults>>

RetireUnlinkPack(g, S) ==
  /\ op = At("retire-pack", g, S)
  /\ disk' = disk \ {PackFile(g, S)}
  /\ op' = At("retire-index", g, S)
  /\ UNCHANGED <<dbVars, synced, faults>>

RetireUnlinkIndex(g, S) ==
  /\ op = At("retire-index", g, S)
  /\ disk' = disk \ {IndexFile(g, S)}
  /\ op' = At("retire-sync", g, S)
  /\ UNCHANGED <<dbVars, synced, faults>>

RetireSync(g, S) ==
  /\ op = At("retire-sync", g, S)
  /\ SyncPackDirectory
  /\ op' = Idle
  /\ UNCHANGED <<dbVars, disk, faults>>

-----------------------------------------------------------------------------
(* The process dies or an operation returns an error: the open transaction  *)
(* rolls back, committed rows and directory entries stay.                  *)

Abort ==
  /\ op # Idle
  /\ faults.aborts < MaxAborts
  /\ faults' = [faults EXCEPT !.aborts = @ + 1]
  /\ op' = Idle
  /\ UNCHANGED <<dbVars, disk, synced>>

\* The machine stops: SQLite (synchronous = FULL) keeps every commit; any
\* subset of the directory changes since the last sync reached the disk, and
\* a loose file is gone with its shard directory.
PowerLoss ==
  /\ faults.losses < MaxLosses
  /\ faults' = [faults EXCEPT !.losses = @ + 1]
  /\ \E kept \in SUBSET ((disk \ synced) \cup (synced \ disk)) :
    LET entries == (disk \cap synced) \cup kept
        survive == {e \in entries :
                      e.kind = "loose" => [e EXCEPT !.kind = "shard"] \in entries}
    IN /\ disk' = survive
       /\ synced' = survive
       /\ op' = Idle
       /\ UNCHANGED dbVars

-----------------------------------------------------------------------------
PutStep(o) == PutPersist(o) \/ PutSync(o) \/ PutCommit(o)

PackStep(g, S) ==
  PackLooseObjects(g, S) \/ PersistIndex(g, S) \/ SyncNewPack(g, S)
    \/ ActivatePack(g, S)

RetireStep(g, S) ==
  RetireUnlinkPack(g, S) \/ RetireUnlinkIndex(g, S) \/ RetireSync(g, S)

Next ==
  \/ \E o \in Object : PutStep(o) \/ PruneUnlink(o)
  \/ \E g \in Pack, S \in SUBSET Object : PackStep(g, S) \/ RetireStep(g, S)
  \/ \E old, g \in Pack : RepackPack(old, g)
  \/ \E g \in Pack : PruneCommit(g) \/ RetireCommit(g)
  \/ PruneDone
  \/ Abort
  \/ PowerLoss

Spec == Init /\ [][Next]_vars

-----------------------------------------------------------------------------
(* Safety. *)

\* A verified loose row never points at a file a power loss could take: the
\* store "syncs the canonical path before any verified location becomes
\* visible" (put_reader).
LooseRowDurable ==
  \A o \in Object :
    looseRow[o] = "verified" => {Shard(o), Loose(o)} \subseteq disk \cap synced

\* A pack is active only while both of its files are durable, whatever was
\* interrupted before the activating commit or after the retiring one.
PackRowDurable ==
  \A g \in Pack :
    packs[g].state = "verified" =>
      {PackFile(g, packs[g].objects), IndexFile(g, packs[g].objects)}
        \subseteq disk \cap synced

\* A power loss at any moment leaves every verified row with its files.
RowsDurable == LooseRowDurable /\ PackRowDurable

\* No captured object is ever unreadable without an authorized absence,
\* through packing, pruning, repacking, retiring and any crash between.
CapturedReadable ==
  \A o \in content : absence[o] = "none" => Readable(o)

\* The store implements the archive: only a committed put and an authorized
\* purge change what can be read.
Promise == INSTANCE Archive
  WITH held   <- {o \in Object : Readable(o)},
       absent <- {o \in Object : absence[o] # "none"}

ImplementsArchive == Promise!Spec

-----------------------------------------------------------------------------
(* The inductive invariant: what the rows promise of the files, and what   *)
(* the operation in progress has already made true.                        *)

HasLocation(o) ==
  \/ looseRow[o] = "verified"
  \/ \E g \in Pack : packs[g].state = "verified" /\ o \in packs[g].live

\* A put owns its path from the rename on, and its absence check stays true.
PutProgress ==
  op.at \in {"put-persisted", "put-synced"} =>
    \A o \in op.objs :
      /\ absence[o] # "unfinished"
      /\ {Shard(o), Loose(o)} \subseteq disk
      /\ op.at = "put-synced" => {Shard(o), Loose(o)} \subseteq synced

\* A pack being written has no row yet, and holds only objects that are
\* held elsewhere.
PackProgress ==
  op.at \in {"pack-persisted", "index-persisted", "packs-synced"} =>
    LET new == {PackFile(op.pack, op.objs), IndexFile(op.pack, op.objs)}
    IN /\ op.pack \in Pack /\ packs[op.pack].state = "none"
       /\ op.objs \subseteq content
       /\ \A o \in op.objs : HasLocation(o)
       /\ PackFile(op.pack, op.objs) \in disk
       /\ op.at # "pack-persisted" => new \subseteq disk
       /\ op.at = "packs-synced" => new \subseteq synced

\* Files are unlinked only once no row names them.
UnlinkProgress ==
  /\ op.at = "pruning" => \A o \in op.objs : looseRow[o] # "verified"
  /\ op.at \in {"retire-pack", "retire-index", "retire-sync"} =>
       op.pack \in Pack /\ packs[op.pack].state = "obsolete"

CapturedLocated ==
  \A o \in content : absence[o] = "none" => HasLocation(o)

IInv ==
  /\ TypeOK
  /\ LooseRowDurable
  /\ PackRowDurable
  /\ PutProgress
  /\ PackProgress
  /\ UnlinkProgress
  /\ CapturedLocated

=============================================================================
