-------------------------- MODULE ObjectStoreProofs --------------------------
(***************************************************************************)
(* Proofs about the files of the store, objects and manifests, for any     *)
(* set of them and any number of failures.                                 *)
(*                                                                         *)
(* ObjectStore: they assume a file system on which syncing a new directory *)
(* also makes its entry in the parent durable; without that assumption TLC *)
(* finds a committed object that a power loss takes.                       *)
(*                                                                         *)
(* ManifestFiles: the chain is kept whole because a root is renamed only   *)
(* when its shards are durable (Durable), and says what the runs captured  *)
(* because the draft does (DraftSays): it has read every key of a kind up  *)
(* to the last, in order and none twice, in a catalogue that cannot change *)
(* while its process holds the lock.                                       *)
(***************************************************************************)
EXTENDS ObjectStore, ManifestFiles, FiniteSetTheorems, SequenceTheorems, TLAPS

USE DEF Pack

\* The names of the entries are pairwise distinct.
LEMMA EntryNames ==
  /\ \A o \in Object : Shard(o) \in Entry /\ Loose(o) \in Entry
  /\ \A g \in Pack, S \in SUBSET Object :
       PackFile(g, S) \in Entry /\ IndexFile(g, S) \in Entry
  /\ \A o, p : Loose(o) # Shard(p) /\ (Loose(o) = Loose(p) => o = p)
  /\ \A o, g, S : /\ Loose(o) # PackFile(g, S) /\ Loose(o) # IndexFile(g, S)
                  /\ Shard(o) # PackFile(g, S) /\ Shard(o) # IndexFile(g, S)
  /\ \A g, h, S, T : /\ PackFile(g, S) # IndexFile(h, T)
                     /\ PackFile(g, S) = PackFile(h, T) => g = h
                     /\ IndexFile(g, S) = IndexFile(h, T) => g = h
  /\ \A o : ~InPackDirectory(Loose(o)) /\ ~InPackDirectory(Shard(o))
  /\ \A g, S : InPackDirectory(PackFile(g, S)) /\ InPackDirectory(IndexFile(g, S))
<1>1. ASSUME NEW o, NEW p, Loose(o) = Loose(p) PROVE o = p
  <2>1. Loose(o).objs = Loose(p).objs
    BY <1>1
  <2>2. QED
    BY <2>1 DEF Loose
<1>2. QED
  BY <1>1, SMT DEF Entry, Shard, Loose, PackFile, IndexFile, InPackDirectory

-----------------------------------------------------------------------------
LEMMA InitInv == Init => IInv
BY BoundsAssumption
   DEF Init, IInv, TypeOK, Idle, OpState, Steps, RowState, PackRow,
       LooseRowDurable, PackRowDurable, PutProgress, PackProgress,
       UnlinkProgress, CapturedLocated

LEMMA PutInv ==
  ASSUME OrderedMetadata, IInv, NEW o \in Object, PutStep(o)
  PROVE  IInv'
<1> USE BoundsAssumption DEF IInv, At, Idle
<1>1. CASE PutPersist(o)
  <2>1. TypeOK'
    BY <1>1, EntryNames DEF PutPersist, TypeOK, OpState, Steps, dbVars
  <2>2. QED
    BY <1>1, <2>1, EntryNames
       DEF PutPersist, dbVars, LooseRowDurable, PackRowDurable, PutProgress,
           PackProgress, UnlinkProgress, CapturedLocated, HasLocation
<1>2. CASE PutSync(o)
  <2>1. TypeOK'
    BY <1>2, EntryNames DEF PutSync, TypeOK, OpState, Steps, dbVars
  <2>2. QED
    BY <1>2, <2>1, EntryNames
       DEF PutSync, dbVars, LooseRowDurable, PackRowDurable, PutProgress,
           PackProgress, UnlinkProgress, CapturedLocated, HasLocation
<1>3. CASE PutCommit(o)
  <2>1. TypeOK'
    BY <1>3 DEF PutCommit, TypeOK, OpState, Steps, RowState
  <2>2. QED
    BY <1>3, <2>1
       DEF PutCommit, TypeOK, LooseRowDurable, PackRowDurable, PutProgress,
           PackProgress, UnlinkProgress, CapturedLocated, HasLocation
<1>4. QED
  BY <1>1, <1>2, <1>3 DEF PutStep

\* Writing the first file of a pack: shared by packing and repacking.
LEMMA WritePackInv ==
  ASSUME IInv, op = Idle, NEW g \in Pack, NEW S \in SUBSET content,
         \A o \in S : HasLocation(o), WritePack(g, S)
  PROVE  IInv'
<1> USE BoundsAssumption DEF IInv, At, Idle, WritePack, dbVars
<1>1. packs[g].state = "none" /\ S \in SUBSET Object
  BY DEF NextGeneration, TypeOK
<1>2. TypeOK'
  BY <1>1, EntryNames DEF TypeOK, OpState, Steps
<1>3. LooseRowDurable' /\ PackRowDurable' /\ CapturedLocated'
  BY DEF LooseRowDurable, PackRowDurable, CapturedLocated, HasLocation
<1>4. PutProgress' /\ UnlinkProgress'
  BY DEF PutProgress, UnlinkProgress
<1>5. PackProgress'
  BY <1>1 DEF PackProgress, HasLocation
<1>6. QED
  BY <1>2, <1>3, <1>4, <1>5

\* What can be read has a verified location.
LEMMA ReadableLocated ==
  ASSUME NEW o, Readable(o)
  PROVE  o \in content /\ HasLocation(o)
BY DEF Readable, HasLocation, LooseReadable, PackReadable

LEMMA PackInv ==
  ASSUME OrderedMetadata, IInv, NEW g \in Pack, NEW S \in SUBSET Object,
         PackStep(g, S)
  PROVE  IInv'
<1> USE BoundsAssumption DEF IInv, At, Idle
<1>1. CASE PackLooseObjects(g, S)
  BY <1>1, WritePackInv DEF PackLooseObjects, PackCandidates, HasLocation
<1>2. CASE PersistIndex(g, S)
  <2>1. TypeOK'
    BY <1>2, EntryNames DEF PersistIndex, TypeOK, OpState, Steps, dbVars
  <2>2. QED
    BY <1>2, <2>1
       DEF PersistIndex, dbVars, LooseRowDurable, PackRowDurable, PutProgress,
           PackProgress, UnlinkProgress, CapturedLocated, HasLocation
<1>3. CASE SyncNewPack(g, S)
  <2>1. TypeOK'
    BY <1>3 DEF SyncNewPack, SyncPackDirectory, TypeOK, OpState, Steps, dbVars
  <2>2. LooseRowDurable' /\ PackRowDurable'
    BY <1>3, EntryNames
       DEF SyncNewPack, SyncPackDirectory, dbVars, LooseRowDurable,
           PackRowDurable
  <2>3. PackProgress'
    BY <1>3, EntryNames
       DEF SyncNewPack, SyncPackDirectory, dbVars, PackProgress, HasLocation
  <2>4. QED
    BY <1>3, <2>1, <2>2, <2>3
       DEF SyncNewPack, dbVars, PutProgress, UnlinkProgress, CapturedLocated,
           HasLocation
<1>4. CASE ActivatePack(g, S)
  <2> USE <1>4 DEF ActivatePack, Activated
  <2>1. TypeOK'
    BY DEF TypeOK, OpState, Steps, PackRow, RowState
  <2>2. /\ packs[g].state = "none"
        /\ {PackFile(g, S), IndexFile(g, S)} \subseteq disk \cap synced
    BY DEF PackProgress
  <2>3. LooseRowDurable' /\ PackRowDurable'
    BY <2>2 DEF LooseRowDurable, PackRowDurable, TypeOK
  <2>4. CapturedLocated'
    BY <2>2 DEF CapturedLocated, HasLocation, TypeOK
  <2>5. QED
    BY <2>1, <2>3, <2>4 DEF PutProgress, PackProgress, UnlinkProgress
<1>5. QED
  BY <1>1, <1>2, <1>3, <1>4 DEF PackStep

LEMMA RepackInv ==
  ASSUME IInv, NEW old \in Pack, NEW g \in Pack, RepackPack(old, g)
  PROVE  IInv'
<1>1. \A o \in packs[old].live : o \in content /\ HasLocation(o)
  BY ReadableLocated DEF RepackPack
<1>2. QED
  BY <1>1, WritePackInv DEF RepackPack

LEMMA PruneInv ==
  ASSUME IInv
  PROVE  /\ \A g \in Pack : PruneCommit(g) => IInv'
         /\ \A o \in Object : PruneUnlink(o) => IInv'
         /\ PruneDone => IInv'
<1> USE BoundsAssumption DEF IInv, At, Idle
<1>1. ASSUME NEW g \in Pack, PruneCommit(g) PROVE IInv'
  <2> USE <1>1 DEF PruneCommit
  <2>1. TypeOK'
    BY DEF TypeOK, OpState, Steps, RowState, PackRow
  <2>2. CapturedLocated'
    BY DEF CapturedLocated, HasLocation, TypeOK
  <2>3. LooseRowDurable' /\ PackRowDurable'
    BY DEF LooseRowDurable, PackRowDurable, TypeOK
  <2>4. op'.at = "pruning" /\ \A o \in op'.objs : looseRow'[o] # "verified"
    BY DEF TypeOK, PackRow
  <2>5. PutProgress' /\ PackProgress' /\ UnlinkProgress'
    BY <2>4 DEF PutProgress, PackProgress, UnlinkProgress
  <2>6. QED
    BY <2>1, <2>2, <2>3, <2>5
<1>2. ASSUME NEW o \in Object, PruneUnlink(o) PROVE IInv'
  <2> USE <1>2 DEF PruneUnlink, dbVars
  <2>1. TypeOK'
    BY DEF TypeOK, OpState, Steps
  <2>2. LooseRowDurable'
    BY EntryNames DEF LooseRowDurable, UnlinkProgress
  <2>3. PackRowDurable'
    BY EntryNames DEF PackRowDurable
  <2>4. QED
    BY <2>1, <2>2, <2>3
       DEF PutProgress, PackProgress, UnlinkProgress, CapturedLocated,
           HasLocation, TypeOK, OpState
<1>3. ASSUME PruneDone PROVE IInv'
  BY <1>3
     DEF PruneDone, dbVars, TypeOK, OpState, Steps, LooseRowDurable,
         PackRowDurable, PutProgress, PackProgress, UnlinkProgress,
         CapturedLocated, HasLocation
<1>4. QED
  BY <1>1, <1>2, <1>3

LEMMA RetireCommitInv ==
  ASSUME IInv, NEW g \in Pack, RetireCommit(g)
  PROVE  IInv'
<1> USE BoundsAssumption DEF IInv, At, Idle, RetireCommit
<1>1. TypeOK'
  <2>1. packs[g] \in PackRow /\ packs \in [Pack -> PackRow]
    BY DEF TypeOK
  <2>2. packs' \in [Pack -> PackRow]
    BY <2>1 DEF PackRow, RowState
  <2>3. op' \in OpState
    BY <2>1 DEF PackRow, OpState, Steps
  <2>4. QED
    BY <2>2, <2>3 DEF TypeOK
<1>2. \A o \in packs[g].live :
        \/ looseRow[o] = "verified"
        \/ \E h \in Pack \ {g} : packs[h].state = "verified" /\ o \in packs[h].live
  BY DEF ReadableWithout, LooseReadable, PackReadable
<1>3. CapturedLocated'
  BY <1>2 DEF CapturedLocated, HasLocation, TypeOK
<1>4. LooseRowDurable' /\ PackRowDurable'
  BY DEF LooseRowDurable, PackRowDurable, TypeOK
<1>5. QED
  BY <1>1, <1>3, <1>4 DEF PutProgress, PackProgress, UnlinkProgress, TypeOK

LEMMA RetireInv ==
  ASSUME IInv, NEW g \in Pack, NEW S \in SUBSET Object, RetireStep(g, S)
  PROVE  IInv'
<1> USE BoundsAssumption DEF IInv, At, Idle, dbVars
<1>1. TypeOK'
  BY DEF RetireStep, RetireUnlinkPack, RetireUnlinkIndex, RetireSync,
         SyncPackDirectory, TypeOK, OpState, Steps
<1>2. LooseRowDurable'
  BY EntryNames
     DEF RetireStep, RetireUnlinkPack, RetireUnlinkIndex, RetireSync,
         SyncPackDirectory, LooseRowDurable
<1>3. PackRowDurable'
  <2>1. packs[g].state = "obsolete"
    BY DEF RetireStep, RetireUnlinkPack, RetireUnlinkIndex, RetireSync,
           UnlinkProgress
  <2>2. QED
    BY <2>1, EntryNames
       DEF RetireStep, RetireUnlinkPack, RetireUnlinkIndex, RetireSync,
           SyncPackDirectory, PackRowDurable
<1>4. PutProgress' /\ PackProgress' /\ UnlinkProgress' /\ CapturedLocated'
  BY DEF RetireStep, RetireUnlinkPack, RetireUnlinkIndex, RetireSync,
         PutProgress, PackProgress, UnlinkProgress, CapturedLocated, HasLocation
<1>5. QED
  BY <1>1, <1>2, <1>3, <1>4

\* Failures keep the rows, and every entry both visible and synced.
LEMMA FailureInv ==
  ASSUME IInv, Abort \/ PowerLoss
  PROVE  IInv'
<1> USE BoundsAssumption DEF IInv, Idle, dbVars
<1>1. CASE Abort
  BY <1>1
     DEF Abort, TypeOK, OpState, Steps, LooseRowDurable, PackRowDurable,
         PutProgress, PackProgress, UnlinkProgress, CapturedLocated, HasLocation
<1>2. CASE PowerLoss
  <2>1. PICK kept \in SUBSET ((disk \ synced) \cup (synced \ disk)) :
          LET entries == (disk \cap synced) \cup kept
              survive == {e \in entries :
                e.kind = "loose" => [e EXCEPT !.kind = "shard"] \in entries}
          IN disk' = survive /\ synced' = survive
    BY <1>2 DEF PowerLoss
  <2>2. TypeOK'
    <3>1. disk' \subseteq Entry /\ synced' \subseteq Entry
      BY <2>1 DEF TypeOK
    <3>2. faults' \in [aborts : 0 .. MaxAborts, losses : 0 .. MaxLosses]
      BY <1>2 DEF PowerLoss, TypeOK
    <3>3. op' \in OpState /\ UNCHANGED dbVars
      BY <1>2 DEF PowerLoss, OpState, Steps
    <3>4. QED
      BY <3>1, <3>2, <3>3 DEF TypeOK
  <2>3. \A o \in Object : {Shard(o), Loose(o)} \subseteq disk \cap synced
          => {Shard(o), Loose(o)} \subseteq disk' \cap synced'
    BY <2>1 DEF Shard, Loose
  <2>4. \A g, S : {PackFile(g, S), IndexFile(g, S)} \subseteq disk \cap synced
          => {PackFile(g, S), IndexFile(g, S)} \subseteq disk' \cap synced'
    BY <2>1 DEF PackFile, IndexFile
  <2>5. LooseRowDurable' /\ PackRowDurable' /\ CapturedLocated'
    BY <1>2, <2>3, <2>4
       DEF PowerLoss, LooseRowDurable, PackRowDurable, CapturedLocated,
           HasLocation
  <2>6. QED
    BY <1>2, <2>2, <2>5 DEF PowerLoss, PutProgress, PackProgress, UnlinkProgress
<1>3. QED
  BY <1>1, <1>2

-----------------------------------------------------------------------------
LEMMA NextInv ==
  ASSUME OrderedMetadata, IInv, [Next]_vars
  PROVE  IInv'
<1>1. CASE UNCHANGED vars
  BY <1>1
     DEF vars, IInv, TypeOK, LooseRowDurable, PackRowDurable, PutProgress,
         PackProgress, UnlinkProgress, CapturedLocated, HasLocation
<1>2. CASE Next
  BY <1>2, PutInv, PackInv, RepackInv, PruneInv, RetireCommitInv, RetireInv,
     FailureInv DEF Next
<1>3. QED
  BY <1>1, <1>2

\* The state stays well typed, the rows name only durable files and the
\* operation in progress keeps its promises, across any failures.
THEOREM Invariance ==
  ASSUME OrderedMetadata
  PROVE  Spec => []IInv
<1>1. IInv /\ [Next]_vars => IInv'
  BY NextInv
<1>2. QED
  BY InitInv, <1>1, PTL DEF Spec

-----------------------------------------------------------------------------
\* A verified location over durable files answers.
LEMMA LocatedReadable ==
  ASSUME IInv, NEW o \in content, HasLocation(o)
  PROVE  Readable(o)
BY DEF IInv, TypeOK, HasLocation, Readable, LooseReadable, PackReadable,
       PackFilesPresent, LooseRowDurable, PackRowDurable

\* The state stays well typed.
THEOREM TypeCorrectness ==
  ASSUME OrderedMetadata
  PROVE  Spec => []TypeOK
<1>1. IInv => TypeOK
  BY DEF IInv
<1>2. QED
  BY <1>1, Invariance, PTL

\* Verified rows, of loose files and of packs, name only durable files.
THEOREM RowDurability ==
  ASSUME OrderedMetadata
  PROVE  Spec => []RowsDurable
<1>1. IInv => RowsDurable
  BY DEF IInv, RowsDurable
<1>2. QED
  BY <1>1, Invariance, PTL

\* A captured object is readable until a purge authorizes its absence.
THEOREM CapturedStaysReadable ==
  ASSUME OrderedMetadata
  PROVE  Spec => []CapturedReadable
<1>1. IInv => CapturedReadable
  BY LocatedReadable DEF IInv, CapturedLocated, CapturedReadable
<1>2. QED
  BY <1>1, Invariance, PTL

-----------------------------------------------------------------------------
(* Refinement: what can be read is what has a verified location, and only  *)
(* a committed put changes that.                                           *)

Located == {o \in content : HasLocation(o)}

LEMMA HeldIsLocated ==
  ASSUME IInv
  PROVE  {o \in Object : Readable(o)} = Located
<1>1. content \subseteq Object
  BY DEF IInv, TypeOK
<1>2. QED
  BY <1>1, ReadableLocated, LocatedReadable DEF Located

LEMMA PutLocated ==
  ASSUME IInv, NEW o \in Object, PutStep(o)
  PROVE  \/ Located' = Located /\ absence' = absence
         \/ /\ Located' = Located \cup {o}
            /\ absence' = [absence EXCEPT ![o] = "none"]
<1>1. CASE PutPersist(o)
  BY <1>1 DEF PutPersist, dbVars, Located, HasLocation
<1>2. CASE PutSync(o)
  BY <1>2 DEF PutSync, dbVars, Located, HasLocation
<1>3. CASE PutCommit(o)
  <2> USE <1>3 DEF PutCommit, IInv, TypeOK
  <2>1. absence[o] \in {"none", "succeeded"}
    BY DEF PutProgress, At
  <2>2. absence' = [absence EXCEPT ![o] = "none"]
    BY <2>1
  <2>3. HasLocation(o)'
    BY DEF HasLocation
  <2>4. \A p \in content : p # o => (HasLocation(p)' <=> HasLocation(p))
    BY DEF HasLocation
  <2>5. QED
    BY <2>2, <2>3, <2>4 DEF Located
<1>4. QED
  BY <1>1, <1>2, <1>3 DEF PutStep

\* Every other step keeps the objects that have a location.
LEMMA OtherLocated ==
  ASSUME IInv, Next, ~\E o \in Object : PutStep(o)
  PROVE  Located' = Located /\ absence' = absence
<1> USE DEF IInv, Located, HasLocation
<1>1. ASSUME NEW o \in Object, PruneUnlink(o) PROVE Located' = Located /\ absence' = absence
  BY <1>1 DEF PruneUnlink, dbVars
<1>2. ASSUME NEW g \in Pack, NEW S \in SUBSET Object, PackStep(g, S)
      PROVE  Located' = Located /\ absence' = absence
  <2>1. CASE ActivatePack(g, S)
    <3>1. /\ packs[g].state = "none" /\ S \subseteq Located
          /\ packs \in [Pack -> PackRow]
      BY <2>1 DEF ActivatePack, At, PackProgress, TypeOK
    <3>2. /\ packs'[g].state = "verified" /\ packs'[g].live = S
          /\ \A h \in Pack \ {g} : packs'[h] = packs[h]
          /\ UNCHANGED <<content, looseRow, absence>>
      BY <2>1, <3>1 DEF ActivatePack, Activated
    <3>3. \A o \in content : HasLocation(o)' <=> HasLocation(o)
      BY <3>1, <3>2
    <3>4. QED
      BY <3>2, <3>3
  <2>2. CASE ~ActivatePack(g, S)
    BY <1>2, <2>2
       DEF PackStep, PackLooseObjects, WritePack, PersistIndex, SyncNewPack, dbVars
  <2>3. QED
    BY <2>1, <2>2
<1>3. ASSUME NEW g \in Pack, NEW S \in SUBSET Object, RetireStep(g, S)
      PROVE  Located' = Located /\ absence' = absence
  BY <1>3 DEF RetireStep, RetireUnlinkPack, RetireUnlinkIndex, RetireSync, dbVars
<1>4. ASSUME NEW old \in Pack, NEW g \in Pack, RepackPack(old, g)
      PROVE  Located' = Located /\ absence' = absence
  BY <1>4 DEF RepackPack, WritePack, dbVars
<1>5. ASSUME NEW g \in Pack, PruneCommit(g)
      PROVE  Located' = Located /\ absence' = absence
  <2>1. \A o \in Object :
          looseRow'[o] = IF o \in packs[g].live /\ looseRow[o] = "verified"
                           THEN "obsolete" ELSE looseRow[o]
    BY <1>5 DEF PruneCommit
  <2>2. packs[g].state = "verified" /\ UNCHANGED <<content, packs, absence>>
    BY <1>5 DEF PruneCommit
  <2>3. \A o \in content : HasLocation(o)' <=> HasLocation(o)
    BY <2>1, <2>2 DEF TypeOK
  <2>4. QED
    BY <2>2, <2>3
<1>6. ASSUME NEW g \in Pack, RetireCommit(g)
      PROVE  Located' = Located /\ absence' = absence
  <2>1. \A o \in packs[g].live :
          \/ looseRow[o] = "verified"
          \/ \E h \in Pack \ {g} :
               packs[h].state = "verified" /\ o \in packs[h].live
    BY <1>6 DEF RetireCommit, ReadableWithout, LooseReadable, PackReadable
  <2>2. /\ packs'[g].state = "obsolete"
        /\ \A h \in Pack \ {g} : packs'[h] = packs[h]
        /\ UNCHANGED <<content, looseRow, absence>>
    BY <1>6 DEF RetireCommit, TypeOK
  <2>3. \A o \in content : HasLocation(o)' <=> HasLocation(o)
    BY <2>1, <2>2
  <2>4. QED
    BY <2>2, <2>3
<1>7. CASE PruneDone \/ Abort \/ PowerLoss
  BY <1>7 DEF PruneDone, Abort, PowerLoss, dbVars
<1>8. QED
  BY <1>1, <1>2, <1>3, <1>4, <1>5, <1>6, <1>7 DEF Next

\* The store implements the archive: only a committed put changes what can
\* be read, and it leaves nothing it holds marked absent.
THEOREM StoreImplementsArchive ==
  ASSUME OrderedMetadata
  PROVE  Spec => ImplementsArchive
<1>1. Init => Promise!Init
  BY DEF Init, Promise!Init, Readable
<1>2. IInv => {o \in Object : Readable(o)} = Located
  BY HeldIsLocated
<1>3. IInv' => ({o \in Object : Readable(o)} = Located)'
  BY <1>2, PTL
<1>4. IInv /\ IInv' /\ [Next]_vars => [Promise!Next]_Promise!vars
  <2> SUFFICES ASSUME IInv, IInv', [Next]_vars
               PROVE  [Promise!Next]_Promise!vars
    OBVIOUS
  <2> DEFINE Held == {o \in Object : Readable(o)}
             Absent == {o \in Object : absence[o] # "none"}
  <2>1. Held = Located /\ Held' = Located'
    BY <1>2, <1>3
  <2>2. CASE UNCHANGED vars
    <3>1. Located' = Located /\ absence' = absence
      BY <2>2 DEF vars, Located, HasLocation
    <3>2. QED
      BY <2>1, <3>1 DEF Promise!vars
  <2>3. ASSUME NEW o \in Object, PutStep(o)
        PROVE  [Promise!Next]_Promise!vars
    <3>1. CASE Located' = Located /\ absence' = absence
      BY <2>1, <3>1 DEF Promise!vars
    <3>2. CASE /\ Located' = Located \cup {o}
               /\ absence' = [absence EXCEPT ![o] = "none"]
      <4>1. Held' = Held \cup {o}
        BY <2>1, <3>2
      <4>2. Absent' = Absent \ {o}
        BY <3>2 DEF IInv, TypeOK
      <4>3. Promise!Capture(o)
        BY <4>1, <4>2 DEF Promise!Capture
      <4>4. QED
        BY <4>3 DEF Promise!Next
    <3>3. QED
      BY <2>3, <3>1, <3>2, PutLocated
  <2>4. CASE Next /\ ~\E o \in Object : PutStep(o)
    <3>1. Located' = Located /\ absence' = absence
      BY <2>4, OtherLocated
    <3>2. QED
      BY <2>1, <3>1 DEF Promise!vars
  <2>5. QED
    BY <2>2, <2>3, <2>4
<1>5. QED
  BY <1>1, <1>4, Invariance, PTL DEF Spec, Promise!Spec, ImplementsArchive

-----------------------------------------------------------------------------
(* The files of manifests. *)

EvidenceKind == {"revisions", "heads"}
Evidence == CapturedRevision \cup (WikiPage \X ({0} \cup CapturedRevision))
Descriptors == [kind : EvidenceKind, entries : Seq(Evidence), ordinal : Nat]
Manifests ==
  [run : Nat, predecessor : Nat, shards : Seq(Descriptors), inline : [EvidenceKind -> Seq(Evidence)],
   media : SUBSET CapturedRevision]
Drafts ==
  [pc : {"read", "install", "sync", "rename", "acknowledge"}, run : Nat, kind : {1, 2}, after : Nat,
   page : Seq(Evidence), root : Manifests]
RunScopes == Collection \cup {WholeWiki}
ManifestTypes ==
  /\ catalogued \subseteq CapturedRevision /\ placed \subseteq catalogued
  /\ currentOf \in [WikiPage -> {0} \cup CapturedRevision]
  /\ members \in [Collection -> [WikiPage -> {"none", "active", "removed"}]]
  /\ manifestRuns \in Seq([scope : RunScopes, state : {"running", "succeeded"}, saw : SUBSET CapturedRevision])
  /\ roots \in Seq(Manifests) /\ rootsSynced \in 0..Len(roots)
  /\ appender \in [Appender -> {Away} \cup Drafts]
  /\ appendStops \in 0..MaxAppendStops

\* The catalogue: the current revision of a page is one of its own, and what a
\* run saw is still in its scope, which pages join and are never taken from.
CatalogueKept ==
  /\ \A p \in WikiPage : currentOf[p] # 0 => currentOf[p] \in catalogued /\ PageOfRevision[currentOf[p]] = p
  /\ \A n \in DOMAIN manifestRuns : manifestRuns[n].saw \subseteq InCatalogue(manifestRuns[n].scope)
\* Runs end in the order they began.
RunsInOrder == \A n \in DOMAIN manifestRuns : n < Len(manifestRuns) => manifestRuns[n].state = "succeeded"

\* A root can be read after any loss of power.
Durable(root) ==
  \A i \in DOMAIN root.shards :
    /\ [kind |-> root.shards[i].kind, entries |-> root.shards[i].entries] \in shardsSynced
    /\ Ascends(root.shards[i].kind, root.shards[i].entries)
ChainLink(n) ==
  /\ n \in DOMAIN manifestRuns /\ manifestRuns[n].state = "succeeded"
  /\ roots[n].run = n /\ roots[n].predecessor = n - 1
  /\ Decodes(roots[n]) /\ Durable(roots[n])
  /\ EntriesOf(roots[n], "revisions") \cap ClaimedBy(n - 1) = {}
  /\ manifestRuns[n].saw \subseteq ClaimedBy(n)
  /\ \A head \in EntriesOf(roots[n], "heads") : head[2] \in {0} \cup ClaimedBy(n)
  /\ roots[n].media \subseteq ClaimedBy(n)
ChainKept == \A n \in DOMAIN roots : ChainLink(n)
ChainFilesKept ==
  /\ shardsSynced \subseteq shards
  /\ acknowledged \subseteq 1..rootsSynced

\* The entries of a scope whose keys satisfy the bounds.
EntriesUpTo(kind, scope, last) == {EntryOf(kind, k) : k \in {k \in KeysOf(kind, scope) : k <= last}}
AllEntries(kind, scope) == {EntryOf(kind, k) : k \in KeysOf(kind, scope)}
InShards(root, kind) == UNION {Entries(root.shards[i].entries) : i \in RootShards(root, kind)}
LastsUpTo(root, kind, last) ==
  \A i \in RootShards(root, kind) : LastKey(kind, root.shards[i].entries) \in 0..last
KeysBetween(kind, scope, lo, last) == {k \in KeysOf(kind, scope) : lo < k /\ k <= last}
EntriesBetween(kind, scope, lo, last) == {EntryOf(kind, k) : k \in KeysBetween(kind, scope, lo, last)}
\* How far a draft has got with a kind: its keys are read up to the last one, or
\* a page of those that follow is to be written, or all of them are in the root.
ReadUpTo(root, kind, scope, last) ==
  /\ root.inline[kind] = <<>> /\ InShards(root, kind) = EntriesUpTo(kind, scope, last)
  /\ LastsUpTo(root, kind, last)
HoldsPage(me, kind, scope) ==
  \E lo \in 0..me.after :
    /\ ReadUpTo(me.root, kind, scope, lo)
    /\ me.page # <<>> /\ Ascends(kind, me.page) /\ LastKey(kind, me.page) = me.after
    /\ lo < me.after /\ KeyOf(kind, me.page[1]) \in Nat /\ lo < KeyOf(kind, me.page[1])
    /\ Entries(me.page) = EntriesBetween(kind, scope, lo, me.after)
Complete(root, kind, scope) == EntriesOf(root, kind) = AllEntries(kind, scope)
Collected(me, scope) ==
  LET kind == EvidenceKinds[me.kind]
  IN /\ me.kind = 1 => RootShards(me.root, "heads") = {} /\ me.root.inline["heads"] = <<>>
     /\ me.kind = 2 => Complete(me.root, "revisions", scope)
     /\ me.pc = "read" => ReadUpTo(me.root, kind, scope, me.after)
     /\ me.pc \in {"install", "sync"} => HoldsPage(me, kind, scope)
     /\ me.pc = "rename" => me.kind = 2 /\ Complete(me.root, "heads", scope)
\* What a draft says, of the catalogue as it is while the lock is held.
DraftSays(me) ==
  LET scope == manifestRuns[me.run].scope
  IN /\ me.run = Len(roots) + 1 /\ me.run \in DOMAIN manifestRuns /\ manifestRuns[me.run].state = "succeeded"
     /\ me.root.run = me.run /\ me.root.predecessor = Len(roots)
     /\ me.root.media = MediaSnapshot(scope) /\ MediaFits(scope)
     /\ Decodes(me.root)
     /\ Collected(me, scope)
DraftKept(me) ==
  DraftSays(me) /\ Durable(me.root) /\ (me.pc = "sync" => ShardOf(me) \in shards)
AppendersKept ==
  /\ \A a, b \in Appender : appender[a] # Away /\ appender[b] # Away => a = b
  /\ \A a \in Appender :
       IF appender[a].pc = "acknowledge" THEN roots # <<>> /\ appender[a].run = Len(roots)
       ELSE appender[a] # Away => DraftKept(appender[a])
ManifestInv ==
  ManifestTypes /\ CatalogueKept /\ RunsInOrder /\ ChainKept /\ ChainFilesKept /\ AppendersKept

-----------------------------------------------------------------------------
LEMMA SequenceOf ==
  ASSUME NEW m \in Nat, NEW E, NEW f \in [1..m -> E]
  PROVE  f \in Seq(E) /\ Len(f) = m /\ DOMAIN f = 1..m
<1>1. f \in Seq(E)
  BY SeqDef
<1> QED
  BY <1>1

\* A finite set of numbers in order: the i-th has i - 1 of them before it.
LEMMA OrderedAscends ==
  ASSUME NEW S \in SUBSET Nat, IsFiniteSet(S)
  PROVE  /\ Cardinality(S) \in Nat
         /\ Ordered(S) \in [1..Cardinality(S) -> S]
         /\ \A i, j \in 1..Cardinality(S) : i < j => Ordered(S)[i] < Ordered(S)[j]
         /\ \A x \in S : \E i \in 1..Cardinality(S) : Ordered(S)[i] = x
<1> DEFINE n == Cardinality(S)
           before(x) == {y \in S : y < x}
           rank == [x \in S |-> Cardinality(before(x))]
<1>1. n \in Nat
  BY FS_CardinalityType
<1>2. ASSUME NEW x \in S PROVE IsFiniteSet(before(x)) /\ Cardinality(before(x)) \in 0..(n - 1)
  <2>1. IsFiniteSet(S \ {x}) /\ Cardinality(S \ {x}) = n - 1
    BY FS_RemoveElement
  <2>2. before(x) \subseteq S \ {x}
    OBVIOUS
  <2>3. IsFiniteSet(before(x)) /\ Cardinality(before(x)) <= n - 1
    BY <2>1, <2>2, FS_Subset
  <2> QED
    BY <2>3, <1>1, FS_CardinalityType
<1>3. ASSUME NEW x \in S, NEW y \in S, x < y PROVE rank[x] < rank[y]
  <2>1. IsFiniteSet(before(x)) /\ IsFiniteSet(before(y))
    BY <1>2
  <2>2. x \notin before(x) /\ before(x) \cup {x} \subseteq before(y)
    <3>1. x \in Nat /\ y \in Nat /\ \A z \in S : z \in Nat
      OBVIOUS
    <3>2. \A z \in S : z < x => z < y
      BY <1>3, <3>1
    <3>3. ~(x < x) /\ x < y
      BY <1>3, <3>1
    <3>4. x \notin before(x) /\ x \in before(y) /\ before(x) \subseteq before(y)
      BY <3>2, <3>3, Zenon
    <3> QED
      BY <3>4
  <2>3. IsFiniteSet(before(x) \cup {x}) /\ Cardinality(before(x) \cup {x}) = Cardinality(before(x)) + 1
    BY <2>1, <2>2, FS_AddElement
  <2>4. Cardinality(before(x) \cup {x}) <= Cardinality(before(y))
    BY <2>1, <2>2, FS_Subset
  <2> QED
    BY <2>3, <2>4, <1>2
<1>4. rank \in Injection(S, 0..(n - 1))
  <2>1. rank \in [S -> 0..(n - 1)]
    BY <1>2
  <2>2. ASSUME NEW x \in S, NEW y \in S, rank[x] = rank[y] PROVE x = y
    <3> HIDE DEF rank
    <3>1. rank[x] \in Int /\ rank[y] \in Int
      BY <2>1
    <3> QED
      BY <1>3, <2>2, <3>1
  <2> QED
    BY <2>1, <2>2 DEF Injection, IsInjective
<1>5. IsFiniteSet(0..(n - 1)) /\ Cardinality(0..(n - 1)) = n
  <2>1. 0 \in Int /\ n - 1 \in Int
    BY <1>1
  <2>2. IsFiniteSet(0..(n - 1)) /\ Cardinality(0..(n - 1)) = IF 0 > n - 1 THEN 0 ELSE n - 1 - 0 + 1
    BY <2>1, FS_Interval
  <2> QED
    BY <1>1, <2>2
<1>6. rank \in Surjection(S, 0..(n - 1))
  BY <1>4, <1>5, FS_Injection
<1>7. ASSUME NEW i \in 1..n
      PROVE  Ordered(S)[i] \in S /\ rank[Ordered(S)[i]] = i - 1
  <2>1. i - 1 \in 0..(n - 1)
    BY <1>1
  <2>2. \E x \in S : rank[x] = i - 1
    BY <1>6, <2>1 DEF Surjection
  <2>3. \E x \in S : Cardinality(before(x)) = i - 1
    BY <2>2
  <2>4. Ordered(S)[i] = CHOOSE x \in S : Cardinality(before(x)) = i - 1
    BY DEF Ordered
  <2>5. Ordered(S)[i] \in S /\ Cardinality(before(Ordered(S)[i])) = i - 1
    BY <2>3, <2>4
  <2> QED
    BY <2>5
<1>8. Ordered(S) \in [1..n -> S]
  <2> DEFINE e(i) == CHOOSE x \in S : Cardinality({y \in S : y < x}) = i - 1
  <2>1. Ordered(S) = [i \in 1..n |-> e(i)]
    BY DEF Ordered
  <2> HIDE DEF e
  <2>2. \A i \in 1..n : e(i) = Ordered(S)[i]
    BY <2>1
  <2>3. \A i \in 1..n : e(i) \in S
    BY <1>7, <2>2
  <2> QED
    BY <2>1, <2>3
<1>9. ASSUME NEW i \in 1..n, NEW j \in 1..n, i < j PROVE Ordered(S)[i] < Ordered(S)[j]
  <2> HIDE DEF rank
  <2>1. PICK x \in S, y \in S : x = Ordered(S)[i] /\ y = Ordered(S)[j] /\ rank[x] = i - 1 /\ rank[y] = j - 1
    BY <1>7
  <2>2. x \in Nat /\ y \in Nat /\ ~(y < x) /\ x # y
    BY <1>3, <1>9, <2>1
  <2> QED
    BY <2>1, <2>2
<1>10. ASSUME NEW x \in S PROVE \E i \in 1..n : Ordered(S)[i] = x
  <2>1. rank[x] \in 0..(n - 1)
    BY <1>4 DEF Injection
  <2>2. PICK i \in 1..n : i - 1 = rank[x]
    <3> HIDE DEF rank
    <3>1. rank[x] + 1 \in 1..n
      BY <1>1, <2>1
    <3>2. (rank[x] + 1) - 1 = rank[x]
      BY <2>1
    <3> QED
      BY <3>1, <3>2
  <2>3. Ordered(S)[i] \in S /\ rank[Ordered(S)[i]] = rank[x]
    BY <1>7, <2>2
  <2>4. \A y \in S : rank[y] = rank[x] => y = x
    BY <1>4 DEF Injection, IsInjective
  <2> QED
    BY <2>3, <2>4
<1> QED
  BY <1>1, <1>8, <1>9, <1>10

LEMMA RevisionsFinite ==
  /\ CapturedRevision = 1..Len(PageOfRevision) /\ Len(PageOfRevision) \in Nat /\ IsFiniteSet(CapturedRevision)
  /\ \A r \in CapturedRevision : r \in Nat \ {0} /\ PageOfRevision[r] \in WikiPage
<1>1. CapturedRevision = 1..Len(PageOfRevision) /\ Len(PageOfRevision) \in Nat
  BY ManifestBounds DEF CapturedRevision
<1>2. IsFiniteSet(1..Len(PageOfRevision))
  BY <1>1, FS_Interval
<1>3. \A r \in 1..Len(PageOfRevision) : PageOfRevision[r] \in WikiPage
  BY ManifestBounds
<1> QED
  BY <1>1, <1>2, <1>3

LEMMA PagesFinite == ASSUME ManifestTypes, NEW scope PROVE IsFiniteSet(HeadsOf(scope))
<1> DEFINE pages == {PageOfRevision[r] : r \in catalogued}
           f == [r \in catalogued |-> PageOfRevision[r]]
<1>1. IsFiniteSet(catalogued)
  BY RevisionsFinite, FS_Subset DEF ManifestTypes
<1>2. f \in Surjection(catalogued, pages)
  BY DEF Surjection
<1>3. IsFiniteSet(pages)
  BY <1>1, <1>2, FS_Surjection
<1>4. HeadsOf(scope) \subseteq pages
  BY DEF HeadsOf
<1> QED
  BY <1>3, <1>4, FS_Subset

\* What a manifest may list of a kind: finitely many keys, each with its entry.
LEMMA KeysAreNumbers ==
  ASSUME ManifestTypes, NEW kind \in EvidenceKind, NEW scope
  PROVE  /\ KeysOf(kind, scope) \subseteq Nat \ {0} /\ IsFiniteSet(KeysOf(kind, scope))
         /\ \A k \in KeysOf(kind, scope) : EntryOf(kind, k) \in Evidence /\ KeyOf(kind, EntryOf(kind, k)) = k
<1>1. CASE kind = "revisions"
  <2>1. KeysOf(kind, scope) \subseteq CapturedRevision
    BY <1>1 DEF KeysOf, Unclaimed, InCatalogue, ManifestTypes
  <2>2. IsFiniteSet(KeysOf(kind, scope))
    BY <2>1, RevisionsFinite, FS_Subset
  <2> QED
    BY <1>1, <2>1, <2>2, RevisionsFinite DEF EntryOf, KeyOf, Evidence
<1>2. CASE kind = "heads"
  <2>1. KeysOf(kind, scope) = HeadsOf(scope)
    BY <1>2 DEF KeysOf
  <2>2. HeadsOf(scope) \subseteq WikiPage
    BY DEF HeadsOf, ShownPages
  <2>3. \A p \in WikiPage : <<p, currentOf[p]>> \in Evidence /\ <<p, currentOf[p]>>[1] = p
    BY DEF ManifestTypes, Evidence
  <2> QED
    BY <1>2, <2>1, <2>2, <2>3, PagesFinite, ManifestBounds DEF EntryOf, KeyOf
<1> QED
  BY <1>1, <1>2 DEF EvidenceKind

\* A page of evidence: the next keys of its kind in order, none left out.
LEMMA PageAfterTells ==
  ASSUME ManifestTypes, NEW kind \in EvidenceKind, NEW scope, NEW after \in Nat, NEW limit \in Nat \ {0},
         NEW page, page = PageAfter(kind, scope, after, limit)
  PROVE  /\ page \in Seq(Evidence) /\ Len(page) \in 0..limit /\ Ascends(kind, page)
         /\ page = <<>> => \A k \in KeysOf(kind, scope) : k <= after
         /\ page # <<>> =>
              /\ LastKey(kind, page) \in KeysOf(kind, scope)
              /\ after < KeyOf(kind, page[1]) /\ KeyOf(kind, page[1]) \in Nat
              /\ after < LastKey(kind, page)
              /\ Entries(page) = EntriesBetween(kind, scope, after, LastKey(kind, page))
              /\ Len(page) < limit => \A k \in KeysOf(kind, scope) : k <= LastKey(kind, page)
<1> DEFINE S == {k \in KeysOf(kind, scope) : k > after}
           n == Cardinality(S)
           order == Ordered(S)
           keys == FirstN(order, limit)
<1>1. /\ S \in SUBSET Nat /\ IsFiniteSet(S)
      /\ \A k \in S : EntryOf(kind, k) \in Evidence /\ KeyOf(kind, EntryOf(kind, k)) = k
  <2>1. S \subseteq KeysOf(kind, scope) /\ KeysOf(kind, scope) \subseteq Nat \ {0} /\ IsFiniteSet(KeysOf(kind, scope))
    BY KeysAreNumbers
  <2> QED
    BY <2>1, KeysAreNumbers, FS_Subset
<1>2. /\ n \in Nat /\ order \in [1..n -> S]
      /\ \A i, j \in 1..n : i < j => order[i] < order[j]
      /\ \A x \in S : \E i \in 1..n : order[i] = x
  BY <1>1, OrderedAscends
<1>3. order \in Seq(S) /\ Len(order) = n
  BY <1>2, SequenceOf
<1> HIDE DEF order, n
<1>4. PICK m \in 0..limit : m = IF limit < n THEN limit ELSE n
  <2>1. n \in Nat
    BY <1>2
  <2>2. (IF limit < n THEN limit ELSE n) \in 0..limit
    BY <2>1
  <2> QED
    BY <2>2
<1>5. keys \in Seq(S) /\ Len(keys) = m /\ \A i \in 1..m : keys[i] = order[i]
  <2>1. keys = SubSeq(order, 1, m)
    BY <1>3, <1>4 DEF FirstN
  <2>2. 1 \in Int /\ m \in Int /\ m - 1 + 1 = m /\ (1 <= m <=> m # 0)
    BY <1>4
  <2>3. \A i \in 1..m : order[i] \in S /\ 1 + i - 1 = i
    BY <1>2, <1>4
  <2>4. SubSeq(order, 1, m) \in Seq(S) /\ Len(SubSeq(order, 1, m)) = (IF 1 <= m THEN m - 1 + 1 ELSE 0)
        /\ \A i \in 1..(m - 1 + 1) : SubSeq(order, 1, m)[i] = order[1 + i - 1]
    BY <2>2, <2>3, SubSeqProperties
  <2> QED
    BY <2>1, <2>2, <2>3, <2>4
<1> HIDE DEF keys
<1>6. page \in [1..m -> Evidence] /\ \A i \in 1..m : page[i] = EntryOf(kind, order[i])
  <2>1. page = [i \in DOMAIN keys |-> EntryOf(kind, keys[i])]
    BY DEF PageAfter, keys, order
  <2>2. DOMAIN keys = 1..m
    BY <1>5
  <2>3. \A i \in 1..m : order[i] \in S /\ EntryOf(kind, keys[i]) = EntryOf(kind, order[i]) /\ EntryOf(kind, order[i]) \in Evidence
    <3>1. ASSUME NEW i \in 1..m PROVE order[i] \in S /\ keys[i] = order[i]
      <4>1. i \in 1..n
        BY <1>2, <1>4
      <4> QED
        BY <1>2, <1>5, <4>1
    <3>2. \A k \in S : EntryOf(kind, k) \in Evidence
      BY <1>1
    <3> HIDE DEF S
    <3> QED
      BY <3>1, <3>2
  <2>4. page = [i \in 1..m |-> EntryOf(kind, keys[i])]
    BY <2>1, <2>2
  <2> QED
    BY <2>3, <2>4
<1>7. page \in Seq(Evidence) /\ Len(page) = m
  BY <1>6, SequenceOf
<1>8. \A i \in 1..m : order[i] \in S /\ KeyOf(kind, page[i]) = order[i]
  BY <1>1, <1>2, <1>4, <1>6
<1> HIDE DEF S
<1>9. Ascends(kind, page)
  BY <1>2, <1>4, <1>7, <1>8 DEF Ascends
<1>10. CASE m = 0
  <2>1. n = 0 /\ S = {}
    BY <1>2, <1>4, <1>10
  <2> QED
    BY <1>7, <1>9, <1>10, <2>1, KeysAreNumbers DEF S
<1>11. CASE m # 0
  <2>1. 1 \in 1..m /\ m \in 1..m /\ m \in 1..n
    BY <1>2, <1>4, <1>11
  <2>2. page # <<>> /\ LastKey(kind, page) = order[m] /\ KeyOf(kind, page[1]) = order[1]
    BY <1>7, <1>8, <2>1 DEF LastKey
  <2>3. order[m] \in S /\ order[1] \in S
    BY <1>8, <2>1
  <2>4. \A i \in 1..n : order[i] <= order[m] <=> i <= m
    <3>1. \A i \in 1..n : order[i] \in Nat
      BY <1>1, <1>2
    <3>2. ASSUME NEW i \in 1..n PROVE order[i] <= order[m] <=> i <= m
      <4>1. CASE i < m
        BY <1>2, <2>1, <3>1, <4>1
      <4>2. CASE i = m
        BY <2>1, <3>1, <4>2
      <4>3. CASE m < i
        <5>1. order[m] < order[i]
          BY <1>2, <2>1, <4>3
        <5> QED
          BY <2>1, <3>1, <4>3, <5>1
      <4> QED
        BY <1>4, <4>1, <4>2, <4>3
    <3> QED
      BY <3>2
  <2>5. Entries(page) = EntriesBetween(kind, scope, after, order[m])
    <3>1. Entries(page) = {page[i] : i \in 1..m}
      BY <1>7 DEF Entries
    <3>2. KeysBetween(kind, scope, after, order[m]) = {x \in S : x <= order[m]}
      BY KeysAreNumbers DEF S, KeysBetween
    <3>3. {x \in S : x <= order[m]} = {order[i] : i \in 1..m}
      <4>1. ASSUME NEW x \in S, x <= order[m] PROVE \E i \in 1..m : x = order[i]
        <5>1. PICK i \in 1..n : order[i] = x
          BY <1>2
        <5>2. i <= m
          BY <2>4, <4>1, <5>1
        <5> QED
          BY <1>4, <5>1, <5>2
      <4>2. ASSUME NEW i \in 1..m PROVE order[i] \in S /\ order[i] <= order[m]
        BY <1>2, <1>4, <1>8, <2>1, <2>4
      <4> QED
        BY <4>1, <4>2
    <3>4. {EntryOf(kind, k) : k \in {order[i] : i \in 1..m}} = {page[i] : i \in 1..m}
      BY <1>6
    <3> QED
      BY <3>1, <3>2, <3>3, <3>4 DEF EntriesBetween
  <2>6. ASSUME Len(page) < limit PROVE \A k \in KeysOf(kind, scope) : k <= order[m]
    <3>1. m = n
      BY <1>2, <1>4, <1>7, <2>6
    <3>2. \A x \in S : x <= order[m]
      BY <1>2, <2>1, <2>4, <3>1
    <3>3. \A k \in KeysOf(kind, scope) : k \in Nat /\ (k \in S \/ k <= after)
      BY KeysAreNumbers DEF S
    <3>4. order[m] \in Nat /\ order[m] > after
      BY <1>1, <2>3 DEF S
    <3> QED
      BY <3>2, <3>3, <3>4
  <2>7. order[m] \in KeysOf(kind, scope) /\ after < order[1] /\ order[1] \in Nat /\ after < order[m]
    BY <1>1, <2>3, KeysAreNumbers DEF S
  <2> QED
    BY <1>7, <1>9, <2>2, <2>5, <2>6, <2>7
<1> QED
  BY <1>10, <1>11

LEMMA KindsOfEvidence ==
  /\ EvidenceKinds[1] = "revisions" /\ EvidenceKinds[2] = "heads" /\ Len(EvidenceKinds) = 2
  /\ Entries(EvidenceKinds) = EvidenceKind
<1>1. EvidenceKinds[1] = "revisions" /\ EvidenceKinds[2] = "heads" /\ Len(EvidenceKinds) = 2
  BY DEF EvidenceKinds
<1>2. DOMAIN EvidenceKinds = 1..2
  BY DEF EvidenceKinds
<1>3. Entries(EvidenceKinds) = {EvidenceKinds[i] : i \in 1..2}
  BY <1>2 DEF Entries
<1>4. {EvidenceKinds[i] : i \in 1..2} = {EvidenceKinds[1], EvidenceKinds[2]}
  <2>1. \A i \in 1..2 : i = 1 \/ i = 2
    OBVIOUS
  <2> QED
    BY <2>1
<1> QED
  BY <1>1, <1>3, <1>4 DEF EvidenceKind

LEMMA DraftOrAway ==
  ASSUME ManifestTypes, NEW a \in Appender
  PROVE  /\ appender[a].pc = "away" <=> appender[a] = Away
         /\ appender[a] # Away => appender[a] \in Drafts
BY DEF ManifestTypes, Drafts, Away

LEMMA LockKeepsOthersOut ==
  ASSUME ManifestTypes, ~Locked
  PROVE  \A a \in Appender : appender[a] = Away
BY DraftOrAway DEF Locked

\* The shards of a kind are finitely many.
LEMMA RootShardsFinite ==
  ASSUME NEW root \in Manifests, NEW kind
  PROVE  /\ RootShards(root, kind) \subseteq 1..Len(root.shards) /\ IsFiniteSet(RootShards(root, kind))
         /\ Cardinality(RootShards(root, kind)) \in Nat
<1>1. root.shards \in Seq(Descriptors)
  BY DEF Manifests
<1>2. RootShards(root, kind) \subseteq 1..Len(root.shards)
  BY <1>1 DEF RootShards
<1>3. 1 \in Int /\ Len(root.shards) \in Int
  BY <1>1
<1>4. IsFiniteSet(1..Len(root.shards))
  BY <1>3, FS_Interval
<1> QED
  BY <1>2, <1>4, FS_Subset, FS_CardinalityType

-----------------------------------------------------------------------------
\* What a root of the chain says is not changed by what comes after it.
LEMMA ClaimsKept ==
  ASSUME ManifestTypes, roots' \in Seq(Manifests), NEW m \in 0..Len(roots), m <= Len(roots'),
         \A i \in 1..m : roots'[i] = roots[i]
  PROVE  \A k \in 0..m : ClaimedBy(k)' = ClaimedBy(k)
<1> SUFFICES ASSUME NEW k \in 0..m PROVE ClaimedBy(k)' = ClaimedBy(k)
  OBVIOUS
<1>1. \A i \in 1..k : i \in 1..m /\ roots'[i] = roots[i]
  OBVIOUS
<1>2. \A i \in 1..k : EntriesOf(roots'[i], "revisions") = EntriesOf(roots[i], "revisions")
  BY <1>1
<1>3. {EntriesOf(roots'[i], "revisions") : i \in 1..k} = {EntriesOf(roots[i], "revisions") : i \in 1..k}
  BY <1>2
<1>4. ClaimedBy(k) = UNION {EntriesOf(roots[i], "revisions") : i \in 1..k}
  BY DEF ClaimedBy
<1>5. ClaimedBy(k)' = UNION {EntriesOf(roots'[i], "revisions") : i \in 1..k}
  BY DEF ClaimedBy
<1> QED
  BY <1>3, <1>4, <1>5

LEMMA LinksKept ==
  ASSUME ManifestTypes, ChainKept, roots' \in Seq(Manifests), NEW m \in 0..Len(roots), m <= Len(roots'),
         \A i \in 1..m : roots'[i] = roots[i],
         \A n \in DOMAIN manifestRuns : manifestRuns[n].state = "succeeded" =>
           n \in DOMAIN manifestRuns' /\ manifestRuns'[n] = manifestRuns[n],
         shardsSynced \subseteq shardsSynced'
  PROVE  \A n \in 1..m : ChainLink(n)'
<1> SUFFICES ASSUME NEW n \in 1..m PROVE ChainLink(n)'
  OBVIOUS
<1>1. n \in DOMAIN roots /\ roots'[n] = roots[n] /\ n \in 0..m /\ n - 1 \in 0..m
  BY DEF ManifestTypes
<1>2. ClaimedBy(n)' = ClaimedBy(n) /\ ClaimedBy(n - 1)' = ClaimedBy(n - 1)
  <2>1. \A k \in 0..m : ClaimedBy(k)' = ClaimedBy(k)
    BY ClaimsKept
  <2> QED
    BY <1>1, <2>1
<1>3. ChainLink(n)
  BY <1>1 DEF ChainKept
<1>4. manifestRuns'[n] = manifestRuns[n] /\ n \in DOMAIN manifestRuns'
  BY <1>3 DEF ChainLink
<1>5. PICK root : roots'[n] = root /\ roots[n] = root
  BY <1>1
<1>6. PICK run : manifestRuns'[n] = run /\ manifestRuns[n] = run
  BY <1>4
<1>7. PICK upTo, before : upTo = ClaimedBy(n) /\ before = ClaimedBy(n - 1)
  OBVIOUS
<1>8. /\ run.state = "succeeded" /\ root.run = n /\ root.predecessor = n - 1
      /\ Decodes(root) /\ Durable(root) /\ EntriesOf(root, "revisions") \cap before = {}
      /\ run.saw \subseteq upTo /\ root.media \subseteq upTo
      /\ \A head \in EntriesOf(root, "heads") : head[2] \in {0} \cup upTo
  BY <1>3, <1>5, <1>6, <1>7, Zenon DEF ChainLink
<1>9. Durable(root)'
  BY <1>8 DEF Durable
<1>10. ClaimedBy(n)' = upTo /\ ClaimedBy(n - 1)' = before
  BY <1>2, <1>7
<1> QED
  BY <1>4, <1>5, <1>6, <1>8, <1>9, <1>10, Zenon DEF ChainLink

\* Represented runs are the first ones, one root each.
LEMMA RunsOfRoots ==
  ASSUME ManifestTypes, ChainKept
  PROVE  Represented = 1..Len(roots) /\ \A n \in DOMAIN roots : roots[n].run = n
<1>1. \A n \in DOMAIN roots : roots[n].run = n
  BY DEF ChainKept, ChainLink
<1>2. DOMAIN roots = 1..Len(roots)
  BY DEF ManifestTypes
<1> QED
  BY <1>1, <1>2 DEF Represented

-----------------------------------------------------------------------------
LEMMA ManifestInvInit == ASSUME ManifestInit PROVE ManifestInv
<1> USE DEF ManifestInit
<1>1. ManifestTypes
  BY ManifestBounds DEF ManifestTypes, CapturedRevision
<1>2. CatalogueKept /\ RunsInOrder
  BY DEF CatalogueKept, RunsInOrder
<1>3. ChainKept /\ ChainFilesKept
  BY DEF ChainKept, ChainFilesKept
<1>4. AppendersKept
  BY DEF AppendersKept, Away
<1> QED
  BY <1>1, <1>2, <1>3, <1>4 DEF ManifestInv

\* The rest of the program writes when no append holds the lock, and leaves the
\* files and the runs that ended as they are.
LEMMA CatalogueWrites ==
  ASSUME ManifestInv, ~Locked, ManifestTypes', CatalogueKept', RunsInOrder',
         UNCHANGED <<manifestFiles, appender, acknowledged>>,
         \A n \in DOMAIN manifestRuns : manifestRuns[n].state = "succeeded" =>
           n \in DOMAIN manifestRuns' /\ manifestRuns'[n] = manifestRuns[n]
  PROVE  ManifestInv'
<1> USE DEF manifestFiles
<1>1. ManifestTypes /\ ChainKept /\ ChainFilesKept
  BY DEF ManifestInv
<1>2. roots \in Seq(Manifests) /\ Len(roots) \in 0..Len(roots)
  BY <1>1 DEF ManifestTypes
<1>3. \A n \in 1..Len(roots) : ChainLink(n)'
  <2>1. roots' = roots /\ shardsSynced' = shardsSynced
    OBVIOUS
  <2>2. roots' \in Seq(Manifests) /\ Len(roots) <= Len(roots') /\ \A i \in 1..Len(roots) : roots'[i] = roots[i]
    BY <1>2, <2>1
  <2> QED
    BY <1>1, <1>2, <2>1, <2>2, LinksKept
<1>4. ChainKept'
  BY <1>2, <1>3 DEF ChainKept
<1>5. ChainFilesKept'
  BY <1>1 DEF ChainFilesKept
<1>6. AppendersKept'
  <2>1. \A a \in Appender : appender'[a] = Away
    BY <1>1, LockKeepsOthersOut
  <2> QED
    BY <2>1 DEF AppendersKept, Away
<1> QED
  BY <1>4, <1>5, <1>6 DEF ManifestInv

LEMMA RunHasItsParts ==
  ASSUME ManifestTypes, NEW n \in DOMAIN manifestRuns
  PROVE  /\ manifestRuns[n] \in [scope : RunScopes, state : {"running", "succeeded"}, saw : SUBSET CapturedRevision]
         /\ manifestRuns[n].scope \in RunScopes /\ manifestRuns[n].state \in {"running", "succeeded"}
         /\ manifestRuns[n].saw \subseteq CapturedRevision
<1> DEFINE Runs == [scope : RunScopes, state : {"running", "succeeded"}, saw : SUBSET CapturedRevision]
<1>1. manifestRuns \in Seq(Runs)
  BY DEF ManifestTypes
<1> HIDE DEF Runs
<1>2. manifestRuns[n] \in Runs
  BY <1>1
<1> QED
  BY <1>2 DEF Runs

\* Pages join a scope and never leave it, and revisions are never forgotten:
\* what a run saw stays in sight.
LEMMA CatalogueGrows ==
  ASSUME ManifestTypes, ManifestTypes', CatalogueKept, catalogued \subseteq catalogued',
         \A c \in Collection, p \in WikiPage : members[c][p] # "none" => members'[c][p] # "none",
         \A p \in WikiPage : currentOf'[p] # currentOf[p] =>
           currentOf'[p] \in catalogued' /\ PageOfRevision[currentOf'[p]] = p,
         DOMAIN manifestRuns \subseteq DOMAIN manifestRuns',
         \A n \in DOMAIN manifestRuns : manifestRuns'[n] = manifestRuns[n],
         \A n \in DOMAIN manifestRuns' : n \notin DOMAIN manifestRuns => manifestRuns'[n].saw = {}
  PROVE  CatalogueKept'
<1>1. \A p \in WikiPage : currentOf'[p] # 0 => currentOf'[p] \in catalogued' /\ PageOfRevision[currentOf'[p]] = p
  BY DEF CatalogueKept
<1>2. ASSUME NEW scope \in RunScopes PROVE InCatalogue(scope) \subseteq InCatalogue(scope)'
  <2>1. Covered(scope) \subseteq Covered(scope)'
    BY <1>2 DEF Covered, RunScopes
  <2> QED
    BY <2>1 DEF InCatalogue
<1>3. ASSUME NEW n \in DOMAIN manifestRuns' PROVE manifestRuns'[n].saw \subseteq InCatalogue(manifestRuns[n].scope)'
  <2>1. CASE n \in DOMAIN manifestRuns
    <3>1. manifestRuns[n].scope \in RunScopes
      BY <2>1, RunHasItsParts
    <3>2. PICK scope \in RunScopes : scope = manifestRuns[n].scope
      BY <3>1
    <3>3. manifestRuns'[n].scope = scope /\ manifestRuns'[n].saw \subseteq InCatalogue(scope)
      BY <2>1, <3>2 DEF CatalogueKept
    <3> QED
      BY <1>2, <3>3
  <2>2. CASE n \notin DOMAIN manifestRuns
    BY <2>2
  <2> QED
    BY <2>1, <2>2
<1> QED
  BY <1>1, <1>3 DEF CatalogueKept

LEMMA StartRunKeepsManifests ==
  ASSUME ManifestInv, NEW scope \in RunScopes, StartRunOf(scope) PROVE ManifestInv'
<1> DEFINE run == [scope |-> scope, state |-> "running", saw |-> {}]
           Runs == [scope : RunScopes, state : {"running", "succeeded"}, saw : SUBSET CapturedRevision]
<1> USE DEF StartRunOf, manifestFiles
<1>1. ManifestTypes /\ CatalogueKept /\ RunsInOrder
  BY DEF ManifestInv
<1>2. manifestRuns \in Seq(Runs) /\ run \in Runs /\ manifestRuns' = Append(manifestRuns, run)
  BY <1>1 DEF ManifestTypes
<1> HIDE DEF Runs
<1>3. /\ manifestRuns' \in Seq(Runs) /\ Len(manifestRuns') = Len(manifestRuns) + 1
      /\ \A n \in DOMAIN manifestRuns : n \in DOMAIN manifestRuns' /\ manifestRuns'[n] = manifestRuns[n]
      /\ \A n \in DOMAIN manifestRuns' : n \notin DOMAIN manifestRuns => manifestRuns'[n] = run
      /\ \A n \in DOMAIN manifestRuns' : n < Len(manifestRuns') => n \in DOMAIN manifestRuns
  BY <1>2
<1>4. ManifestTypes'
  BY <1>1, <1>3 DEF ManifestTypes, Runs
<1>5. CatalogueKept'
  BY <1>1, <1>3, <1>4, CatalogueGrows
<1>6. RunsInOrder'
  <2>1. \A n \in DOMAIN manifestRuns : manifestRuns[n].state = "succeeded"
    <3>1. \A n \in DOMAIN manifestRuns : manifestRuns[n].state \in {"running", "succeeded"}
      BY <1>1, RunHasItsParts
    <3> QED
      BY <3>1 DEF Running
  <2> QED
    BY <1>3, <2>1 DEF RunsInOrder
<1> QED
  BY <1>3, <1>4, <1>5, <1>6, CatalogueWrites

LEMMA CaptureRevisionKeepsManifests ==
  ASSUME ManifestInv, NEW r \in CapturedRevision, NEW current \in BOOLEAN, CaptureRevision(r, current)
  PROVE  ManifestInv'
<1> USE DEF CaptureRevision, manifestFiles
<1>1. ManifestTypes /\ CatalogueKept /\ RunsInOrder
  BY DEF ManifestInv
<1>2. PageOfRevision[r] \in WikiPage
  BY RevisionsFinite
<1>3. PICK page \in WikiPage : page = PageOfRevision[r]
  BY <1>2
<1>4. \/ currentOf' = currentOf
      \/ currentOf' = [currentOf EXCEPT ![page] = r]
  BY <1>3
<1>5. /\ currentOf' \in [WikiPage -> {0} \cup CapturedRevision]
      /\ \A p \in WikiPage : currentOf'[p] # currentOf[p] => p = page /\ currentOf'[p] = r
  BY <1>1, <1>4 DEF ManifestTypes
<1>6. ManifestTypes'
  BY <1>1, <1>5 DEF ManifestTypes
<1>7. CatalogueKept'
  <2>1. \A p \in WikiPage : currentOf'[p] # currentOf[p] =>
          currentOf'[p] \in catalogued' /\ PageOfRevision[currentOf'[p]] = p
    BY <1>3, <1>5
  <2> QED
    BY <1>1, <1>6, <2>1, CatalogueGrows
<1>8. RunsInOrder'
  BY <1>1 DEF RunsInOrder
<1> QED
  BY <1>6, <1>7, <1>8, CatalogueWrites

LEMMA PlaceThumbnailKeepsManifests ==
  ASSUME ManifestInv, NEW r \in CapturedRevision, PlaceThumbnail(r) PROVE ManifestInv'
<1> USE DEF PlaceThumbnail, manifestFiles
<1>1. ManifestTypes /\ CatalogueKept /\ RunsInOrder
  BY DEF ManifestInv
<1>2. ManifestTypes'
  BY <1>1 DEF ManifestTypes
<1>3. CatalogueKept'
  BY <1>1, <1>2, CatalogueGrows
<1>4. RunsInOrder'
  BY <1>1 DEF RunsInOrder
<1> QED
  BY <1>2, <1>3, <1>4, CatalogueWrites

LEMMA ReconcileKeepsManifests ==
  ASSUME ManifestInv, NEW c \in Collection, NEW p \in WikiPage, Reconcile(c, p) PROVE ManifestInv'
<1> USE DEF Reconcile, manifestFiles
<1>1. ManifestTypes /\ CatalogueKept /\ RunsInOrder
  BY DEF ManifestInv
<1>2. PICK new \in {"active", "removed"} : members' = [members EXCEPT ![c][p] = new]
  OBVIOUS
<1>3. /\ members' \in [Collection -> [WikiPage -> {"none", "active", "removed"}]]
      /\ \A d \in Collection, q \in WikiPage : members[d][q] # "none" => members'[d][q] # "none"
  BY <1>1, <1>2 DEF ManifestTypes
<1>4. ManifestTypes'
  BY <1>1, <1>3 DEF ManifestTypes
<1>5. CatalogueKept'
  BY <1>1, <1>3, <1>4, CatalogueGrows
<1>6. RunsInOrder'
  BY <1>1 DEF RunsInOrder
<1> QED
  BY <1>4, <1>5, <1>6, CatalogueWrites

LEMMA SucceedRunKeepsManifests ==
  ASSUME ManifestInv, NEW n \in DOMAIN manifestRuns, SucceedRun(n) PROVE ManifestInv'
<1> DEFINE Runs == [scope : RunScopes, state : {"running", "succeeded"}, saw : SUBSET CapturedRevision]
<1> USE DEF SucceedRun, manifestFiles
<1>1. ManifestTypes /\ CatalogueKept /\ RunsInOrder
  BY DEF ManifestInv
<1>2. manifestRuns \in Seq(Runs) /\ manifestRuns[n].state = "running"
  BY <1>1 DEF ManifestTypes, Running
<1>3. PICK saw : saw = InCatalogue(manifestRuns[n].scope)
  OBVIOUS
<1>4. saw \in SUBSET CapturedRevision
  BY <1>1, <1>3 DEF InCatalogue, ManifestTypes
<1>5. PICK run \in Runs : run.scope = manifestRuns[n].scope /\ run.state = "succeeded" /\ run.saw = saw
                          /\ manifestRuns' = [manifestRuns EXCEPT ![n] = run]
  <2>1. [manifestRuns[n] EXCEPT !.state = "succeeded", !.saw = saw] \in Runs
    BY <1>1, <1>4, RunHasItsParts
  <2>2. manifestRuns' = [manifestRuns EXCEPT ![n] = [manifestRuns[n] EXCEPT !.state = "succeeded", !.saw = saw]]
    BY <1>3
  <2> QED
    BY <1>2, <2>1, <2>2
<1> HIDE DEF Runs
<1>6. /\ manifestRuns' \in Seq(Runs) /\ Len(manifestRuns') = Len(manifestRuns)
      /\ DOMAIN manifestRuns' = DOMAIN manifestRuns /\ manifestRuns'[n] = run
      /\ \A m \in DOMAIN manifestRuns : m # n => manifestRuns'[m] = manifestRuns[m]
  <2>1. DOMAIN manifestRuns = 1..Len(manifestRuns) /\ Len(manifestRuns) \in Nat
    BY <1>2
  <2>2. /\ DOMAIN manifestRuns' = 1..Len(manifestRuns) /\ manifestRuns'[n] = run
        /\ \A m \in DOMAIN manifestRuns : m # n => manifestRuns'[m] = manifestRuns[m]
    BY <1>5, <2>1
  <2>3. \A m \in 1..Len(manifestRuns) : manifestRuns[m] \in Runs
    BY <1>2
  <2>4. manifestRuns \in [1..Len(manifestRuns) -> Runs]
    BY <1>2
  <2>5. manifestRuns' \in [1..Len(manifestRuns) -> Runs]
    BY <1>5, <2>4
  <2>6. manifestRuns' \in Seq(Runs) /\ Len(manifestRuns') = Len(manifestRuns)
    <3>1. PICK len \in Nat : len = Len(manifestRuns)
      BY <2>1
    <3>2. manifestRuns' \in [1..len -> Runs]
      BY <2>5, <3>1
    <3> QED
      <4>1. PICK f : f = manifestRuns'
        OBVIOUS
      <4>2. f \in [1..len -> Runs]
        BY <3>2, <4>1
      <4>3. f \in Seq(Runs) /\ Len(f) = len
        BY <4>2, SequenceOf
      <4> QED
        BY <3>1, <4>1, <4>3
  <2> QED
    BY <2>1, <2>2, <2>6
<1>7. ManifestTypes'
  BY <1>1, <1>6 DEF ManifestTypes, Runs
<1>8. CatalogueKept'
  <2>1. \A scope : InCatalogue(scope)' = InCatalogue(scope)
    BY DEF InCatalogue, Covered
  <2>2. ASSUME NEW m \in DOMAIN manifestRuns' PROVE manifestRuns'[m].saw \subseteq InCatalogue(manifestRuns[m].scope)'
    BY <1>1, <1>3, <1>5, <1>6, <2>1 DEF CatalogueKept
  <2>3. \A p \in WikiPage : currentOf'[p] # 0 => currentOf'[p] \in catalogued' /\ PageOfRevision[currentOf'[p]] = p
    BY <1>1 DEF CatalogueKept
  <2> QED
    BY <2>2, <2>3 DEF CatalogueKept
<1>9. RunsInOrder'
  BY <1>1, <1>5, <1>6 DEF RunsInOrder
<1>10. \A m \in DOMAIN manifestRuns : manifestRuns[m].state = "succeeded" =>
         m \in DOMAIN manifestRuns' /\ manifestRuns'[m] = manifestRuns[m]
  BY <1>2, <1>6
<1> QED
  BY <1>7, <1>8, <1>9, <1>10, CatalogueWrites

-----------------------------------------------------------------------------
\* While the lock is held the catalogue stays as it is, and with it what a
\* draft may say.
LEMMA SaysKept ==
  ASSUME UNCHANGED <<catalogue, roots>>, NEW me, DraftSays(me)
  PROVE  DraftSays(me)'
<1> USE DEF catalogue
<1>1. \A n : ClaimedBy(n)' = ClaimedBy(n)
  BY DEF ClaimedBy
<1>2. \A scope : Covered(scope)' = Covered(scope) /\ ShownPages(scope)' = ShownPages(scope)
  BY DEF Covered, ShownPages
<1>3. \A scope : InCatalogue(scope)' = InCatalogue(scope) /\ MediaSnapshot(scope)' = MediaSnapshot(scope)
                 /\ HeadsOf(scope)' = HeadsOf(scope)
  BY <1>2 DEF InCatalogue, MediaSnapshot, HeadsOf
<1>4. \A scope : Unclaimed(scope)' = Unclaimed(scope)
  BY <1>1, <1>3 DEF Unclaimed
<1>5. \A kind, scope : KeysOf(kind, scope)' = KeysOf(kind, scope)
  BY <1>3, <1>4 DEF KeysOf
<1>6. \A kind, key : EntryOf(kind, key)' = EntryOf(kind, key)
  BY DEF EntryOf
<1>7. \A kind, scope, last : EntriesUpTo(kind, scope, last)' = EntriesUpTo(kind, scope, last)
  BY <1>5, <1>6 DEF EntriesUpTo
<1>8. \A kind, scope : AllEntries(kind, scope)' = AllEntries(kind, scope)
  BY <1>5, <1>6 DEF AllEntries
<1>9. \A kind, scope, lo, last :
        EntriesBetween(kind, scope, lo, last)' = EntriesBetween(kind, scope, lo, last)
  BY <1>5, <1>6 DEF EntriesBetween, KeysBetween
<1>10. \A root, kind, scope, last : ReadUpTo(root, kind, scope, last)' = ReadUpTo(root, kind, scope, last)
  BY <1>7 DEF ReadUpTo
<1>11. \A root, kind, scope : Complete(root, kind, scope)' = Complete(root, kind, scope)
  BY <1>8 DEF Complete
<1>12. \A kind, scope : HoldsPage(me, kind, scope)' = HoldsPage(me, kind, scope)
  BY <1>9, <1>10 DEF HoldsPage
<1>13. \A scope : Collected(me, scope)' = Collected(me, scope)
  BY <1>10, <1>11, <1>12 DEF Collected
<1>14. PICK scope : scope = manifestRuns[me.run].scope
  OBVIOUS
<1>15. Collected(me, scope)' /\ me.root.media = MediaSnapshot(scope)' /\ MediaFits(scope)'
  BY <1>3, <1>13, <1>14 DEF DraftSays, MediaFits
<1> QED
  BY <1>14, <1>15 DEF DraftSays

\* A step of the process that holds the lock, up to the root's renaming.
LEMMA DraftStep ==
  ASSUME ManifestInv, NEW a \in Appender, \A b \in Appender : b # a => appender[b] = Away,
         NEW new \in Drafts, appender' = [appender EXCEPT ![a] = new],
         UNCHANGED <<catalogue, roots, rootsSynced, acknowledged, appendStops>>,
         shards \subseteq shards', shardsSynced \subseteq shardsSynced', shardsSynced' \subseteq shards',
         DraftSays(new), Durable(new.root)', new.pc = "sync" => ShardOf(new) \in shards', new.pc # "acknowledge"
  PROVE  ManifestInv'
<1> USE DEF catalogue
<1>1. ManifestTypes /\ CatalogueKept /\ RunsInOrder /\ ChainKept /\ ChainFilesKept
  BY DEF ManifestInv
<1>2. /\ appender' \in [Appender -> {Away} \cup Drafts] /\ appender'[a] = new
      /\ \A b \in Appender : b # a => appender'[b] = Away
  BY <1>1 DEF ManifestTypes
<1>3. ManifestTypes'
  BY <1>1, <1>2 DEF ManifestTypes
<1>4. CatalogueKept'
  <2>1. \A scope : InCatalogue(scope)' = InCatalogue(scope)
    BY DEF InCatalogue, Covered
  <2> QED
    BY <1>1, <2>1 DEF CatalogueKept
<1>5. RunsInOrder' /\ ChainFilesKept'
  BY <1>1 DEF RunsInOrder, ChainFilesKept
<1>6. ChainKept'
  <2>1. roots \in Seq(Manifests) /\ Len(roots) \in 0..Len(roots)
    BY <1>1 DEF ManifestTypes
  <2>2. roots' \in Seq(Manifests) /\ Len(roots) <= Len(roots') /\ \A i \in 1..Len(roots) : roots'[i] = roots[i]
    BY <2>1
  <2>3. \A n \in 1..Len(roots) : ChainLink(n)'
    BY <1>1, <2>1, <2>2, LinksKept
  <2> QED
    BY <2>1, <2>3 DEF ChainKept
<1>7. AppendersKept'
  <2>1. DraftSays(new)'
    BY SaysKept
  <2>2. DraftKept(new)'
    BY <2>1 DEF DraftKept, ShardOf
  <2>3. ASSUME NEW b \in Appender
        PROVE  IF appender'[b].pc = "acknowledge" THEN roots' # <<>> /\ appender'[b].run = Len(roots')
               ELSE appender'[b] # Away => DraftKept(appender[b])'
    <3>1. CASE b = a
      BY <1>2, <2>2, <3>1
    <3>2. CASE b # a
      BY <1>2, <3>2 DEF Away
    <3> QED
      BY <3>1, <3>2
  <2> QED
    BY <1>2, <2>3 DEF AppendersKept
<1> QED
  BY <1>3, <1>4, <1>5, <1>6, <1>7 DEF ManifestInv

\* The process that holds the lock is the only one, and its draft is kept.
LEMMA Holder ==
  ASSUME ManifestInv, NEW a \in Appender, appender[a].pc # "away"
  PROVE  /\ appender[a] \in Drafts /\ \A b \in Appender : b # a => appender[b] = Away
         /\ appender[a].pc # "acknowledge" => DraftKept(appender[a])
         /\ appender[a].pc = "acknowledge" => roots # <<>> /\ appender[a].run = Len(roots)
<1>1. appender[a] # Away /\ appender[a] \in Drafts
  BY DraftOrAway DEF ManifestInv
<1> QED
  BY <1>1 DEF ManifestInv, AppendersKept

\* Keys begin above zero.
LEMMA NothingUpToZero ==
  ASSUME ManifestTypes, NEW kind \in EvidenceKind, NEW scope
  PROVE  EntriesUpTo(kind, scope, 0) = {}
BY KeysAreNumbers DEF EntriesUpTo

LEMMA BeginAppendKeepsManifests ==
  ASSUME ManifestInv, NEW a \in Appender, NEW n \in DOMAIN manifestRuns, BeginAppend(a, n)
  PROVE  ManifestInv'
<1> DEFINE draft == [pc |-> "read", run |-> n, kind |-> 1, after |-> 0, page |-> <<>>, root |-> EmptyRoot(n)]
           scope == manifestRuns[n].scope
<1> USE DEF manifestFiles
<1>1. ManifestTypes /\ ChainKept /\ RunsInOrder /\ ChainFilesKept
  BY DEF ManifestInv
<1>2. ~Locked /\ OldestMissing(n) /\ MediaFits(scope) /\ appender' = [appender EXCEPT ![a] = draft]
      /\ UNCHANGED <<catalogue, manifestFiles, acknowledged, appendStops>>
  BY DEF BeginAppend
<1>3. \A b \in Appender : b # a => appender[b] = Away
  BY <1>1, <1>2, LockKeepsOthersOut
<1>4. n = Len(roots) + 1
  <2>1. Represented = 1..Len(roots) /\ Len(roots) \in Nat /\ Len(manifestRuns) \in Nat
        /\ DOMAIN manifestRuns = 1..Len(manifestRuns)
    BY <1>1, RunsOfRoots DEF ManifestTypes
  <2>2. n \in Succeeded /\ n \notin 1..Len(roots) /\ \A m \in Succeeded \ (1..Len(roots)) : n <= m
    BY <1>2, <2>1 DEF OldestMissing, Missing
  <2>3. CASE Len(roots) + 1 < n
    <3>1. Len(roots) + 1 \in DOMAIN manifestRuns /\ Len(roots) + 1 < Len(manifestRuns)
      BY <2>1, <2>3
    <3>2. Len(roots) + 1 \in Succeeded
      BY <1>1, <3>1 DEF RunsInOrder, Succeeded
    <3>3. Len(roots) + 1 \notin 1..Len(roots)
      BY <2>1
    <3>4. n <= Len(roots) + 1
      BY <2>2, <3>2, <3>3
    <3> QED
      BY <2>1, <2>3, <3>4
  <2> QED
    BY <2>1, <2>2, <2>3
<1>5. EmptyRoot(n) \in Manifests
  <2>1. n \in Nat /\ Len(roots) \in Nat /\ MediaSnapshot(scope) \in SUBSET CapturedRevision
    BY <1>1 DEF MediaSnapshot, ManifestTypes
  <2>2. [kind \in Entries(EvidenceKinds) |-> <<>>] \in [EvidenceKind -> Seq(Evidence)]
    BY KindsOfEvidence
  <2>3. <<>> \in Seq(Descriptors)
    OBVIOUS
  <2> QED
    BY <2>1, <2>2, <2>3 DEF EmptyRoot, Manifests
<1>6. PICK new \in Drafts : new = draft
  <2>1. n \in Nat /\ <<>> \in Seq(Evidence) /\ EmptyRoot(n) \in Manifests
    BY <1>1, <1>5 DEF ManifestTypes
  <2>2. draft \in Drafts
    BY <2>1 DEF Drafts
  <2> QED
    BY <2>2
<1>7. /\ EmptyRoot(n).shards = <<>> /\ EmptyRoot(n).run = n /\ EmptyRoot(n).predecessor = Len(roots)
      /\ EmptyRoot(n).inline["heads"] = <<>> /\ EmptyRoot(n).inline["revisions"] = <<>>
      /\ EmptyRoot(n).media = MediaSnapshot(scope)
      /\ \A kind \in EvidenceKind : EmptyRoot(n).inline[kind] = <<>>
  BY KindsOfEvidence DEF EmptyRoot, EvidenceKind
<1>8. PICK root \in Manifests : root = EmptyRoot(n)
  BY <1>5
<1>9. Decodes(root) /\ Durable(root)'
  <2>1. DOMAIN root.shards = {}
    BY <1>7, <1>8
  <2>2. Canonical(root.shards) /\ Durable(root)'
    BY <2>1 DEF Canonical, Durable
  <2>3. \A kind \in Entries(EvidenceKinds) : Ascends(kind, root.inline[kind])
    <3>1. \A kind : Ascends(kind, <<>>)
      BY DEF Ascends
    <3> QED
      BY <1>7, <1>8, <3>1, KindsOfEvidence
  <2>4. Cardinality(root.media) <= MaxPlacements
    BY <1>2, <1>7, <1>8 DEF MediaFits
  <2> QED
    BY <2>2, <2>3, <2>4 DEF Decodes, ValidRoot
<1>10. Collected(new, scope)
  <2>1. \A kind : RootShards(root, kind) = {}
    BY <1>7, <1>8 DEF RootShards
  <2>2. ReadUpTo(root, "revisions", scope, 0)
    <3>1. InShards(root, "revisions") = {}
      BY <2>1 DEF InShards
    <3>2. LastsUpTo(root, "revisions", 0)
      BY <2>1 DEF LastsUpTo
    <3>3. EntriesUpTo("revisions", scope, 0) = {}
      BY <1>1, NothingUpToZero DEF EvidenceKind
    <3> QED
      BY <1>7, <1>8, <3>1, <3>2, <3>3 DEF ReadUpTo
  <2>3. new.kind = 1 /\ new.pc = "read" /\ new.after = 0 /\ new.root = root
    BY <1>6, <1>8
  <2> QED
    BY <1>7, <1>8, <2>1, <2>2, <2>3, KindsOfEvidence DEF Collected
<1>11. DraftSays(new)
  <2>1. new.run = n /\ new.root = root
    BY <1>6, <1>8
  <2>2. manifestRuns[n].state = "succeeded"
    BY <1>2 DEF OldestMissing, Missing, Succeeded
  <2> QED
    BY <1>2, <1>4, <1>7, <1>8, <1>9, <1>10, <2>1, <2>2 DEF DraftSays
<1>12. new.root = root /\ new.pc = "read" /\ appender' = [appender EXCEPT ![a] = new]
  BY <1>2, <1>6, <1>8
<1> HIDE DEF draft
<1>13. shardsSynced \subseteq shards
  BY <1>1 DEF ChainFilesKept
<1>14. Durable(new.root)'
  BY <1>9, <1>12
<1> QED
  BY <1>2, <1>3, <1>11, <1>12, <1>13, <1>14, DraftStep

\* The parts of a draft and of its root.
LEMMA DraftHasItsParts ==
  ASSUME NEW me \in Drafts
  PROVE  /\ me.pc \in {"read", "install", "sync", "rename", "acknowledge"} /\ me.run \in Nat
         /\ me.kind \in {1, 2} /\ me.after \in Nat /\ me.page \in Seq(Evidence) /\ me.root \in Manifests
         /\ EvidenceKinds[me.kind] \in EvidenceKind
         /\ me.root.run \in Nat /\ me.root.predecessor \in Nat /\ me.root.shards \in Seq(Descriptors)
         /\ me.root.inline \in [EvidenceKind -> Seq(Evidence)] /\ me.root.media \in SUBSET CapturedRevision
BY KindsOfEvidence DEF Drafts, Manifests, EvidenceKind

\* When nothing of a kind is left, the shards have all of it.
LEMMA ShardsComplete ==
  ASSUME NEW root, NEW kind, NEW scope, NEW last, ReadUpTo(root, kind, scope, last),
         \A k \in KeysOf(kind, scope) : k <= last
  PROVE  Complete(root, kind, scope)
<1>1. EntriesOf(root, kind) = InShards(root, kind)
  BY DEF EntriesOf, InShards, ReadUpTo, Entries
<1>2. EntriesUpTo(kind, scope, last) = AllEntries(kind, scope)
  BY DEF EntriesUpTo, AllEntries
<1> QED
  BY <1>1, <1>2 DEF Complete, ReadUpTo

\* A kind is done, and the draft goes to the next one or to its renaming.
LEMMA KindDone ==
  ASSUME ManifestTypes, NEW me \in Drafts, DraftSays(me), me.pc = "read",
         NEW kind, kind = EvidenceKinds[me.kind], NEW scope, scope = manifestRuns[me.run].scope,
         NEW new \in Drafts, new.run = me.run, new.kind = 2, new.after = 0,
         new.pc = IF me.kind = 1 THEN "read" ELSE "rename",
         new.root.run = me.root.run, new.root.predecessor = me.root.predecessor,
         new.root.shards = me.root.shards, new.root.media = me.root.media,
         \A other \in EvidenceKind : other # kind => new.root.inline[other] = me.root.inline[other],
         Ascends(kind, new.root.inline[kind]), Complete(new.root, kind, scope)
  PROVE  DraftSays(new)
<1>1. me.kind \in {1, 2} /\ kind = IF me.kind = 1 THEN "revisions" ELSE "heads"
  BY DraftHasItsParts, KindsOfEvidence
<1>2. \A k : RootShards(new.root, k) = RootShards(me.root, k)
  BY DEF RootShards
<1>3. Decodes(new.root)
  <2>1. Canonical(me.root.shards) /\ ValidRoot(me.root)
    BY DEF DraftSays, Decodes
  <2>2. Canonical(new.root.shards)
    BY <2>1
  <2>3. \A other \in EvidenceKind : Ascends(other, new.root.inline[other])
    BY <2>1, KindsOfEvidence DEF ValidRoot
  <2> QED
    BY <2>1, <2>2, <2>3, KindsOfEvidence DEF ValidRoot, Decodes
<1>4. Collected(me, scope)
  BY DEF DraftSays
<1>5. Collected(new, scope)
  <2>1. CASE me.kind = 1
    <3>1. kind = "revisions" /\ new.pc = "read"
      BY <1>1, <2>1
    <3>2. RootShards(new.root, "heads") = {} /\ new.root.inline["heads"] = <<>>
      BY <1>2, <1>4, <2>1, <3>1 DEF Collected, EvidenceKind
    <3>3. InShards(new.root, "heads") = {} /\ LastsUpTo(new.root, "heads", 0)
      BY <3>2 DEF InShards, LastsUpTo
    <3>4. ReadUpTo(new.root, "heads", scope, 0)
      BY <3>2, <3>3, NothingUpToZero DEF ReadUpTo, EvidenceKind
    <3> QED
      BY <3>1, <3>4, KindsOfEvidence DEF Collected
  <2>2. CASE me.kind = 2
    <3>1. kind = "heads" /\ new.pc = "rename"
      BY <1>1, <2>2
    <3>2. Complete(me.root, "revisions", scope) /\ new.root.inline["revisions"] = me.root.inline["revisions"]
      BY <1>4, <2>2, <3>1 DEF Collected, EvidenceKind
    <3>3. EntriesOf(new.root, "revisions") = EntriesOf(me.root, "revisions")
      BY <1>2, <3>2 DEF EntriesOf
    <3>4. Complete(new.root, "revisions", scope)
      BY <3>2, <3>3 DEF Complete
    <3> QED
      BY <3>1, <3>4, KindsOfEvidence DEF Collected
  <2> QED
    BY <1>1, <2>1, <2>2
<1> QED
  BY <1>3, <1>5 DEF DraftSays

LEMMA SameDraft ==
  ASSUME NEW me \in Drafts, NEW other \in Drafts, me.pc = other.pc, me.run = other.run, me.kind = other.kind,
         me.after = other.after, me.page = other.page, me.root = other.root
  PROVE  me = other
BY DEF Drafts

LEMMA NextKindOf ==
  ASSUME NEW me \in Drafts
  PROVE  NextKind(me) = [me EXCEPT !.pc = IF me.kind = 1 THEN "read" ELSE "rename", !.kind = 2, !.after = 0]
<1>1. me.kind = 1 \/ me.kind = 2
  BY DraftHasItsParts
<1>2. CASE me.kind = 1
  BY <1>2, KindsOfEvidence DEF NextKind, Drafts
<1>3. CASE me.kind = 2
  <2>1. NextKind(me) = [me EXCEPT !.pc = "rename", !.after = 0]
    BY <1>3, KindsOfEvidence DEF NextKind
  <2>2. [me EXCEPT !.pc = "rename", !.after = 0] = [me EXCEPT !.pc = "rename", !.kind = 2, !.after = 0]
    BY <1>3 DEF Drafts
  <2> QED
    BY <1>3, <2>1, <2>2
<1> QED
  BY <1>1, <1>2, <1>3

LEMMA ReadEvidenceKeepsManifests ==
  ASSUME ManifestInv, NEW a \in Appender, ReadEvidence(a) PROVE ManifestInv'
<1>1. ManifestTypes /\ ChainFilesKept
  BY DEF ManifestInv
<1>2. appender[a].pc = "read" /\ UNCHANGED <<catalogue, manifestFiles, acknowledged, appendStops>>
  BY DEF ReadEvidence
<1>3. PICK me \in Drafts : me = appender[a]
  BY <1>2, Holder
<1>4. /\ me.pc = "read" /\ \A b \in Appender : b # a => appender[b] = Away
      /\ DraftSays(me) /\ Durable(me.root)
  <2>1. DraftKept(me)
    BY <1>2, <1>3, Holder
  <2>2. \A b \in Appender : b # a => appender[b] = Away
    BY <1>2, Holder
  <2> QED
    BY <1>2, <1>3, <2>1, <2>2 DEF DraftKept
<1>5. PICK kind \in EvidenceKind : kind = EvidenceKinds[me.kind]
  BY DraftHasItsParts
<1>6. PICK scope : scope = manifestRuns[me.run].scope
  OBVIOUS
<1>7. me.after \in Nat /\ me.kind \in {1, 2} /\ ShardEntries \in Nat \ {0} /\ me.root \in Manifests /\ Len(EvidenceKinds) = 2
  BY DraftHasItsParts, KindsOfEvidence, ManifestBounds
<1>8. PICK page : page = PageAfter(kind, scope, me.after, ShardEntries)
  OBVIOUS
<1>9. /\ page \in Seq(Evidence) /\ Ascends(kind, page) /\ Len(page) \in Nat
      /\ page = <<>> => \A k \in KeysOf(kind, scope) : k <= me.after
      /\ page # <<>> =>
           /\ LastKey(kind, page) \in KeysOf(kind, scope)
           /\ me.after < KeyOf(kind, page[1]) /\ KeyOf(kind, page[1]) \in Nat /\ me.after < LastKey(kind, page)
           /\ Entries(page) = EntriesBetween(kind, scope, me.after, LastKey(kind, page))
           /\ Len(page) < ShardEntries => \A k \in KeysOf(kind, scope) : k <= LastKey(kind, page)
  <2>1. PICK after \in Nat, limit \in Nat \ {0} : after = me.after /\ limit = ShardEntries
    BY <1>7
  <2>2. page = PageAfter(kind, scope, after, limit)
    BY <1>8, <2>1
  <2>3. /\ page \in Seq(Evidence) /\ Len(page) \in 0..limit /\ Ascends(kind, page)
        /\ page = <<>> => \A k \in KeysOf(kind, scope) : k <= after
        /\ page # <<>> =>
             /\ LastKey(kind, page) \in KeysOf(kind, scope)
             /\ after < KeyOf(kind, page[1]) /\ KeyOf(kind, page[1]) \in Nat
             /\ after < LastKey(kind, page)
             /\ Entries(page) = EntriesBetween(kind, scope, after, LastKey(kind, page))
             /\ Len(page) < limit => \A k \in KeysOf(kind, scope) : k <= LastKey(kind, page)
    BY <1>1, <2>2, PageAfterTells
  <2>4. Len(page) \in Nat
    BY <2>3
  <2> QED
    BY <2>1, <2>3, <2>4, Zenon
<1>10. page # <<>> => LastKey(kind, page) \in Nat
  BY <1>1, <1>9, KeysAreNumbers
<1>11. ReadUpTo(me.root, kind, scope, me.after)
  BY <1>4, <1>5, <1>6 DEF DraftSays, Collected
<1>12. PICK pc : pc = IF me.kind = 1 THEN "read" ELSE "rename"
  OBVIOUS
<1> DEFINE fits == me.after = 0 /\ (Len(page) < ShardEntries \/ PageAfter(kind, scope, LastKey(kind, page), 1) = <<>>)
           withPage == [me EXCEPT !.root.inline[kind] = page]
           held == [me EXCEPT !.pc = "install", !.page = page, !.after = LastKey(kind, page)]
<1>13. \/ fits /\ appender' = [appender EXCEPT ![a] = NextKind(withPage)]
       \/ ~fits /\ page = <<>> /\ appender' = [appender EXCEPT ![a] = NextKind(me)]
       \/ ~fits /\ page # <<>> /\ appender' = [appender EXCEPT ![a] = held]
  BY <1>3, <1>5, <1>6, <1>8 DEF ReadEvidence
<1> HIDE DEF fits, withPage, held
<1>14. SUFFICES \E new \in Drafts : /\ appender' = [appender EXCEPT ![a] = new] /\ DraftSays(new)
                                   /\ Durable(new.root) /\ new.pc \notin {"sync", "acknowledge"}
  <2>1. PICK new \in Drafts : /\ appender' = [appender EXCEPT ![a] = new] /\ DraftSays(new)
                              /\ Durable(new.root) /\ new.pc \notin {"sync", "acknowledge"}
    BY <1>14
  <2>2. Durable(new.root)'
    BY <1>2, <2>1 DEF Durable, manifestFiles
  <2>3. UNCHANGED <<catalogue, roots, rootsSynced, acknowledged, appendStops>>
        /\ shards \subseteq shards' /\ shardsSynced \subseteq shardsSynced' /\ shardsSynced' \subseteq shards'
    BY <1>1, <1>2 DEF manifestFiles, ChainFilesKept
  <2>4. new.pc # "sync" /\ new.pc # "acknowledge"
    BY <2>1
  <2> QED
    BY <1>4, <2>1, <2>2, <2>3, <2>4, DraftStep
<1>15. CASE fits
  <2>1. PICK root \in Manifests :
          /\ root = [me.root EXCEPT !.inline = [me.root.inline EXCEPT ![kind] = page]]
          /\ root.run = me.root.run /\ root.predecessor = me.root.predecessor /\ root.shards = me.root.shards
          /\ root.media = me.root.media /\ root.inline = [me.root.inline EXCEPT ![kind] = page]
    <3>1. [me.root.inline EXCEPT ![kind] = page] \in [EvidenceKind -> Seq(Evidence)]
      BY <1>9, DraftHasItsParts
    <3>2. PICK inline \in [EvidenceKind -> Seq(Evidence)] : inline = [me.root.inline EXCEPT ![kind] = page]
      BY <3>1
    <3>3. [me.root EXCEPT !.inline = inline] \in Manifests
      BY <1>7, <3>2 DEF Manifests
    <3> QED
      BY <1>7, <3>2, <3>3 DEF Manifests
  <2>2. /\ root.inline[kind] = page
        /\ \A other \in EvidenceKind : other # kind => root.inline[other] = me.root.inline[other]
    BY <2>1, DraftHasItsParts
  <2>3. PICK new : new = [pc |-> pc, run |-> me.run, kind |-> 2, after |-> 0, page |-> me.page, root |-> root]
    OBVIOUS
  <2>4. /\ new \in Drafts /\ appender' = [appender EXCEPT ![a] = new]
        /\ new.pc = pc /\ new.run = me.run /\ new.kind = 2 /\ new.after = 0 /\ new.root = root
    <3>1. withPage = [me EXCEPT !.root = root]
      BY <2>1 DEF withPage, Drafts, Manifests
    <3>2. withPage \in Drafts /\ withPage.kind = me.kind
      BY <2>1, <3>1 DEF Drafts
    <3>3. NextKind(withPage) = [withPage EXCEPT !.pc = pc, !.kind = 2, !.after = 0]
      BY <3>2, NextKindOf, <1>12
    <3>4. NextKind(withPage) = new
      BY <2>3, <3>1, <3>3 DEF Drafts
    <3>5. pc \in {"read", "rename"} /\ me.run \in Nat /\ me.page \in Seq(Evidence)
      BY <1>12, DraftHasItsParts
    <3> QED
      BY <1>13, <1>15, <2>1, <2>3, <3>4, <3>5 DEF Drafts
  <2>5. \A k \in KeysOf(kind, scope) : k <= IF page = <<>> THEN 0 ELSE LastKey(kind, page)
    <3>1. CASE page = <<>>
      BY <1>9, <1>15, <3>1 DEF fits
    <3>2. CASE page # <<>> /\ Len(page) < ShardEntries
      BY <1>9, <3>2
    <3>3. CASE page # <<>> /\ PageAfter(kind, scope, LastKey(kind, page), 1) = <<>>
      BY <1>1, <1>10, <3>3, PageAfterTells
    <3> QED
      BY <1>7, <1>9, <1>15, <3>1, <3>2, <3>3 DEF fits
  <2>6. Entries(page) = AllEntries(kind, scope)
    <3>1. CASE page = <<>>
      <4>1. Entries(page) = {} /\ KeysOf(kind, scope) = {}
        BY <1>1, <2>5, <3>1, KeysAreNumbers DEF Entries
      <4> QED
        BY <4>1 DEF AllEntries
    <3>2. CASE page # <<>>
      <4>1. KeysBetween(kind, scope, me.after, LastKey(kind, page)) = KeysOf(kind, scope)
        BY <1>1, <1>15, <2>5, <3>2, KeysAreNumbers DEF KeysBetween, fits
      <4> QED
        BY <1>9, <3>2, <4>1 DEF AllEntries, EntriesBetween
    <3> QED
      BY <3>1, <3>2
  <2>7. Complete(root, kind, scope)
    <3>1. InShards(me.root, kind) = {}
      BY <1>1, <1>11, <1>15, NothingUpToZero DEF ReadUpTo, fits
    <3>2. EntriesOf(root, kind) = Entries(page) \cup InShards(me.root, kind)
      BY <2>1, <2>2 DEF EntriesOf, InShards, RootShards
    <3> QED
      BY <2>6, <3>1, <3>2 DEF Complete
  <2>8. DraftSays(new)
    <3>1. new.after = 0 /\ new.pc = (IF me.kind = 1 THEN "read" ELSE "rename")
      BY <1>12, <2>4
    <3>2. /\ new.root.run = me.root.run /\ new.root.predecessor = me.root.predecessor
          /\ new.root.shards = me.root.shards /\ new.root.media = me.root.media
          /\ \A other \in EvidenceKind : other # kind => new.root.inline[other] = me.root.inline[other]
          /\ Ascends(kind, new.root.inline[kind])
      BY <1>9, <2>1, <2>2, <2>4
    <3>3. Complete(new.root, kind, scope) /\ DraftSays(me) /\ me.pc = "read" /\ new.run = me.run /\ new.kind = 2
      BY <1>4, <2>4, <2>7
    <3> QED
      BY <1>1, <1>5, <1>6, <2>4, <3>1, <3>2, <3>3, KindDone
  <2>9. Durable(new.root)
    BY <1>4, <2>1, <2>4 DEF Durable
  <2>10. new.pc \notin {"sync", "acknowledge"}
    BY <1>12, <2>4
  <2> QED
    BY <2>4, <2>8, <2>9, <2>10, Zenon
<1>16. CASE ~fits /\ page = <<>>
  <2>1. PICK new : new = [pc |-> pc, run |-> me.run, kind |-> 2, after |-> 0, page |-> me.page, root |-> me.root]
    OBVIOUS
  <2>2. /\ new \in Drafts /\ appender' = [appender EXCEPT ![a] = new]
        /\ new.pc = pc /\ new.run = me.run /\ new.kind = 2 /\ new.after = 0 /\ new.root = me.root
    <3>1. NextKind(me) = [me EXCEPT !.pc = pc, !.kind = 2, !.after = 0]
      BY NextKindOf, <1>12
    <3>2. NextKind(me) = new
      BY <2>1, <3>1 DEF Drafts
    <3>3. pc \in {"read", "rename"} /\ me.run \in Nat /\ me.page \in Seq(Evidence)
      BY <1>12, DraftHasItsParts
    <3> QED
      BY <1>7, <1>13, <1>16, <2>1, <3>2, <3>3 DEF Drafts
  <2>3. Complete(me.root, kind, scope)
    BY <1>9, <1>11, <1>16, ShardsComplete
  <2>4. DraftSays(new)
    <3>1. new.pc = IF me.kind = 1 THEN "read" ELSE "rename"
      BY <1>12, <2>2
    <3>2. /\ new.root = me.root /\ new.run = me.run /\ new.kind = 2 /\ new.after = 0
          /\ Ascends(kind, new.root.inline[kind]) /\ Complete(new.root, kind, scope)
          /\ DraftSays(me) /\ me.pc = "read"
      BY <1>4, <1>11, <2>2, <2>3 DEF ReadUpTo, Ascends
    <3> QED
      BY <1>1, <1>5, <1>6, <2>2, <3>1, <3>2, KindDone
  <2>5. Durable(new.root) /\ new.pc \notin {"sync", "acknowledge"}
    BY <1>4, <1>12, <2>2
  <2> QED
    BY <2>2, <2>4, <2>5, Zenon
<1>17. CASE ~fits /\ page # <<>>
  <2>1. PICK last \in Nat : last = LastKey(kind, page)
    BY <1>10, <1>17
  <2>2. PICK new : new = [pc |-> "install", run |-> me.run, kind |-> me.kind, after |-> last, page |-> page, root |-> me.root]
    OBVIOUS
  <2>3. /\ new \in Drafts /\ appender' = [appender EXCEPT ![a] = new]
        /\ new.pc = "install" /\ new.run = me.run /\ new.kind = me.kind /\ new.after = last
        /\ new.page = page /\ new.root = me.root
    <3>1. held = new
      <4>1. held = [me EXCEPT !.pc = "install", !.page = page, !.after = last]
        BY <2>1 DEF held
      <4>2. page \in Seq(Evidence)
        BY <1>9
      <4>3. [me EXCEPT !.pc = "install", !.page = page, !.after = last] \in Drafts /\ new \in Drafts
        BY <1>7, <2>2, <4>2, DraftHasItsParts DEF Drafts
      <4> QED
        <5>1. PICK old \in Drafts : old = [me EXCEPT !.pc = "install", !.page = page, !.after = last]
          BY <4>3
        <5>2. /\ old.pc = "install" /\ old.run = me.run /\ old.kind = me.kind /\ old.after = last
              /\ old.page = page /\ old.root = me.root
          BY <5>1 DEF Drafts
        <5>3. new \in Drafts /\ new.pc = "install" /\ new.run = me.run /\ new.kind = me.kind /\ new.after = last
              /\ new.page = page /\ new.root = me.root
          BY <2>2, <4>3
        <5>4. old = new
          BY <5>2, <5>3, SameDraft
        <5> QED
          BY <4>1, <5>1, <5>4, Zenon
    <3>2. me.run \in Nat
      BY DraftHasItsParts
    <3> QED
      BY <1>7, <1>9, <1>13, <1>17, <2>2, <3>1, <3>2 DEF Drafts
  <2>4. HoldsPage(new, kind, scope)
    <3>1. me.after \in 0..last
      BY <1>7, <1>9, <1>17, <2>1
    <3> QED
      BY <1>9, <1>11, <1>17, <2>1, <2>3, <3>1 DEF HoldsPage
  <2>5. DraftSays(new)
    <3>1. Collected(new, scope)
      BY <1>4, <1>5, <1>6, <2>3, <2>4 DEF DraftSays, Collected
    <3> QED
      BY <1>4, <1>6, <2>3, <3>1 DEF DraftSays
  <2>6. Durable(new.root) /\ new.pc \notin {"sync", "acknowledge"}
    BY <1>4, <2>3
  <2> QED
    BY <2>3, <2>5, <2>6, Zenon
<1> QED
  BY <1>15, <1>16, <1>17

LEMMA InstallShardKeepsManifests ==
  ASSUME ManifestInv, NEW a \in Appender, InstallShard(a) PROVE ManifestInv'
<1>1. ManifestTypes /\ ChainFilesKept
  BY DEF ManifestInv
<1>2. /\ appender[a].pc = "install" /\ shards' = shards \cup {ShardOf(appender[a])}
      /\ appender' = [appender EXCEPT ![a].pc = "sync"]
      /\ UNCHANGED <<catalogue, roots, rootsSynced, shardsSynced, acknowledged, appendStops>>
  BY DEF InstallShard
<1>3. PICK me \in Drafts : me = appender[a]
  BY <1>2, Holder
<1>4. /\ me.pc = "install" /\ \A b \in Appender : b # a => appender[b] = Away
      /\ DraftSays(me) /\ Durable(me.root)
  <2>1. DraftKept(me)
    BY <1>2, <1>3, Holder
  <2>2. \A b \in Appender : b # a => appender[b] = Away
    BY <1>2, Holder
  <2> QED
    BY <1>2, <1>3, <2>1, <2>2 DEF DraftKept
<1>5. PICK new : new = [me EXCEPT !.pc = "sync"]
  OBVIOUS
<1>6. /\ new \in Drafts /\ appender' = [appender EXCEPT ![a] = new]
      /\ new.pc = "sync" /\ new.run = me.run /\ new.kind = me.kind /\ new.after = me.after
      /\ new.page = me.page /\ new.root = me.root
  BY <1>2, <1>3, <1>5 DEF Drafts
<1>7. DraftSays(new)
  <2>1. PICK kind, scope : kind = EvidenceKinds[me.kind] /\ scope = manifestRuns[me.run].scope
    OBVIOUS
  <2>2. Collected(me, scope)
    BY <1>4, <2>1 DEF DraftSays
  <2>3. HoldsPage(me, kind, scope)
    BY <1>4, <2>1, <2>2 DEF Collected
  <2>4. HoldsPage(new, kind, scope)
    BY <1>6, <2>3 DEF HoldsPage
  <2>5. Collected(new, scope)
    BY <1>6, <2>1, <2>2, <2>4 DEF Collected
  <2> QED
    BY <1>4, <1>6, <2>1, <2>5 DEF DraftSays
<1>8. Durable(new.root)' /\ ShardOf(new) \in shards'
  <2>1. PICK root : root = new.root /\ root = me.root
    BY <1>6
  <2>2. Durable(root)'
    BY <1>2, <1>4, <2>1 DEF Durable
  <2>3. ShardOf(new) = ShardOf(me)
    BY <1>6 DEF ShardOf
  <2> QED
    BY <1>2, <1>3, <2>1, <2>2, <2>3
<1>9. shards \subseteq shards' /\ shardsSynced \subseteq shardsSynced' /\ shardsSynced' \subseteq shards'
      /\ UNCHANGED <<catalogue, roots, rootsSynced, acknowledged, appendStops>>
  BY <1>1, <1>2 DEF ChainFilesKept
<1>10. new.pc # "acknowledge"
  BY <1>6
<1> QED
  BY <1>4, <1>6, <1>7, <1>8, <1>9, <1>10, DraftStep

\* A descriptor joins those of a root, with keys beyond theirs.
LEMMA CanonicalGrows ==
  ASSUME NEW all \in Seq(Descriptors), Canonical(all), NEW it \in Descriptors, it.entries # <<>>,
         it.ordinal = Cardinality({j \in 1..Len(all) : all[j].kind = it.kind}),
         it.kind = "revisions" => \A j \in 1..Len(all) : all[j].kind = "revisions",
         \A j \in 1..Len(all) : all[j].kind = it.kind =>
           LastKey(it.kind, all[j].entries) < KeyOf(it.kind, it.entries[1])
  PROVE  Canonical(Append(all, it))
<1>1. PICK new : new = Append(all, it)
  OBVIOUS
<1>2. /\ Len(all) \in Nat /\ DOMAIN new = 1..(Len(all) + 1) /\ DOMAIN all = 1..Len(all)
      /\ new[Len(all) + 1] = it /\ \A i \in 1..Len(all) : new[i] = all[i]
  BY <1>1
<1> SUFFICES ASSUME NEW i \in DOMAIN new
             PROVE  /\ new[i].entries # <<>>
                    /\ new[i].ordinal = Cardinality({j \in 1..i - 1 : new[j].kind = new[i].kind})
                    /\ new[i].kind = "revisions" => \A j \in 1..i - 1 : new[j].kind = "revisions"
                    /\ \A j \in {j \in 1..i - 1 : new[j].kind = new[i].kind} :
                         LastKey(new[i].kind, new[j].entries) < KeyOf(new[i].kind, new[i].entries[1])
  BY <1>1, Zenon DEF Canonical
<1>3. \A j \in 1..i - 1 : j \in 1..Len(all) /\ new[j] = all[j]
  BY <1>2
<1>4. CASE i <= Len(all)
  <2>1. i \in DOMAIN all /\ new[i] = all[i]
    BY <1>2, <1>4
  <2>2. {j \in 1..i - 1 : new[j].kind = new[i].kind} = {j \in 1..i - 1 : all[j].kind = all[i].kind}
    BY <1>3, <2>1
  <2>3. /\ all[i].entries # <<>>
        /\ all[i].ordinal = Cardinality({j \in 1..i - 1 : all[j].kind = all[i].kind})
        /\ all[i].kind = "revisions" => \A j \in 1..i - 1 : all[j].kind = "revisions"
        /\ \A j \in {j \in 1..i - 1 : all[j].kind = all[i].kind} :
             LastKey(all[i].kind, all[j].entries) < KeyOf(all[i].kind, all[i].entries[1])
    BY <2>1 DEF Canonical
  <2>4. new[i].ordinal = Cardinality({j \in 1..i - 1 : new[j].kind = new[i].kind})
    BY <2>1, <2>2, <2>3
  <2> QED
    BY <1>3, <2>1, <2>3, <2>4
<1>5. CASE i = Len(all) + 1
  <2>1. new[i] = it /\ i - 1 = Len(all)
    BY <1>2, <1>5
  <2>2. {j \in 1..i - 1 : new[j].kind = new[i].kind} = {j \in 1..Len(all) : all[j].kind = it.kind}
    BY <1>3, <2>1
  <2>3. new[i].ordinal = Cardinality({j \in 1..i - 1 : new[j].kind = new[i].kind})
    BY <2>1, <2>2
  <2> QED
    BY <1>3, <2>1, <2>3
<1> QED
  BY <1>2, <1>4, <1>5

LEMMA SyncShardKeepsManifests ==
  ASSUME ManifestInv, NEW a \in Appender, SyncShard(a) PROVE ManifestInv'
<1>1. ManifestTypes /\ ChainFilesKept
  BY DEF ManifestInv
<1>2. /\ appender[a].pc = "sync" /\ shardsSynced' = shardsSynced \cup {ShardOf(appender[a])}
      /\ appender' = [appender EXCEPT ![a] = Describe(appender[a], ShardOf(appender[a]))]
      /\ UNCHANGED <<catalogue, roots, rootsSynced, shards, acknowledged, appendStops>>
  BY <1>1 DEF SyncShard, ManifestTypes
<1>3. PICK me \in Drafts : me = appender[a]
  BY <1>2, Holder
<1>4. /\ me.pc = "sync" /\ \A b \in Appender : b # a => appender[b] = Away
      /\ DraftSays(me) /\ Durable(me.root) /\ ShardOf(me) \in shards
  <2>1. DraftKept(me)
    BY <1>2, <1>3, Holder
  <2>2. \A b \in Appender : b # a => appender[b] = Away
    BY <1>2, Holder
  <2> QED
    BY <1>2, <1>3, <2>1, <2>2 DEF DraftKept
<1>5. PICK kind, scope : kind \in EvidenceKind /\ kind = EvidenceKinds[me.kind] /\ scope = manifestRuns[me.run].scope
  BY DraftHasItsParts
<1>6. Collected(me, scope) /\ Decodes(me.root)
  BY <1>4, <1>5 DEF DraftSays
<1>7. PICK lo \in 0..me.after :
        /\ ReadUpTo(me.root, kind, scope, lo)
        /\ me.page # <<>> /\ Ascends(kind, me.page) /\ LastKey(kind, me.page) = me.after
        /\ lo < me.after /\ KeyOf(kind, me.page[1]) \in Nat /\ lo < KeyOf(kind, me.page[1])
        /\ Entries(me.page) = EntriesBetween(kind, scope, lo, me.after)
  <2>1. HoldsPage(me, kind, scope)
    BY <1>4, <1>5, <1>6 DEF Collected
  <2> QED
    BY <2>1 DEF HoldsPage
<1>8. PICK all \in Seq(Descriptors), n \in Nat : all = me.root.shards /\ n = Len(all) /\ DOMAIN all = 1..n
  BY DraftHasItsParts
<1>9. PICK it : it = [kind |-> kind, entries |-> me.page, ordinal |-> Cardinality(RootShards(me.root, kind))]
  OBVIOUS
<1>10. it \in Descriptors /\ it.kind = kind /\ it.entries = me.page /\ it.ordinal = Cardinality(RootShards(me.root, kind))
  BY <1>5, <1>9, DraftHasItsParts, RootShardsFinite DEF Descriptors
<1>11. PICK root : root = [me.root EXCEPT !.shards = Append(all, it)]
  OBVIOUS
<1>12. /\ root \in Manifests /\ root.run = me.root.run /\ root.predecessor = me.root.predecessor
       /\ root.shards = Append(all, it) /\ root.inline = me.root.inline /\ root.media = me.root.media
  <2>1. Append(all, it) \in Seq(Descriptors)
    BY <1>10
  <2> QED
    BY <1>11, <2>1, DraftHasItsParts DEF Manifests
<1>13. PICK new : new = [me EXCEPT !.pc = "read", !.page = <<>>, !.root = root]
  OBVIOUS
<1>14. /\ new \in Drafts /\ appender' = [appender EXCEPT ![a] = new]
       /\ new.pc = "read" /\ new.run = me.run /\ new.kind = me.kind /\ new.after = me.after /\ new.root = root
  <2>1. PICK shard : shard = ShardOf(me) /\ shard.kind = kind /\ shard.entries = me.page
    <3>1. ShardOf(me).kind = kind /\ ShardOf(me).entries = me.page
      BY <1>5 DEF ShardOf
    <3> QED
      BY <3>1
  <2>2. Describe(me, shard) = new
    <3>1. Describe(me, shard) = [me EXCEPT !.pc = "read", !.page = <<>>, !.root.shards = Append(@, it)]
      BY <1>9, <2>1 DEF Describe
    <3> QED
      BY <1>8, <1>11, <1>13, <3>1 DEF Drafts, Manifests
  <2>3. appender' = [appender EXCEPT ![a] = new]
    BY <1>2, <1>3, <2>1, <2>2
  <2>4. root \in Manifests /\ <<>> \in Seq(Evidence)
    BY <1>12
  <2>5. new \in Drafts /\ new.pc = "read" /\ new.run = me.run /\ new.kind = me.kind /\ new.after = me.after /\ new.root = root
    BY <1>13, <2>4 DEF Drafts
  <2> QED
    BY <2>3, <2>5
<1>15. /\ RootShards(root, kind) = RootShards(me.root, kind) \cup {n + 1}
       /\ \A other : other # kind => RootShards(root, other) = RootShards(me.root, other)
       /\ \A i \in 1..n : root.shards[i] = all[i]
       /\ root.shards[n + 1] = it /\ DOMAIN root.shards = 1..(n + 1)
  <2>1. root.shards[n + 1] = it /\ DOMAIN root.shards = 1..(n + 1) /\ \A i \in 1..n : root.shards[i] = all[i]
    BY <1>8, <1>10, <1>12
  <2>2. \A i \in DOMAIN root.shards : i \in 1..n \/ i = n + 1
    BY <2>1
  <2>3. 1..n \subseteq 1..(n + 1) /\ n + 1 \in 1..(n + 1)
    OBVIOUS
  <2> QED
    BY <1>8, <1>10, <2>1, <2>2, <2>3 DEF RootShards
<1>16. \A k : \A i \in RootShards(me.root, k) : i \in 1..n /\ all[i].kind = k /\ root.shards[i] = all[i]
  BY <1>8, <1>15 DEF RootShards
<1>17. InShards(root, kind) = InShards(me.root, kind) \cup Entries(me.page)
  <2>1. \A i \in RootShards(me.root, kind) : Entries(root.shards[i].entries) = Entries(me.root.shards[i].entries)
    BY <1>8, <1>16
  <2>2. Entries(root.shards[n + 1].entries) = Entries(me.page)
    BY <1>10, <1>15
  <2>3. ASSUME NEW x PROVE x \in InShards(root, kind) <=> x \in InShards(me.root, kind) \cup Entries(me.page)
    <3>1. x \in InShards(root, kind) <=> \E i \in RootShards(root, kind) : x \in Entries(root.shards[i].entries)
      BY DEF InShards
    <3>2. x \in InShards(me.root, kind) <=> \E i \in RootShards(me.root, kind) : x \in Entries(me.root.shards[i].entries)
      BY DEF InShards
    <3>3. (\E i \in RootShards(root, kind) : x \in Entries(root.shards[i].entries))
          <=> (\E i \in RootShards(me.root, kind) : x \in Entries(root.shards[i].entries))
              \/ x \in Entries(root.shards[n + 1].entries)
      BY <1>15
    <3> QED
      BY <2>1, <2>2, <3>1, <3>2, <3>3
  <2> QED
    BY <2>3
<1>18. \A other : other # kind => EntriesOf(root, other) = EntriesOf(me.root, other)
  <2> SUFFICES ASSUME NEW other, other # kind PROVE EntriesOf(root, other) = EntriesOf(me.root, other)
    OBVIOUS
  <2>1. RootShards(root, other) = RootShards(me.root, other)
    BY <1>15
  <2>2. \A i \in RootShards(me.root, other) : Entries(root.shards[i].entries) = Entries(me.root.shards[i].entries)
    BY <1>8, <1>16
  <2>3. {Entries(root.shards[i].entries) : i \in RootShards(root, other)}
        = {Entries(me.root.shards[i].entries) : i \in RootShards(me.root, other)}
    BY <2>1, <2>2
  <2> QED
    BY <1>12, <2>3 DEF EntriesOf
<1>19. ReadUpTo(root, kind, scope, me.after)
  <2>1. EntriesUpTo(kind, scope, lo) \cup EntriesBetween(kind, scope, lo, me.after) = EntriesUpTo(kind, scope, me.after)
    <3>1. me.after \in Nat /\ \A k \in KeysOf(kind, scope) : k \in Nat
      BY <1>1, <1>5, DraftHasItsParts, KeysAreNumbers
    <3>2. \A k \in KeysOf(kind, scope) : k <= me.after <=> (k <= lo \/ (lo < k /\ k <= me.after))
      BY <1>7, <3>1
    <3> QED
      BY <3>2 DEF EntriesUpTo, EntriesBetween, KeysBetween
  <2>2. InShards(root, kind) = EntriesUpTo(kind, scope, me.after)
    BY <1>7, <1>17, <2>1 DEF ReadUpTo
  <2>3. LastsUpTo(root, kind, me.after)
    <3>1. me.after \in Nat
      BY DraftHasItsParts
    <3>2. \A i \in RootShards(me.root, kind) : LastKey(kind, root.shards[i].entries) \in 0..me.after
      <4>1. ASSUME NEW i \in RootShards(me.root, kind) PROVE LastKey(kind, root.shards[i].entries) \in 0..me.after
        <5>1. LastKey(kind, root.shards[i].entries) \in 0..lo
          BY <1>7, <1>8, <1>16 DEF ReadUpTo, LastsUpTo
        <5> QED
          BY <1>7, <3>1, <5>1
      <4> QED
        BY <4>1
    <3>3. LastKey(kind, root.shards[n + 1].entries) \in 0..me.after
      BY <1>7, <1>10, <1>15, <3>1
    <3> QED
      BY <1>15, <3>2, <3>3 DEF LastsUpTo
  <2> QED
    BY <1>7, <1>12, <2>2, <2>3 DEF ReadUpTo
<1>20. Decodes(root)
  <2>1. Canonical(all) /\ ValidRoot(me.root)
    BY <1>6, <1>8 DEF Decodes
  <2>2. ValidRoot(root)
    BY <1>12, <2>1 DEF ValidRoot
  <2>3. {j \in 1..Len(all) : all[j].kind = kind} = RootShards(me.root, kind)
    BY <1>8 DEF RootShards
  <2>4. ASSUME kind = "revisions", NEW j \in 1..Len(all) PROVE all[j].kind = "revisions"
    <3>1. me.kind = 1
      BY <1>5, <2>4, DraftHasItsParts, KindsOfEvidence
    <3>2. RootShards(me.root, "heads") = {}
      BY <1>6, <3>1 DEF Collected
    <3>3. all[j].kind # "heads" /\ all[j] \in Descriptors
      BY <1>8, <3>2 DEF RootShards
    <3> QED
      BY <3>3 DEF Descriptors, EvidenceKind
  <2>5. ASSUME NEW j \in 1..Len(all), all[j].kind = kind
        PROVE  LastKey(kind, all[j].entries) < KeyOf(kind, me.page[1])
    <3>1. j \in RootShards(me.root, kind)
      BY <2>3, <2>5
    <3>2. LastKey(kind, all[j].entries) \in 0..lo
      BY <1>7, <1>8, <3>1 DEF ReadUpTo, LastsUpTo
    <3> QED
      BY <1>7, <3>2
  <2>6. Canonical(Append(all, it))
    <3>1. it.ordinal = Cardinality({j \in 1..Len(all) : all[j].kind = it.kind})
      BY <1>10, <2>3
    <3>2. it.kind = "revisions" => \A j \in 1..Len(all) : all[j].kind = "revisions"
      BY <1>10, <2>4
    <3>3. \A j \in 1..Len(all) : all[j].kind = it.kind =>
            LastKey(it.kind, all[j].entries) < KeyOf(it.kind, it.entries[1])
      BY <1>10, <2>5
    <3>4. it \in Descriptors /\ it.entries # <<>>
      BY <1>7, <1>10
    <3> QED
      BY <2>1, <3>1, <3>2, <3>3, <3>4, CanonicalGrows
  <2> QED
    BY <1>12, <2>2, <2>6 DEF Decodes
<1>21. Collected(new, scope)
  <2>1. me.kind = 1 => RootShards(root, "heads") = {} /\ root.inline["heads"] = <<>>
    <3>1. CASE me.kind = 1
      <4>1. kind # "heads"
        BY <1>5, <3>1, KindsOfEvidence
      <4> QED
        BY <1>6, <1>12, <1>15, <3>1, <4>1 DEF Collected
    <3> QED
      BY <3>1
  <2>2. me.kind = 2 => Complete(root, "revisions", scope)
    <3>1. CASE me.kind = 2
      <4>1. kind # "revisions"
        BY <1>5, <3>1, KindsOfEvidence
      <4> QED
        BY <1>6, <1>18, <3>1, <4>1 DEF Collected, Complete
    <3> QED
      BY <3>1
  <2> QED
    BY <1>5, <1>14, <1>19, <2>1, <2>2 DEF Collected
<1>22. DraftSays(new)
  BY <1>4, <1>5, <1>12, <1>14, <1>20, <1>21 DEF DraftSays
<1>23. Durable(new.root)'
  <2>1. ASSUME NEW i \in DOMAIN root.shards
        PROVE  /\ [kind |-> root.shards[i].kind, entries |-> root.shards[i].entries] \in shardsSynced'
               /\ Ascends(root.shards[i].kind, root.shards[i].entries)
    <3>1. CASE i \in 1..n
      BY <1>2, <1>4, <1>8, <1>15, <3>1 DEF Durable
    <3>2. CASE i = n + 1
      <4>1. [kind |-> it.kind, entries |-> it.entries] = ShardOf(me)
        BY <1>5, <1>10 DEF ShardOf
      <4> QED
        BY <1>2, <1>3, <1>7, <1>10, <1>15, <3>2, <4>1
    <3> QED
      BY <1>15, <3>1, <3>2
  <2> QED
    BY <1>14, <2>1 DEF Durable
<1>24. shards \subseteq shards' /\ shardsSynced \subseteq shardsSynced' /\ shardsSynced' \subseteq shards'
       /\ UNCHANGED <<catalogue, roots, rootsSynced, acknowledged, appendStops>>
  BY <1>1, <1>2, <1>3, <1>4 DEF ChainFilesKept
<1>25. new.pc # "sync" /\ new.pc # "acknowledge"
  BY <1>14
<1> QED
  BY <1>4, <1>14, <1>22, <1>23, <1>24, <1>25, DraftStep

\* The steps that end an append leave the catalogue and the shards alone.
LEMMA RenameRootKeepsManifests ==
  ASSUME ManifestInv, NEW a \in Appender, RenameRoot(a) PROVE ManifestInv'
<1>1. ManifestTypes /\ CatalogueKept /\ RunsInOrder /\ ChainKept /\ ChainFilesKept
  BY DEF ManifestInv
<1>2. /\ appender[a].pc = "rename" /\ roots' = Append(roots, appender[a].root)
      /\ appender' = [appender EXCEPT ![a].pc = "acknowledge"]
      /\ UNCHANGED <<catalogue, rootsSynced, shards, shardsSynced, acknowledged, appendStops>>
  BY DEF RenameRoot
<1>3. PICK me \in Drafts : me = appender[a]
  BY <1>2, Holder
<1>4. /\ me.pc = "rename" /\ \A b \in Appender : b # a => appender[b] = Away
      /\ DraftSays(me) /\ Durable(me.root)
  <2>1. DraftKept(me)
    BY <1>2, <1>3, Holder
  <2>2. \A b \in Appender : b # a => appender[b] = Away
    BY <1>2, Holder
  <2> QED
    BY <1>2, <1>3, <2>1, <2>2 DEF DraftKept
<1>5. PICK root, scope : root \in Manifests /\ root = me.root /\ scope = manifestRuns[me.run].scope
  BY DraftHasItsParts
<1>6. PICK n \in Nat \ {0} : n = me.run /\ n = Len(roots) + 1
  BY <1>1, <1>4 DEF DraftSays, ManifestTypes
<1>7. /\ n \in DOMAIN manifestRuns /\ manifestRuns[n].state = "succeeded" /\ manifestRuns[n].scope = scope
      /\ root.run = n /\ root.predecessor = n - 1 /\ root.media = MediaSnapshot(scope)
      /\ Decodes(root) /\ Durable(root)
      /\ Complete(root, "revisions", scope) /\ Complete(root, "heads", scope)
  BY <1>4, <1>5, <1>6, DraftHasItsParts DEF DraftSays, Collected
<1>8. /\ roots' \in Seq(Manifests) /\ Len(roots) = n - 1 /\ Len(roots') = n /\ roots'[n] = root
      /\ \A i \in 1..n - 1 : roots'[i] = roots[i]
  BY <1>1, <1>2, <1>3, <1>5, <1>6 DEF ManifestTypes
<1>9. \A k \in 1..n - 1 : ChainLink(k)'
  <2>1. PICK m \in 0..Len(roots) : m = n - 1 /\ m = Len(roots)
    <3>1. n - 1 \in 0..Len(roots)
      BY <1>6, <1>8
    <3> QED
      BY <1>8, <3>1
  <2>2. roots' \in Seq(Manifests) /\ m <= Len(roots') /\ \A i \in 1..m : roots'[i] = roots[i]
    BY <1>6, <1>8, <2>1
  <2>3. /\ \A k \in DOMAIN manifestRuns : manifestRuns[k].state = "succeeded" =>
             k \in DOMAIN manifestRuns' /\ manifestRuns'[k] = manifestRuns[k]
        /\ shardsSynced \subseteq shardsSynced'
    BY <1>2 DEF catalogue
  <2>4. \A k \in 1..m : ChainLink(k)'
    BY <1>1, <2>2, <2>3, LinksKept
  <2> QED
    BY <2>1, <2>4
<1>10. PICK before : before = ClaimedBy(n - 1)
  OBVIOUS
<1>11. ClaimedBy(n - 1)' = before /\ ClaimedBy(n)' = before \cup EntriesOf(root, "revisions")
  <2>1. PICK m \in 0..Len(roots) : m = n - 1 /\ m = Len(roots) /\ m \in 0..m
    <3>1. n - 1 \in 0..Len(roots) /\ n - 1 \in 0..n - 1
      BY <1>6, <1>8
    <3> QED
      BY <1>8, <3>1
  <2>2. ClaimedBy(m)' = ClaimedBy(m)
    <3>1. roots' \in Seq(Manifests) /\ m <= Len(roots') /\ \A i \in 1..m : roots'[i] = roots[i]
      BY <1>6, <1>8, <2>1
    <3>2. \A k \in 0..m : ClaimedBy(k)' = ClaimedBy(k)
      BY <1>1, <3>1, ClaimsKept
    <3> QED
      BY <2>1, <3>2
  <2>3. ClaimedBy(n - 1)' = before
    BY <1>10, <2>1, <2>2
  <2>4. ClaimedBy(n)' = ClaimedBy(n - 1)' \cup EntriesOf(roots'[n], "revisions")
    <3>1. ClaimedBy(n)' = UNION {EntriesOf(roots'[i], "revisions") : i \in 1..n}
      BY DEF ClaimedBy
    <3>2. ClaimedBy(n - 1)' = UNION {EntriesOf(roots'[i], "revisions") : i \in 1..n - 1}
      BY DEF ClaimedBy
    <3>3. \A i \in 1..n : i \in 1..n - 1 \/ i = n
      OBVIOUS
    <3>4. 1..n - 1 \subseteq 1..n /\ n \in 1..n
      OBVIOUS
    <3> QED
      BY <3>1, <3>2, <3>3, <3>4
  <2> QED
    BY <1>8, <2>3, <2>4
<1>12. InCatalogue(scope) \subseteq ClaimedBy(n)'
  <2>1. EntriesOf(root, "revisions") = Unclaimed(scope)
    <3>1. \A k : EntryOf("revisions", k) = k
      BY DEF EntryOf
    <3>2. KeysOf("revisions", scope) = Unclaimed(scope)
      BY DEF KeysOf
    <3> QED
      BY <1>7, <3>1, <3>2 DEF Complete, AllEntries
  <2>2. Unclaimed(scope) = InCatalogue(scope) \ before
    BY <1>8, <1>10 DEF Unclaimed
  <2> QED
    BY <1>11, <2>1, <2>2
<1>13. EntriesOf(root, "revisions") \cap ClaimedBy(n - 1)' = {}
  <2>1. EntriesOf(root, "revisions") \subseteq Unclaimed(scope)
    BY <1>7 DEF Complete, AllEntries, KeysOf, EntryOf
  <2> QED
    BY <1>8, <1>10, <1>11, <2>1 DEF Unclaimed
<1>14. ASSUME NEW head \in EntriesOf(root, "heads") PROVE head[2] \in {0} \cup ClaimedBy(n)'
  <2>1. PICK p \in HeadsOf(scope) : head = <<p, currentOf[p]>>
    <3>1. \A k : EntryOf("heads", k) = <<k, currentOf[k]>>
      BY DEF EntryOf
    <3>2. KeysOf("heads", scope) = HeadsOf(scope)
      BY DEF KeysOf
    <3> QED
      BY <1>7, <3>1, <3>2 DEF Complete, AllEntries
  <2>2. p \in WikiPage /\ p \in Covered(scope)
    BY <2>1 DEF HeadsOf, ShownPages, Covered
  <2>3. currentOf[p] # 0 => currentOf[p] \in InCatalogue(scope)
    BY <1>1, <2>2 DEF CatalogueKept, InCatalogue
  <2> QED
    BY <1>12, <2>1, <2>3
<1>15. root.media \subseteq ClaimedBy(n)'
  <2>1. MediaSnapshot(scope) \subseteq InCatalogue(scope)
    BY <1>1 DEF MediaSnapshot, InCatalogue, ManifestTypes
  <2> QED
    BY <1>7, <1>12, <2>1
<1>16. ChainLink(n)'
  <2>1. manifestRuns'[n].state = "succeeded" /\ n \in DOMAIN manifestRuns' /\ manifestRuns'[n].saw \subseteq ClaimedBy(n)'
    BY <1>1, <1>2, <1>7, <1>12 DEF CatalogueKept, catalogue
  <2>2. Durable(root)'
    BY <1>2, <1>7 DEF Durable
  <2> QED
    BY <1>7, <1>8, <1>13, <1>14, <1>15, <2>1, <2>2, Zenon DEF ChainLink
<1>17. ChainKept'
  <2>1. DOMAIN roots' = 1..n /\ \A i \in 1..n : i \in 1..n - 1 \/ i = n
    BY <1>8
  <2> QED
    BY <1>9, <1>16, <2>1 DEF ChainKept
<1>18. PICK new : new = [me EXCEPT !.pc = "acknowledge"]
  OBVIOUS
<1>19. new \in Drafts /\ new.pc = "acknowledge" /\ new.run = n /\ appender' = [appender EXCEPT ![a] = new]
  BY <1>2, <1>3, <1>6, <1>18 DEF Drafts
<1>20. /\ appender' \in [Appender -> {Away} \cup Drafts] /\ appender'[a] = new
       /\ \A b \in Appender : b # a => appender'[b] = Away
  BY <1>1, <1>4, <1>19 DEF ManifestTypes
<1>21. AppendersKept'
  <2>1. roots' # <<>>
    BY <1>8
  <2> QED
    BY <1>8, <1>19, <1>20, <2>1 DEF AppendersKept, Away
<1>22. ManifestTypes'
  BY <1>1, <1>2, <1>8, <1>20 DEF ManifestTypes, catalogue
<1>23. CatalogueKept' /\ RunsInOrder' /\ ChainFilesKept'
  <2>1. \A other : InCatalogue(other)' = InCatalogue(other)
    BY <1>2 DEF InCatalogue, Covered, catalogue
  <2>2. CatalogueKept'
    BY <1>1, <1>2, <2>1 DEF CatalogueKept, catalogue
  <2> QED
    BY <1>1, <1>2, <2>2 DEF RunsInOrder, ChainFilesKept, catalogue
<1> QED
  BY <1>17, <1>21, <1>22, <1>23 DEF ManifestInv

\* The chain and the catalogue stay, and no process holds the lock afterwards.
LEMMA LockLetGo ==
  ASSUME ManifestInv, UNCHANGED <<catalogue, roots, shards, shardsSynced>>,
         \A a \in Appender : appender'[a] = Away, appender' \in [Appender -> {Away} \cup Drafts],
         rootsSynced' \in 0..Len(roots), acknowledged' \subseteq 1..rootsSynced', appendStops' \in 0..MaxAppendStops
  PROVE  ManifestInv'
<1> USE DEF catalogue
<1>1. ManifestTypes /\ CatalogueKept /\ RunsInOrder /\ ChainKept /\ ChainFilesKept
  BY DEF ManifestInv
<1>2. ManifestTypes'
  BY <1>1 DEF ManifestTypes
<1>3. CatalogueKept'
  <2>1. \A scope : InCatalogue(scope)' = InCatalogue(scope)
    BY DEF InCatalogue, Covered
  <2> QED
    BY <1>1, <2>1 DEF CatalogueKept
<1>4. RunsInOrder' /\ ChainFilesKept'
  BY <1>1 DEF RunsInOrder, ChainFilesKept
<1>5. ChainKept'
  <2>1. roots \in Seq(Manifests) /\ Len(roots) \in 0..Len(roots)
    BY <1>1 DEF ManifestTypes
  <2>2. roots' \in Seq(Manifests) /\ Len(roots) <= Len(roots') /\ \A i \in 1..Len(roots) : roots'[i] = roots[i]
    BY <2>1
  <2>3. \A n \in 1..Len(roots) : ChainLink(n)'
    BY <1>1, <2>1, <2>2, LinksKept
  <2> QED
    BY <2>1, <2>3 DEF ChainKept
<1>6. AppendersKept'
  BY DEF AppendersKept, Away
<1> QED
  BY <1>2, <1>3, <1>4, <1>5, <1>6 DEF ManifestInv

LEMMA AcknowledgeKeepsManifests ==
  ASSUME ManifestInv, NEW a \in Appender, Acknowledge(a) PROVE ManifestInv'
<1>1. ManifestTypes /\ ChainFilesKept
  BY DEF ManifestInv
<1>2. /\ appender[a].pc = "acknowledge" /\ rootsSynced' = Len(roots) /\ appender' = [appender EXCEPT ![a] = Away]
      /\ acknowledged' = acknowledged \cup {appender[a].run}
      /\ UNCHANGED <<catalogue, roots, shards, shardsSynced, appendStops>>
  BY DEF Acknowledge
<1>3. roots # <<>> /\ appender[a].run = Len(roots) /\ \A b \in Appender : b # a => appender[b] = Away
  BY <1>2, Holder
<1>4. (\A b \in Appender : appender'[b] = Away) /\ appender' \in [Appender -> {Away} \cup Drafts]
  BY <1>1, <1>2, <1>3 DEF ManifestTypes
<1>5. rootsSynced' \in 0..Len(roots) /\ acknowledged' \subseteq 1..rootsSynced' /\ appendStops' \in 0..MaxAppendStops
  <2>1. PICK len, durable : len \in Nat /\ durable \in 0..len /\ len = Len(roots) /\ durable = rootsSynced /\ len # 0
    BY <1>1, <1>3 DEF ManifestTypes
  <2>2. 1..durable \subseteq 1..len /\ len \in 1..len /\ len \in 0..len
    BY <2>1
  <2>3. acknowledged \subseteq 1..durable
    BY <1>1, <2>1 DEF ChainFilesKept
  <2>4. rootsSynced' = len /\ acknowledged' = acknowledged \cup {len}
    BY <1>2, <1>3, <2>1
  <2>5. appendStops' \in 0..MaxAppendStops
    BY <1>1, <1>2 DEF ManifestTypes
  <2> QED
    BY <2>1, <2>2, <2>3, <2>4, <2>5
<1> QED
  BY <1>2, <1>4, <1>5, LockLetGo

LEMMA AcknowledgeAgainKeepsManifests ==
  ASSUME ManifestInv, NEW a \in Appender, NEW n \in DOMAIN manifestRuns, AcknowledgeAgain(a, n) PROVE ManifestInv'
<1>1. ManifestTypes /\ ChainFilesKept /\ ChainKept
  BY DEF ManifestInv
<1>2. /\ ~Locked /\ n \in Represented /\ rootsSynced' = Len(roots) /\ acknowledged' = acknowledged \cup {n}
      /\ UNCHANGED <<catalogue, roots, shards, shardsSynced, appender, appendStops>>
  BY DEF AcknowledgeAgain
<1>3. n \in 1..Len(roots)
  BY <1>1, <1>2, RunsOfRoots
<1>4. (\A b \in Appender : appender'[b] = Away) /\ appender' \in [Appender -> {Away} \cup Drafts]
  BY <1>1, <1>2, LockKeepsOthersOut DEF ManifestTypes
<1>5. rootsSynced' \in 0..Len(roots) /\ acknowledged' \subseteq 1..rootsSynced' /\ appendStops' \in 0..MaxAppendStops
  <2>1. PICK len, durable : len \in Nat /\ durable \in 0..len /\ len = Len(roots) /\ durable = rootsSynced
    BY <1>1 DEF ManifestTypes
  <2>2. 1..durable \subseteq 1..len /\ n \in 1..len /\ len \in 0..len
    BY <1>3, <2>1
  <2>3. acknowledged \subseteq 1..durable
    BY <1>1, <2>1 DEF ChainFilesKept
  <2>4. rootsSynced' = len /\ acknowledged' = acknowledged \cup {n}
    BY <1>2, <2>1
  <2>5. appendStops' \in 0..MaxAppendStops
    BY <1>1, <1>2 DEF ManifestTypes
  <2> QED
    BY <2>1, <2>2, <2>3, <2>4, <2>5
<1> QED
  BY <1>2, <1>4, <1>5, LockLetGo

LEMMA AbandonKeepsManifests ==
  ASSUME ManifestInv, NEW a \in Appender, Abandon(a) PROVE ManifestInv'
<1>1. ManifestTypes /\ ChainFilesKept
  BY DEF ManifestInv
<1>2. /\ appender[a].pc # "away" /\ appender' = [appender EXCEPT ![a] = Away]
      /\ appendStops < MaxAppendStops /\ appendStops' = appendStops + 1
      /\ UNCHANGED <<catalogue, manifestFiles, acknowledged>>
  BY DEF Abandon
<1>3. \A b \in Appender : b # a => appender[b] = Away
  BY <1>2, Holder
<1>4. (\A b \in Appender : appender'[b] = Away) /\ appender' \in [Appender -> {Away} \cup Drafts]
  BY <1>1, <1>2, <1>3 DEF ManifestTypes
<1>5. rootsSynced' \in 0..Len(roots) /\ acknowledged' \subseteq 1..rootsSynced' /\ appendStops' \in 0..MaxAppendStops
  BY <1>1, <1>2, ManifestBounds DEF ManifestTypes, ChainFilesKept, manifestFiles
<1> QED
  BY <1>2, <1>4, <1>5, LockLetGo DEF manifestFiles

LEMMA PowerFailureKeepsManifests ==
  ASSUME ManifestInv, PowerFailure PROVE ManifestInv'
<1> USE DEF catalogue
<1>1. ManifestTypes /\ CatalogueKept /\ RunsInOrder /\ ChainKept /\ ChainFilesKept
  BY DEF ManifestInv
<1>2. /\ appendStops < MaxAppendStops /\ appendStops' = appendStops + 1
      /\ appender' = [a \in Appender |-> Away] /\ UNCHANGED <<catalogue, acknowledged>>
  BY DEF PowerFailure
<1>3. PICK n \in rootsSynced..Len(roots) : roots' = FirstN(roots, n) /\ rootsSynced' = n
  BY DEF PowerFailure
<1>4. shardsSynced \subseteq shardsSynced' /\ shardsSynced' \subseteq shards'
  BY DEF PowerFailure
<1>5. n \in 0..Len(roots) /\ n \in Nat /\ Len(roots) \in Nat /\ roots \in Seq(Manifests) /\ rootsSynced \in Nat
  BY <1>1 DEF ManifestTypes
<1>6. roots' \in Seq(Manifests) /\ Len(roots') = n /\ \A i \in 1..n : roots'[i] = roots[i]
  <2>1. roots' = SubSeq(roots, 1, n)
    <3>1. (IF n < Len(roots) THEN n ELSE Len(roots)) = n
      BY <1>5
    <3> QED
      BY <1>3, <3>1 DEF FirstN
  <2>2. 1 \in Int /\ n \in Int /\ n - 1 + 1 = n /\ (1 <= n <=> n # 0)
    BY <1>5
  <2>3. \A i \in 1..n : roots[i] \in Manifests /\ 1 + i - 1 = i
    BY <1>5
  <2>4. SubSeq(roots, 1, n) \in Seq(Manifests) /\ Len(SubSeq(roots, 1, n)) = (IF 1 <= n THEN n - 1 + 1 ELSE 0)
        /\ \A i \in 1..(n - 1 + 1) : SubSeq(roots, 1, n)[i] = roots[1 + i - 1]
    BY <2>2, <2>3, SubSeqProperties
  <2> QED
    BY <2>1, <2>2, <2>3, <2>4
<1>7. ChainKept'
  <2>1. /\ \A k \in DOMAIN manifestRuns : manifestRuns[k].state = "succeeded" =>
             k \in DOMAIN manifestRuns' /\ manifestRuns'[k] = manifestRuns[k]
        /\ n <= Len(roots')
    BY <1>2, <1>5, <1>6
  <2>2. \A k \in 1..n : ChainLink(k)'
    BY <1>1, <1>4, <1>5, <1>6, <2>1, LinksKept
  <2> QED
    BY <1>6, <2>2 DEF ChainKept
<1>8. ManifestTypes'
  <2>1. appendStops' \in 0..MaxAppendStops /\ appender' \in [Appender -> {Away} \cup Drafts]
    BY <1>1, <1>2, ManifestBounds DEF ManifestTypes
  <2>2. rootsSynced' \in 0..Len(roots')
    BY <1>3, <1>5, <1>6
  <2> QED
    BY <1>1, <1>2, <1>6, <2>1, <2>2 DEF ManifestTypes
<1>9. CatalogueKept'
  <2>1. \A scope : InCatalogue(scope)' = InCatalogue(scope)
    BY <1>2 DEF InCatalogue, Covered
  <2> QED
    BY <1>1, <1>2, <2>1 DEF CatalogueKept
<1>10. RunsInOrder' /\ ChainFilesKept'
  <2>1. 1..rootsSynced \subseteq 1..rootsSynced'
    BY <1>3, <1>5
  <2> QED
    BY <1>1, <1>2, <1>4, <2>1 DEF RunsInOrder, ChainFilesKept
<1>11. AppendersKept'
  BY <1>2 DEF AppendersKept, Away
<1> QED
  BY <1>7, <1>8, <1>9, <1>10, <1>11 DEF ManifestInv

-----------------------------------------------------------------------------
LEMMA ManifestInvNext ==
  ASSUME ManifestInv, [ManifestNext]_manifestVars PROVE ManifestInv'
<1>1. CASE UNCHANGED manifestVars
  <2> USE <1>1 DEF manifestVars, catalogue
  <2>1. ManifestTypes' /\ CatalogueKept' /\ RunsInOrder' /\ ChainFilesKept'
    <3>1. \A scope : InCatalogue(scope)' = InCatalogue(scope)
      BY DEF InCatalogue, Covered
    <3>2. ManifestTypes'
      BY DEF ManifestInv, ManifestTypes
    <3>3. CatalogueKept'
      BY <3>1 DEF ManifestInv, CatalogueKept
    <3>4. RunsInOrder' /\ ChainFilesKept'
      BY DEF ManifestInv, RunsInOrder, ChainFilesKept
    <3> QED
      BY <3>2, <3>3, <3>4
  <2>2. ChainKept'
    BY DEF ManifestInv, ChainKept, ChainLink, Durable, ClaimedBy
  <2>3. \A me : DraftSays(me) => DraftSays(me)'
    BY SaysKept
  <2>4. AppendersKept'
    BY <2>3 DEF ManifestInv, AppendersKept, DraftKept, Durable
  <2> QED
    BY <2>1, <2>2, <2>4 DEF ManifestInv
<1>2. ASSUME NEW scope \in Collection \cup {WholeWiki}, StartRunOf(scope) PROVE ManifestInv'
  BY <1>2, StartRunKeepsManifests DEF RunScopes
<1>3. ASSUME NEW r \in CapturedRevision, NEW current \in BOOLEAN, CaptureRevision(r, current) PROVE ManifestInv'
  BY <1>3, CaptureRevisionKeepsManifests
<1>4. ASSUME NEW r \in CapturedRevision, PlaceThumbnail(r) PROVE ManifestInv'
  BY <1>4, PlaceThumbnailKeepsManifests
<1>5. ASSUME NEW c \in Collection, NEW p \in WikiPage, Reconcile(c, p) PROVE ManifestInv'
  BY <1>5, ReconcileKeepsManifests
<1>6. ASSUME NEW n \in DOMAIN manifestRuns, SucceedRun(n) PROVE ManifestInv'
  BY <1>6, SucceedRunKeepsManifests
<1>7. ASSUME NEW a \in Appender, NEW n \in DOMAIN manifestRuns, AcknowledgeAgain(a, n) \/ BeginAppend(a, n)
      PROVE  ManifestInv'
  BY <1>7, AcknowledgeAgainKeepsManifests, BeginAppendKeepsManifests
<1>8. ASSUME NEW a \in Appender,
             ReadEvidence(a) \/ InstallShard(a) \/ SyncShard(a) \/ RenameRoot(a) \/ Acknowledge(a) \/ Abandon(a)
      PROVE  ManifestInv'
  BY <1>8, ReadEvidenceKeepsManifests, InstallShardKeepsManifests, SyncShardKeepsManifests,
     RenameRootKeepsManifests, AcknowledgeKeepsManifests, AbandonKeepsManifests
<1> QED
  BY <1>1, <1>2, <1>3, <1>4, <1>5, <1>6, <1>7, <1>8, PowerFailureKeepsManifests DEF ManifestNext

\* The chain, its files, the catalogue and the drafts of manifests agree in
\* every reachable state, whatever is killed and however often the power fails.
THEOREM ManifestInvHolds == ManifestSpec => []ManifestInv
<1>1. ManifestInit => ManifestInv
  BY ManifestInvInit
<1>2. ManifestInv /\ [ManifestNext]_manifestVars => ManifestInv'
  BY ManifestInvNext
<1> QED
  BY <1>1, <1>2, PTL DEF ManifestSpec

\* The chain of manifests can be read and tells what the runs captured,
\* whatever was killed and however often the power failed: see
\* ManifestsTellWhatRunsCaptured in ManifestFiles.
THEOREM ManifestsTell == ManifestSpec => []ManifestsTellWhatRunsCaptured
<1>1. ManifestInv => ManifestsTellWhatRunsCaptured
  <2> SUFFICES ASSUME ManifestInv PROVE ManifestsTellWhatRunsCaptured
    OBVIOUS
  <2>1. ManifestTypes /\ ChainKept /\ ChainFilesKept
    BY DEF ManifestInv
  <2>2. roots \in Seq(Manifests) /\ DOMAIN roots = 1..Len(roots) /\ Len(roots) \in Nat
    BY <2>1 DEF ManifestTypes
  <2>3. \A n \in DOMAIN roots : ChainLink(n) /\ roots[n].run = n
    BY <2>1 DEF ChainKept, ChainLink
  <2>4. ChainReads
    <3>1. ASSUME NEW n \in DOMAIN roots PROVE ReadsBack(n)
      BY <2>1, <2>3 DEF ReadsBack, ChainLink, Durable, ShardReads, ChainFilesKept
    <3>2. ASSUME NEW n \in DOMAIN roots, NEW m \in 1..n - 1 PROVE roots[m].run # roots[n].run
      <4>1. m \in DOMAIN roots /\ m # n
        BY <2>2
      <4> QED
        BY <2>3, <4>1
    <3> QED
      BY <2>3, <3>1, <3>2 DEF ChainReads, ChainLink
  <2>5. ASSUME NEW n \in DOMAIN roots
        PROVE  /\ manifestRuns[roots[n].run].state = "succeeded"
               /\ \A m \in 1..n - 1 : roots[m].run < roots[n].run
               /\ EntriesOf(roots[n], "revisions") \cap ClaimedBy(n - 1) = {}
               /\ manifestRuns[roots[n].run].saw \subseteq ClaimedBy(n)
               /\ \A head \in EntriesOf(roots[n], "heads") : head[2] \in {0} \cup ClaimedBy(n)
               /\ roots[n].media \subseteq ClaimedBy(n)
    <3>1. \A m \in 1..n - 1 : m \in DOMAIN roots /\ m < n
      BY <2>2
    <3>2. \A m \in 1..n - 1 : roots[m].run < roots[n].run
      BY <2>3, <3>1
    <3> QED
      BY <2>3, <3>2, Zenon DEF ChainLink
  <2>6. acknowledged \subseteq Represented
    <3>1. Represented = 1..Len(roots)
      BY <2>1, RunsOfRoots
    <3>2. 1..rootsSynced \subseteq 1..Len(roots)
      BY <2>1 DEF ManifestTypes
    <3> QED
      BY <2>1, <3>1, <3>2 DEF ChainFilesKept
  <2> QED
    BY <2>4, <2>5, <2>6 DEF ManifestsTellWhatRunsCaptured
<1> QED
  BY <1>1, ManifestInvHolds, PTL

\* The catalogue, the files and the processes that append keep their types.
THEOREM ManifestTypesHold == ManifestSpec => []ManifestTypeOK
<1>1. ManifestInv => ManifestTypeOK
  <2> SUFFICES ASSUME ManifestInv PROVE ManifestTypeOK
    OBVIOUS
  <2>1. ManifestTypes /\ ChainKept /\ ChainFilesKept
    BY DEF ManifestInv
  <2>2. \A n \in DOMAIN manifestRuns : manifestRuns[n].state \in {"running", "succeeded"}
    BY <2>1, RunHasItsParts
  <2>3. acknowledged \subseteq DOMAIN manifestRuns
    <3>1. 1..rootsSynced \subseteq DOMAIN roots
      BY <2>1 DEF ManifestTypes
    <3>2. \A n \in DOMAIN roots : n \in DOMAIN manifestRuns
      BY <2>1 DEF ChainKept, ChainLink
    <3> QED
      BY <2>1, <3>1, <3>2 DEF ChainFilesKept
  <2> QED
    BY <2>1, <2>2, <2>3, ManifestBounds DEF ManifestTypeOK, ManifestTypes, ChainFilesKept
<1> QED
  BY <1>1, ManifestInvHolds, PTL
=============================================================================
