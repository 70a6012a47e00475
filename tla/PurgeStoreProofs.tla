-------------------------- MODULE PurgeStoreProofs --------------------------
(***************************************************************************)
(* The object store while a purge takes objects out of it: for any objects, *)
(* packs, mixed or not, killed calls and power failures.                   *)
(*                                                                         *)
(* PurgeInv adds to IInv what the journal has promised in each phase       *)
(* (JournalShape), of its targets (TargetsKnown), of the packs it works on *)
(* and their replacements (WorkRows), of the files it will still need      *)
(* (FilesKept) and of those it has said are gone (FilesGone).  That the    *)
(* store keeps its own promises meanwhile rests on CallUnderWay: a call    *)
(* that unlinks does so behind rows that are committed, and a replacement  *)
(* is never itself a pack of the purge.                                    *)
(***************************************************************************)
EXTENDS PurgeStore, ObjectStoreProofs, FiniteSetTheorems

Writing == {"pack-persisted", "index-persisted", "packs-synced"}
PackFiles(g) == {PackFile(g, packs[g].objects), IndexFile(g, packs[g].objects)}

JournalShape ==
  /\ phase \in {"none", "authorized"} =>
       /\ \A o \in Object : looseWork[o] = "none"
       /\ \A g \in Pack : packWork[g] \in {"none", "planned"} /\ replacement[g] = 0
  /\ phase = "none" => \A g \in Pack : packWork[g] = "none"
  /\ phase \in {"authorized", "repacking"} => \A g \in Pack : packWork[g] # "none" => g \in planned.packs
  /\ phase = "repacking" =>
       /\ \A o \in Object : looseWork[o] \in {"none", "pending"}
       /\ \A g \in Pack : packWork[g] \in {"none", "pending", "ready"}
  /\ phase = "cleaning" => \A g \in Pack : packWork[g] \in {"none", "ready", "unlinking", "retired"}
  /\ \A o \in Object : looseWork[o] # "none" => o \in targets
TargetsKnown ==
  /\ phase \in {"none", "authorized", "repacking"} => \A o \in Object : absence[o] = "none"
  /\ phase \in {"authorized", "repacking"} => targets # {} /\ \A o \in targets : HasLocation(o)
  /\ phase = "cleaning" => \A o \in targets : absence[o] = "unfinished" /\ ~ HasLocation(o)
\* A replacement is never a pack that the purge takes away.
WorkRows ==
  \A g \in Pack :
    /\ packWork[g] # "none" =>
         packs[g].state = IF phase \in {"authorized", "repacking"} THEN "verified" ELSE "obsolete"
    /\ replacement[g] # 0 <=> packWork[g] \notin {"none", "planned", "pending"} /\ Retained(g) # {}
    /\ replacement[g] # 0 => packWork[replacement[g]] = "none"
\* What a call holds in memory agrees with the journal.
CallUnderWay ==
  /\ replacing # 0 => /\ phase = "repacking" /\ op.at \in Writing
                      /\ packWork[replacing] = "pending" /\ Retained(replacing) # {}
  /\ Unfinished /\ replacing = 0 => op.at \in {"idle", "put-persisted", "put-synced"}
  /\ unlinked # {} =>
       /\ phase = "cleaning" /\ op = Idle /\ unlinked \cap disk = {}
       /\ \/ \E o \in Object : looseWork[o] = "unlinking" /\ unlinked = {Loose(o)}
          \/ \E g \in Pack : packWork[g] = "unlinking" /\ unlinked \subseteq PackFiles(g)
FilesKept ==
  Unfinished =>
    /\ \A o \in Object : looseWork[o] = "pending" => {Shard(o), Loose(o)} \subseteq disk \cap synced
    /\ \A g \in Pack : packWork[g] \in {"pending", "ready"} => PackFiles(g) \subseteq disk \cap synced
\* A file whose row is retired is gone for good, but that a call which was
\* killed may not have synced its directory.
Gone(e) == e \notin disk /\ (faults.aborts = 0 => e \notin synced)
Erasing(e) == faults.aborts = 0 /\ e \in synced => e \in disk \cup unlinked
FilesGone ==
  Unfinished /\ OneKindOfFault =>
    /\ \A o \in Object : /\ looseWork[o] = "retired" => Gone(Loose(o))
                         /\ looseWork[o] = "unlinking" => Erasing(Loose(o))
    /\ \A g \in Pack : \A e \in PackFiles(g) : /\ packWork[g] = "retired" => Gone(e)
                                               /\ packWork[g] = "unlinking" => Erasing(e)
PurgeInv ==
  /\ PurgeTypeOK /\ IInv /\ JournalShape /\ TargetsKnown /\ WorkRows /\ CallUnderWay /\ FilesKept /\ FilesGone

-----------------------------------------------------------------------------
LEMMA PurgeInvInit == PurgeInit => PurgeInv
<1> SUFFICES ASSUME PurgeInit PROVE PurgeInv
  OBVIOUS
<1>1. IInv /\ TypeOK
  BY InitInv DEF PurgeInit, IInv
<1>2. PurgeTypeOK
  BY <1>1 DEF PurgeInit, PurgeTypeOK, Phases
<1>3. JournalShape /\ TargetsKnown /\ WorkRows
  BY DEF PurgeInit, Init, JournalShape, TargetsKnown, WorkRows
<1>4. CallUnderWay /\ FilesKept /\ FilesGone
  BY DEF PurgeInit, CallUnderWay, FilesKept, FilesGone, Unfinished
<1> QED
  BY <1>1, <1>2, <1>3, <1>4 DEF PurgeInv

\* The pack rows, files and operation that the journal is about.
LEMMA PurgeFacts ==
  ASSUME PurgeInv
  PROVE  /\ 0 \notin Pack /\ op \in OpState /\ targets \subseteq Object
         /\ packs \in [Pack -> PackRow] /\ \A g \in Pack : packs[g].objects \subseteq Object
         /\ packWork \in [Pack -> {"none", "planned", "pending", "ready", "unlinking", "retired"}]
         /\ looseWork \in [Object -> {"none", "pending", "unlinking", "retired"}]
         /\ replacement \in [Pack -> Pack \cup {0}] /\ replacing \in Pack \cup {0}
         /\ faults.aborts \in Nat /\ faults.losses \in Nat
<1>1. 0 \notin Pack
  BY BoundsAssumption DEF Pack
<1>2. PurgeTypeOK /\ TypeOK
  BY DEF PurgeInv, PurgeTypeOK
<1>3. packs \in [Pack -> PackRow] /\ \A g \in Pack : packs[g].objects \subseteq Object
  BY <1>2 DEF TypeOK, PackRow
<1>4. faults.aborts \in Nat /\ faults.losses \in Nat
  BY <1>2, BoundsAssumption DEF TypeOK
<1> QED
  BY <1>1, <1>2, <1>3, <1>4 DEF PurgeTypeOK, TypeOK

-----------------------------------------------------------------------------
(* Steps of the journal alone.                                             *)

\* What holds of the store when only the journal moves.
LEMMA JournalMoves ==
  ASSUME OrderedMetadata, PurgeInv, UNCHANGED vars
  PROVE  /\ IInv' /\ TypeOK' /\ UNCHANGED <<content, looseRow, packs, absence, disk, synced, op, faults>>
         /\ \A o : HasLocation(o)' <=> HasLocation(o)
         /\ \A g : PackFiles(g)' = PackFiles(g)
<1>1. UNCHANGED <<content, looseRow, packs, absence, disk, synced, op, faults>>
  BY DEF vars
<1>2. IInv'
  BY NextInv DEF PurgeInv
<1> QED
  BY <1>1, <1>2 DEF IInv, HasLocation, PackFiles

LEMMA AuthorizeKeeps ==
  ASSUME OrderedMetadata, PurgeInv, NEW T \in SUBSET Object, Authorize(T)
  PROVE  PurgeInv'
<1>1. /\ Quiet /\ phase = "none" /\ Previewable(T) /\ phase' = "authorized" /\ targets' = T
      /\ planned' = Preview(T)
      /\ packWork' = [g \in Pack |-> IF g \in Preview(T).packs THEN "planned" ELSE "none"]
      /\ UNCHANGED <<vars, published, replacement, looseWork, replacing, unlinked>>
  BY DEF Authorize
<1>2. IInv' /\ TypeOK' /\ UNCHANGED <<packs, looseRow, absence, op>> /\ \A o : HasLocation(o)' <=> HasLocation(o)
  BY <1>1, JournalMoves
<1>3. \A g \in Preview(T).packs : g \in Pack /\ packs[g].state = "verified"
  BY DEF Preview
<1>4. PurgeTypeOK'
  BY <1>1, <1>2 DEF PurgeInv, PurgeTypeOK, Phases, Preview
<1>5. JournalShape'
  BY <1>1 DEF PurgeInv, JournalShape
<1>6. TargetsKnown'
  BY <1>1, <1>2 DEF PurgeInv, TargetsKnown, Previewable
<1>7. WorkRows'
  BY <1>1, <1>2, <1>3, PurgeFacts DEF PurgeInv, WorkRows, JournalShape
<1>8. CallUnderWay'
  BY <1>1, <1>2 DEF PurgeInv, CallUnderWay, Quiet, Idle
<1>9. FilesKept' /\ FilesGone'
  BY <1>1 DEF PurgeInv, JournalShape, FilesKept, FilesGone
<1> QED
  BY <1>2, <1>4, <1>5, <1>6, <1>7, <1>8, <1>9 DEF PurgeInv

LEMMA PublishKeeps == ASSUME OrderedMetadata, PurgeInv, Publish PROVE PurgeInv'
<1>1. /\ published' = TRUE
      /\ UNCHANGED <<vars, phase, targets, planned, packWork, replacement, looseWork, replacing, unlinked>>
  BY DEF Publish
<1>2. /\ IInv' /\ TypeOK' /\ UNCHANGED <<packs, looseRow, absence, op, disk, synced, faults>>
      /\ \A o : HasLocation(o)' <=> HasLocation(o)
      /\ \A g : PackFiles(g)' = PackFiles(g)
  BY <1>1, JournalMoves
<1>3. PurgeTypeOK' /\ JournalShape' /\ TargetsKnown'
  BY <1>1, <1>2 DEF PurgeInv, PurgeTypeOK, JournalShape, TargetsKnown
<1>4. WorkRows' /\ CallUnderWay'
  BY <1>1, <1>2 DEF PurgeInv, WorkRows, CallUnderWay, Retained, Unfinished
<1>5. FilesKept' /\ FilesGone'
  BY <1>1, <1>2 DEF PurgeInv, FilesKept, FilesGone, Gone, Erasing, OneKindOfFault, Unfinished
<1> QED
  BY <1>2, <1>3, <1>4, <1>5 DEF PurgeInv

LEMMA PrepareKeeps == ASSUME OrderedMetadata, PurgeInv, Prepare PROVE PurgeInv'
<1>1. /\ Quiet /\ phase = "authorized" /\ Preview(targets) = planned /\ phase' = "repacking"
      /\ looseWork' = [o \in Object |-> IF o \in planned.loose THEN "pending" ELSE looseWork[o]]
      /\ packWork' = [g \in Pack |-> IF packWork[g] = "planned" THEN "pending" ELSE packWork[g]]
      /\ UNCHANGED <<vars, targets, planned, published, replacement, replacing, unlinked>>
  BY DEF Prepare
<1>2. /\ IInv' /\ TypeOK' /\ UNCHANGED <<packs, looseRow, absence, op, disk, synced, faults>>
      /\ \A o : HasLocation(o)' <=> HasLocation(o)
      /\ \A g : PackFiles(g)' = PackFiles(g)
  BY <1>1, JournalMoves
<1>3. /\ \A o \in Object : looseWork[o] = "none"
      /\ \A g \in Pack : packWork[g] \in {"none", "planned"} /\ replacement[g] = 0
      /\ \A g \in Pack : packWork[g] = "planned" => packs[g].state = "verified"
  BY <1>1 DEF PurgeInv, JournalShape, WorkRows
<1>4. \A o \in planned.loose : o \in targets /\ looseRow[o] = "verified"
  BY <1>1 DEF Preview
<1>5. PurgeTypeOK'
  BY <1>1, <1>2, PurgeFacts DEF PurgeInv, PurgeTypeOK, Phases
<1>6. JournalShape' /\ TargetsKnown'
  BY <1>1, <1>2, <1>3, <1>4 DEF PurgeInv, JournalShape, TargetsKnown
<1>7. WorkRows'
  BY <1>1, <1>2, <1>3 DEF WorkRows
<1>8. CallUnderWay'
  BY <1>1, <1>2 DEF PurgeInv, CallUnderWay, Quiet, Idle
<1>9. FilesKept' /\ FilesGone'
  <2>1. \A o \in Object : looseWork'[o] = "pending" => {Shard(o), Loose(o)} \subseteq disk \cap synced
    BY <1>1, <1>3, <1>4 DEF PurgeInv, IInv, LooseRowDurable
  <2>2. \A g \in Pack : packWork'[g] # "none" => PackFiles(g) \subseteq disk \cap synced
    BY <1>1, <1>3 DEF PurgeInv, IInv, PackRowDurable, PackFiles
  <2>3. \A g \in Pack : packWork'[g] \in {"none", "pending"}
    BY <1>1, <1>3
  <2>4. \A o \in Object : looseWork'[o] \in {"none", "pending"}
    BY <1>1, <1>3
  <2> QED
    BY <1>2, <2>1, <2>2, <2>3, <2>4 DEF FilesKept, FilesGone
<1> QED
  BY <1>2, <1>5, <1>6, <1>7, <1>8, <1>9 DEF PurgeInv

LEMMA MarkWholePackReadyKeeps ==
  ASSUME OrderedMetadata, PurgeInv, NEW g \in Pack, MarkWholePackReady(g)
  PROVE  PurgeInv'
<1>1. /\ Quiet /\ phase = "repacking" /\ packWork[g] = "pending" /\ Retained(g) = {}
      /\ packWork' = [packWork EXCEPT ![g] = "ready"]
      /\ UNCHANGED <<vars, phase, targets, planned, published, replacement, looseWork, replacing, unlinked>>
  BY DEF MarkWholePackReady
<1>2. /\ IInv' /\ TypeOK' /\ UNCHANGED <<packs, looseRow, absence, op, disk, synced, faults>>
      /\ \A o : HasLocation(o)' <=> HasLocation(o)
      /\ \A h : PackFiles(h)' = PackFiles(h) /\ Retained(h)' = Retained(h)
  BY <1>1, JournalMoves DEF Retained
<1>3. packWork'[g] = "ready" /\ \A h \in Pack \ {g} : packWork'[h] = packWork[h]
  BY <1>1, PurgeFacts
<1>4. PurgeTypeOK'
  BY <1>1, <1>2, PurgeFacts DEF PurgeInv, PurgeTypeOK
<1>5. JournalShape' /\ TargetsKnown'
  BY <1>1, <1>2, <1>3 DEF PurgeInv, JournalShape, TargetsKnown
<1>6. WorkRows'
  <2>1. \A h \in Pack : replacement[h] # 0 => replacement[h] \in Pack \ {g}
    BY <1>1, PurgeFacts DEF PurgeInv, WorkRows
  <2> QED
    BY <1>1, <1>2, <1>3, <2>1 DEF PurgeInv, WorkRows
<1>7. CallUnderWay'
  BY <1>1, <1>2 DEF PurgeInv, CallUnderWay, Quiet, Idle, Writing, Unfinished
<1>8. FilesKept' /\ FilesGone'
  BY <1>1, <1>2, <1>3 DEF PurgeInv, JournalShape, FilesKept, FilesGone, Unfinished
<1> QED
  BY <1>2, <1>4, <1>5, <1>6, <1>7, <1>8 DEF PurgeInv

LEMMA LooseWorkKeeps ==
  ASSUME OrderedMetadata, PurgeInv, NEW o \in Object, LooseIntent(o) \/ LooseRetire(o)
  PROVE  PurgeInv'
<1>1. /\ Quiet /\ phase = "cleaning" /\ looseWork[o] \in {"pending", "unlinking"}
      /\ \/ looseWork[o] = "pending" /\ looseWork' = [looseWork EXCEPT ![o] = "unlinking"]
         \/ /\ looseWork[o] = "unlinking" /\ Loose(o) \notin disk
            /\ looseWork' = [looseWork EXCEPT ![o] = "retired"]
      /\ UNCHANGED <<vars, phase, targets, planned, published, packWork, replacement, replacing, unlinked>>
  BY DEF LooseIntent, LooseRetire
<1>2. /\ IInv' /\ TypeOK' /\ UNCHANGED <<packs, looseRow, absence, op, disk, synced, faults>>
      /\ \A p : HasLocation(p)' <=> HasLocation(p)
      /\ \A h : PackFiles(h)' = PackFiles(h) /\ Retained(h)' = Retained(h)
  BY <1>1, JournalMoves DEF Retained
<1>3. \A p \in Object \ {o} : looseWork'[p] = looseWork[p]
  BY <1>1, PurgeFacts
<1>4. \/ looseWork[o] = "pending" /\ looseWork'[o] = "unlinking"
      \/ looseWork[o] = "unlinking" /\ looseWork'[o] = "retired" /\ Loose(o) \notin disk
  BY <1>1, PurgeFacts
<1>5. PurgeTypeOK'
  BY <1>1, <1>2, PurgeFacts DEF PurgeInv, PurgeTypeOK
<1>6. JournalShape' /\ TargetsKnown'
  BY <1>1, <1>2, <1>3, <1>4 DEF PurgeInv, JournalShape, TargetsKnown
<1>7. WorkRows' /\ CallUnderWay'
  BY <1>1, <1>2 DEF PurgeInv, WorkRows, CallUnderWay, Quiet, Unfinished
<1>8. FilesKept'
  BY <1>1, <1>2, <1>3, <1>4 DEF PurgeInv, FilesKept, Unfinished
<1>9. FilesGone'
  <2> SUFFICES ASSUME OneKindOfFault PROVE FilesGone'
    BY <1>1, <1>2 DEF FilesGone, OneKindOfFault
  <2>1. /\ \A p \in Object : /\ looseWork[p] = "retired" => Gone(Loose(p))
                             /\ looseWork[p] = "unlinking" => Erasing(Loose(p))
        /\ \A h \in Pack : \A e \in PackFiles(h) : /\ packWork[h] = "retired" => Gone(e)
                                                   /\ packWork[h] = "unlinking" => Erasing(e)
    BY <1>1 DEF PurgeInv, FilesGone, Unfinished
  <2>2. \A e : (Gone(e)' <=> Gone(e)) /\ (Erasing(e)' <=> Erasing(e))
    BY <1>1, <1>2 DEF Gone, Erasing
  <2>3. /\ looseWork'[o] = "retired" => Gone(Loose(o))
        /\ looseWork'[o] = "unlinking" => Erasing(Loose(o))
    BY <1>1, <1>4, <2>1 DEF PurgeInv, FilesKept, Unfinished, Gone, Erasing, Quiet
  <2>4. \A p \in Object : /\ looseWork'[p] = "retired" => Gone(Loose(p))
                          /\ looseWork'[p] = "unlinking" => Erasing(Loose(p))
    BY <1>3, <2>1, <2>3
  <2>5. packWork' = packWork /\ \A h : PackFiles(h)' = PackFiles(h)
    BY <1>1, <1>2
  <2> QED
    BY <2>1, <2>2, <2>4, <2>5 DEF FilesGone
<1> QED
  BY <1>2, <1>5, <1>6, <1>7, <1>8, <1>9 DEF PurgeInv

LEMMA PackWorkKeeps ==
  ASSUME OrderedMetadata, PurgeInv, NEW g \in Pack, PackIntent(g) \/ PackRetire(g)
  PROVE  PurgeInv'
<1>1. /\ Quiet /\ phase = "cleaning"
      /\ \/ packWork[g] = "ready" /\ packWork' = [packWork EXCEPT ![g] = "unlinking"]
         \/ /\ packWork[g] = "unlinking" /\ PackFiles(g) \cap disk = {}
            /\ packWork' = [packWork EXCEPT ![g] = "retired"]
      /\ UNCHANGED <<vars, phase, targets, planned, published, looseWork, replacement, replacing, unlinked>>
  BY DEF PackIntent, PackRetire, PackFiles
<1>2. /\ IInv' /\ TypeOK' /\ UNCHANGED <<packs, looseRow, absence, op, disk, synced, faults>>
      /\ \A p : HasLocation(p)' <=> HasLocation(p)
      /\ \A h : PackFiles(h)' = PackFiles(h) /\ Retained(h)' = Retained(h)
  BY <1>1, JournalMoves DEF Retained
<1>3. \A h \in Pack \ {g} : packWork'[h] = packWork[h]
  BY <1>1, PurgeFacts
<1>4. \/ packWork[g] = "ready" /\ packWork'[g] = "unlinking"
      \/ packWork[g] = "unlinking" /\ packWork'[g] = "retired" /\ PackFiles(g) \cap disk = {}
  BY <1>1, PurgeFacts
<1>5. PurgeTypeOK'
  BY <1>1, <1>2, PurgeFacts DEF PurgeInv, PurgeTypeOK
<1>6. JournalShape' /\ TargetsKnown'
  BY <1>1, <1>2, <1>3, <1>4 DEF PurgeInv, JournalShape, TargetsKnown
<1>7. WorkRows'
  <2>1. \A h \in Pack : replacement[h] # 0 => replacement[h] \in Pack \ {g}
    BY <1>4, PurgeFacts DEF PurgeInv, WorkRows
  <2>2. \A h \in Pack : replacement'[h] = replacement[h] /\ phase' = phase /\ packs' = packs
    BY <1>1, <1>2
  <2> QED
    BY <1>2, <1>3, <1>4, <2>1, <2>2 DEF PurgeInv, WorkRows
<1>8. CallUnderWay'
  BY <1>1, <1>2 DEF PurgeInv, CallUnderWay, Quiet, Unfinished
<1>9. FilesKept'
  BY <1>1, <1>2, <1>3, <1>4 DEF PurgeInv, FilesKept, Unfinished
<1>10. FilesGone'
  <2> SUFFICES ASSUME OneKindOfFault PROVE FilesGone'
    BY <1>1, <1>2 DEF FilesGone, OneKindOfFault
  <2>1. /\ \A p \in Object : /\ looseWork[p] = "retired" => Gone(Loose(p))
                             /\ looseWork[p] = "unlinking" => Erasing(Loose(p))
        /\ \A h \in Pack : \A e \in PackFiles(h) : /\ packWork[h] = "retired" => Gone(e)
                                                   /\ packWork[h] = "unlinking" => Erasing(e)
    BY <1>1 DEF PurgeInv, FilesGone, Unfinished
  <2>2. \A e : (Gone(e)' <=> Gone(e)) /\ (Erasing(e)' <=> Erasing(e))
    BY <1>1, <1>2 DEF Gone, Erasing
  <2>3. \A e \in PackFiles(g) : /\ packWork'[g] = "retired" => Gone(e)
                                /\ packWork'[g] = "unlinking" => Erasing(e)
    BY <1>1, <1>4, <2>1 DEF PurgeInv, FilesKept, Unfinished, Gone, Erasing, Quiet
  <2>4. \A h \in Pack : \A e \in PackFiles(h) : /\ packWork'[h] = "retired" => Gone(e)
                                                /\ packWork'[h] = "unlinking" => Erasing(e)
    BY <1>3, <2>1, <2>3
  <2>5. looseWork' = looseWork /\ \A h : PackFiles(h)' = PackFiles(h)
    BY <1>1, <1>2
  <2> QED
    BY <2>1, <2>2, <2>4, <2>5 DEF FilesGone
<1> QED
  BY <1>2, <1>5, <1>6, <1>7, <1>8, <1>9, <1>10 DEF PurgeInv

-----------------------------------------------------------------------------
(* The replacement of mixed packs, and the commit of the absences.         *)

\* What is read of the old pack is captured and located elsewhere too.
LEMMA ReplaceMixedPackKeeps ==
  ASSUME OrderedMetadata, PurgeInv, NEW old \in Pack, NEW g \in Pack, ReplaceMixedPack(old, g)
  PROVE  PurgeInv'
<1>1. /\ Quiet /\ phase = "repacking" /\ packWork[old] = "pending"
      /\ Cardinality(Retained(old)) \in 1 .. MaxPackObjects
      /\ \A o \in Retained(old) : Readable(o)
      /\ WritePack(g, Retained(old)) /\ replacing' = old
      /\ UNCHANGED <<phase, targets, planned, published, packWork, replacement, looseWork, unlinked>>
  BY DEF ReplaceMixedPack, journal
<1>2. UNCHANGED <<content, looseRow, packs, absence, synced, faults>> /\ disk \subseteq disk'
      /\ op'.at = "pack-persisted"
  BY <1>1 DEF WritePack, dbVars, At
<1>3. Retained(old) # {}
  BY <1>1, FS_EmptySet
<1>4. Retained(old) \in SUBSET content /\ \A o \in Retained(old) : HasLocation(o)
  BY <1>1, ReadableLocated
<1>5. op = Idle /\ unlinked = {} /\ IInv
  BY <1>1 DEF Quiet, PurgeInv
<1>6. IInv'
  BY <1>1, <1>4, <1>5, WritePackInv
<1>7. /\ \A o : HasLocation(o)' <=> HasLocation(o)
      /\ \A h : PackFiles(h)' = PackFiles(h) /\ Retained(h)' = Retained(h)
  BY <1>1, <1>2 DEF HasLocation, PackFiles, Retained
<1>8. PurgeTypeOK'
  BY <1>1, <1>6 DEF PurgeInv, PurgeTypeOK, IInv
<1>9. JournalShape' /\ TargetsKnown'
  BY <1>1, <1>2, <1>7 DEF PurgeInv, JournalShape, TargetsKnown
<1>10. WorkRows'
  BY <1>1, <1>2, <1>7 DEF PurgeInv, WorkRows
<1>11. CallUnderWay'
  BY <1>1, <1>2, <1>3, <1>5, <1>7, PurgeFacts DEF CallUnderWay, Writing
<1>12. FilesKept' /\ FilesGone'
  BY <1>1, <1>2, <1>7 DEF PurgeInv, JournalShape, FilesKept, FilesGone, Unfinished
<1> QED
  BY <1>6, <1>8, <1>9, <1>10, <1>11, <1>12 DEF PurgeInv

LEMMA WriteOnKeeps ==
  ASSUME OrderedMetadata, PurgeInv, NEW g \in Pack, NEW S \in SUBSET Object, replacing # 0,
         PersistIndex(g, S) \/ SyncNewPack(g, S), UNCHANGED purgeVars
  PROVE  PurgeInv'
<1>1. /\ phase = "repacking" /\ packWork[replacing] = "pending" /\ Retained(replacing) # {}
      /\ unlinked = {}
  BY DEF PurgeInv, CallUnderWay
<1>2. UNCHANGED <<phase, targets, planned, published, packWork, replacement, looseWork, replacing, unlinked>>
  BY DEF purgeVars, journal
<1>3. /\ UNCHANGED <<content, looseRow, packs, absence, faults>> /\ disk \subseteq disk'
      /\ op'.at \in Writing
      /\ \/ synced' = synced
         \/ /\ disk' = disk
            /\ synced' = {e \in synced : ~InPackDirectory(e)} \cup {e \in disk : InPackDirectory(e)}
  BY DEF PersistIndex, SyncNewPack, SyncPackDirectory, dbVars, At, Writing
<1>4. IInv'
  BY PackInv DEF PurgeInv, PackStep
<1>5. /\ \A o : HasLocation(o)' <=> HasLocation(o)
      /\ \A h : PackFiles(h)' = PackFiles(h) /\ Retained(h)' = Retained(h)
  BY <1>2, <1>3 DEF HasLocation, PackFiles, Retained
<1>6. PurgeTypeOK'
  BY <1>2, <1>4 DEF PurgeInv, PurgeTypeOK, IInv
<1>7. JournalShape' /\ TargetsKnown' /\ WorkRows'
  BY <1>2, <1>3, <1>5 DEF PurgeInv, JournalShape, TargetsKnown, WorkRows
<1>8. CallUnderWay'
  BY <1>1, <1>2, <1>3, <1>5 DEF CallUnderWay
<1>9. FilesKept'
  <2>1. disk \cap synced \subseteq disk' \cap synced'
    BY <1>3
  <2> QED
    BY <1>2, <1>5, <2>1 DEF PurgeInv, FilesKept, Unfinished
<1>10. FilesGone'
  BY <1>1, <1>2 DEF PurgeInv, JournalShape, FilesGone
<1> QED
  BY <1>4, <1>6, <1>7, <1>8, <1>9, <1>10 DEF PurgeInv

LEMMA ActivateReplacementKeeps ==
  ASSUME OrderedMetadata, PurgeInv, NEW g \in Pack, NEW S \in SUBSET Object, ActivateReplacement(g, S)
  PROVE  PurgeInv'
<1>0. PICK old \in Pack : old = replacing
  BY PurgeFacts DEF ActivateReplacement
<1>1. /\ old = replacing /\ packWork[old] = "pending" /\ ActivatePack(g, S)
      /\ packWork' = [packWork EXCEPT ![old] = "ready"]
      /\ replacement' = [replacement EXCEPT ![old] = g] /\ replacing' = 0
      /\ UNCHANGED <<phase, targets, planned, published, looseWork, unlinked>>
  BY <1>0 DEF ActivateReplacement
<1>2. /\ op = At("packs-synced", g, S) /\ op' = Idle
      /\ packs' = [packs EXCEPT ![g] = [state |-> "verified", objects |-> S, live |-> S]]
      /\ UNCHANGED <<content, looseRow, absence, disk, synced, faults>>
  BY <1>1 DEF ActivatePack, Activated
<1>3. phase = "repacking" /\ Retained(old) # {} /\ unlinked = {} /\ old \in Pack \ {0}
  BY <1>0, <1>1, PurgeFacts DEF PurgeInv, CallUnderWay
<1>4. packs[g].state = "none" /\ packWork[g] = "none" /\ g # old
  <2>1. packs[g].state = "none"
    BY <1>2 DEF PurgeInv, IInv, PackProgress, At
  <2> QED
    BY <1>1, <1>3, <2>1 DEF PurgeInv, WorkRows
<1>5. IInv'
  BY <1>1, PackInv DEF PurgeInv, PackStep
<1>6. packs'[g].state = "verified" /\ \A h \in Pack \ {g} : packs'[h] = packs[h]
  BY <1>2, PurgeFacts
<1>7. /\ packWork'[old] = "ready" /\ \A h \in Pack \ {old} : packWork'[h] = packWork[h]
      /\ replacement'[old] = g /\ \A h \in Pack \ {old} : replacement'[h] = replacement[h]
  BY <1>1, <1>3, PurgeFacts
<1>8. \A h \in Pack \ {g} : PackFiles(h)' = PackFiles(h) /\ Retained(h)' = Retained(h)
  BY <1>1, <1>6 DEF PackFiles, Retained
<1>9. \A o : HasLocation(o) => HasLocation(o)'
  BY <1>2, <1>4, <1>6 DEF HasLocation
<1>10. PurgeTypeOK'
  BY <1>1, <1>5, PurgeFacts DEF PurgeInv, PurgeTypeOK, IInv
<1>11. JournalShape' /\ TargetsKnown'
  BY <1>1, <1>2, <1>3, <1>7, <1>9 DEF PurgeInv, JournalShape, TargetsKnown
<1>12. WorkRows'
  <2>1. \A h \in Pack : packWork'[h] # "none" => h # g /\ packs'[h].state = "verified"
    <3> SUFFICES ASSUME NEW h \in Pack, packWork'[h] # "none" PROVE h # g /\ packs'[h].state = "verified"
      OBVIOUS
    <3>1. packWork[h] # "none"
      BY <1>1, <1>7
    <3>2. h # g /\ packs[h].state = "verified"
      BY <1>3, <1>4, <3>1 DEF PurgeInv, WorkRows
    <3> QED
      BY <1>6, <3>2
  <2>2. \A h \in Pack : replacement'[h] # 0 <=>
          packWork'[h] \notin {"none", "planned", "pending"} /\ Retained(h)' # {}
    <3>1. replacement'[g] = 0 /\ packWork'[g] = "none"
      <4>1. replacement[g] = 0
        BY <1>4 DEF PurgeInv, WorkRows
      <4> QED
        BY <1>4, <1>7, <4>1
    <3>2. replacement'[old] # 0 /\ packWork'[old] = "ready" /\ Retained(old)' # {}
      <4>1. g # 0 /\ old \in Pack \ {g}
        BY <1>3, <1>4, PurgeFacts
      <4> QED
        BY <1>3, <1>7, <1>8, <4>1
    <3>3. ASSUME NEW h \in Pack \ {old, g}
          PROVE  /\ replacement'[h] = replacement[h] /\ packWork'[h] = packWork[h]
                 /\ Retained(h)' = Retained(h)
                 /\ replacement[h] # 0 <=> packWork[h] \notin {"none", "planned", "pending"} /\ Retained(h) # {}
      BY <1>7, <1>8, <3>3 DEF PurgeInv, WorkRows
    <3> QED
      BY <1>4, <3>1, <3>2, <3>3
  <2>3. \A h \in Pack : replacement'[h] # 0 => packWork'[replacement'[h]] = "none"
    <3>1. packWork'[g] = "none"
      BY <1>4, <1>7
    <3>2. ASSUME NEW h \in Pack \ {old}, replacement[h] # 0 PROVE packWork'[replacement[h]] = "none"
      <4>1. packWork[replacement[h]] = "none" /\ replacement[h] \in Pack
        BY <3>2, PurgeFacts DEF PurgeInv, WorkRows
      <4>2. replacement[h] # old
        BY <1>1, <4>1
      <4> QED
        BY <1>7, <4>1, <4>2
    <3> QED
      BY <1>3, <1>7, <3>1, <3>2
  <2>4. phase' = "repacking"
    BY <1>1, <1>3
  <2> QED
    BY <2>1, <2>2, <2>3, <2>4 DEF WorkRows
<1>13. CallUnderWay'
  BY <1>1, <1>2, <1>3 DEF CallUnderWay, Idle
<1>14. FilesKept'
  <2>1. \A h \in Pack : packWork'[h] \in {"pending", "ready"} =>
          h # g /\ packWork[h] \in {"pending", "ready"}
    BY <1>1, <1>4, <1>7
  <2> QED
    BY <1>1, <1>2, <1>3, <1>8, <2>1 DEF PurgeInv, FilesKept, Unfinished
<1>15. FilesGone'
  <2>1. phase' = "repacking"
    BY <1>1, <1>3
  <2> QED
    BY <1>11, <2>1 DEF JournalShape, FilesGone
<1> QED
  BY <1>5, <1>10, <1>11, <1>12, <1>13, <1>14, <1>15 DEF PurgeInv

\* One transaction takes the locations of the targets, and leaves every other
\* object one: its loose file, an untouched pack, or the replacement.
LEMMA AbsenceCommitted ==
  ASSUME PurgeInv, CommitAbsence
  PROVE  /\ \A o \in Object \ targets : HasLocation(o)' <=> HasLocation(o)
         /\ \A o \in targets : absence'[o] = "unfinished" /\ ~ HasLocation(o)'
<1>1. /\ Quiet /\ phase = "repacking" /\ ReplacementsHold /\ EveryLocationPlanned /\ phase' = "cleaning"
      /\ absence' = [o \in Object |-> IF o \in targets THEN "unfinished" ELSE absence[o]]
      /\ looseRow' = [o \in Object |->
                        IF o \in targets /\ looseRow[o] = "verified" THEN "obsolete" ELSE looseRow[o]]
      /\ packs' = [g \in Pack |->
                     IF packWork[g] # "none"
                       THEN [state |-> "obsolete", objects |-> packs[g].objects, live |-> {}]
                       ELSE [packs[g] EXCEPT !.live = @ \ targets]]
      /\ UNCHANGED <<content, disk, synced, op, faults, targets, planned, published,
                     packWork, replacement, looseWork, replacing, unlinked>>
  BY DEF CommitAbsence
<1>2. \A g \in Pack : packs[g] \in PackRow
  BY PurgeFacts
<1>3. \A g \in Pack : packWork[g] # "none" =>
        /\ packs'[g].state = "obsolete" /\ packs'[g].objects = packs[g].objects
        /\ packWork[g] = "ready" /\ packs[g].state = "verified"
  BY <1>1 DEF ReplacementsHold, PurgeInv, WorkRows
<1>4. \A g \in Pack : packWork[g] = "none" =>
        /\ packs'[g].state = packs[g].state /\ packs'[g].objects = packs[g].objects
        /\ packs'[g].live = packs[g].live \ targets
  BY <1>1, <1>2 DEF PackRow
<1>5. \A o \in Object : o \notin targets /\ HasLocation(o) => HasLocation(o)'
  <2> SUFFICES ASSUME NEW o \in Object, o \notin targets, HasLocation(o) PROVE HasLocation(o)'
    OBVIOUS
  <2>1. CASE looseRow[o] = "verified"
    BY <1>1, <2>1 DEF HasLocation
  <2>2. ASSUME NEW g \in Pack, packs[g].state = "verified", o \in packs[g].live, packWork[g] = "none"
        PROVE  HasLocation(o)'
    BY <1>4, <2>2 DEF HasLocation
  <2>3. ASSUME NEW g \in Pack, packs[g].state = "verified", o \in packs[g].live, packWork[g] # "none"
        PROVE  HasLocation(o)'
    <3>1. g \in Preview(targets).packs /\ packs[g].live = packs[g].objects
      BY <1>1, <2>3 DEF CommitAbsence, Previewable, PurgeInv, JournalShape
    <3>2. o \in Retained(g)
      BY <2>3, <3>1 DEF Retained
    <3>3. PICK r \in Pack : r = replacement[g] /\ packs[r].state = "verified" /\ o \in packs[r].live
      <4>1. /\ replacement[g] \in Pack \ {g} /\ packs[replacement[g]].state = "verified"
            /\ packs[replacement[g]].live \ targets = packs[g].live \ targets
        BY <1>1, <2>3, <3>2 DEF ReplacementsHold
      <4> QED
        BY <2>3, <4>1
    <3>4. packWork[r] = "none"
      BY <3>3, PurgeFacts DEF PurgeInv, WorkRows
    <3> QED
      BY <1>4, <3>3, <3>4 DEF HasLocation
  <2> QED
    BY <2>1, <2>2, <2>3 DEF HasLocation
<1>6. \A o \in Object : HasLocation(o)' => HasLocation(o)
  BY <1>1, <1>3, <1>4 DEF HasLocation
<1>7. \A o \in targets : absence'[o] = "unfinished" /\ ~ HasLocation(o)'
  <2> SUFFICES ASSUME NEW o \in targets PROVE absence'[o] = "unfinished" /\ ~ HasLocation(o)'
    OBVIOUS
  <2>1. o \in Object /\ absence'[o] = "unfinished" /\ looseRow'[o] # "verified"
    BY <1>1, PurgeFacts
  <2>2. \A g \in Pack : packs'[g].state # "verified" \/ o \notin packs'[g].live
    BY <1>3, <1>4
  <2> QED
    BY <2>1, <2>2 DEF HasLocation
<1> QED
  BY <1>5, <1>6, <1>7

LEMMA CommitAbsenceKeeps == ASSUME OrderedMetadata, PurgeInv, CommitAbsence PROVE PurgeInv'
<1>1. /\ Quiet /\ phase = "repacking" /\ ReplacementsHold /\ EveryLocationPlanned /\ phase' = "cleaning"
      /\ absence' = [o \in Object |-> IF o \in targets THEN "unfinished" ELSE absence[o]]
      /\ looseRow' = [o \in Object |->
                        IF o \in targets /\ looseRow[o] = "verified" THEN "obsolete" ELSE looseRow[o]]
      /\ packs' = [g \in Pack |->
                     IF packWork[g] # "none"
                       THEN [state |-> "obsolete", objects |-> packs[g].objects, live |-> {}]
                       ELSE [packs[g] EXCEPT !.live = @ \ targets]]
      /\ UNCHANGED <<content, disk, synced, op, faults, targets, planned, published,
                     packWork, replacement, looseWork, replacing, unlinked>>
  BY DEF CommitAbsence
<1>2. op = Idle /\ unlinked = {} /\ op' = Idle /\ unlinked' = {}
  BY <1>1 DEF Quiet
<1>3. \A g \in Pack : packs[g] \in PackRow
  BY PurgeFacts
<1>4. \A g \in Pack : packWork[g] # "none" =>
        /\ packs'[g].state = "obsolete" /\ packs'[g].objects = packs[g].objects
        /\ packWork[g] = "ready" /\ packs[g].state = "verified"
  BY <1>1 DEF ReplacementsHold, PurgeInv, WorkRows
<1>5. \A g \in Pack : packWork[g] = "none" =>
        /\ packs'[g].state = packs[g].state /\ packs'[g].objects = packs[g].objects
        /\ packs'[g].live = packs[g].live \ targets
  BY <1>1, <1>3 DEF PackRow
<1>6. \A g \in Pack : packs'[g].objects = packs[g].objects
  BY <1>4, <1>5
<1>7. \A g \in Pack : PackFiles(g)' = PackFiles(g) /\ Retained(g)' = Retained(g)
  BY <1>1, <1>6 DEF PackFiles, Retained
<1>8. TypeOK'
  <2>1. packs' \in [Pack -> PackRow]
    <3>1. \A g \in Pack : /\ [state |-> "obsolete", objects |-> packs[g].objects, live |-> {}] \in PackRow
                          /\ [packs[g] EXCEPT !.live = @ \ targets] \in PackRow
      BY <1>3 DEF PackRow, RowState
    <3> QED
      BY <1>1, <3>1
  <2>2. looseRow' \in [Object -> RowState] /\ absence' \in [Object -> {"none", "unfinished", "succeeded"}]
    BY <1>1 DEF PurgeInv, PurgeTypeOK, TypeOK, RowState
  <2> QED
    BY <1>1, <2>1, <2>2 DEF PurgeInv, PurgeTypeOK, TypeOK
<1>9. PurgeTypeOK'
  BY <1>1, <1>8 DEF PurgeInv, PurgeTypeOK, Phases
<1>10. LooseRowDurable' /\ PackRowDurable'
  <2>1. LooseRowDurable'
    BY <1>1 DEF PurgeInv, IInv, LooseRowDurable
  <2>2. \A g \in Pack : packs'[g].state = "verified" => packs[g].state = "verified"
    BY <1>4, <1>5
  <2> QED
    BY <1>1, <1>6, <2>1, <2>2 DEF PurgeInv, IInv, PackRowDurable
<1>11. PutProgress' /\ PackProgress' /\ UnlinkProgress'
  BY <1>2 DEF PutProgress, PackProgress, UnlinkProgress, Idle
<1>12. CapturedLocated'
  <2>1. \A o \in content : o \in Object
    BY DEF PurgeInv, PurgeTypeOK, TypeOK
  <2> QED
    BY <1>1, <2>1, AbsenceCommitted DEF PurgeInv, IInv, CapturedLocated
<1>13. JournalShape' /\ TargetsKnown'
  BY <1>1, <1>4, AbsenceCommitted DEF PurgeInv, JournalShape, TargetsKnown
<1>14. WorkRows'
  BY <1>1, <1>4, <1>7 DEF PurgeInv, WorkRows
<1>15. CallUnderWay'
  BY <1>1, <1>2 DEF PurgeInv, CallUnderWay, Idle, Writing
<1>16. FilesKept'
  BY <1>1, <1>7 DEF PurgeInv, FilesKept, Unfinished
<1>17. FilesGone'
  BY <1>1, <1>4 DEF PurgeInv, JournalShape, FilesGone
<1>18. IInv'
  BY <1>8, <1>10, <1>11, <1>12 DEF IInv
<1> QED
  BY <1>9, <1>13, <1>14, <1>15, <1>16, <1>17, <1>18 DEF PurgeInv

-----------------------------------------------------------------------------
(* Unlinking.                                                              *)

\* A call unlinks one file of the work under way, which no row names.
LEMMA UnlinkKeeps ==
  ASSUME OrderedMetadata, PurgeInv, NEW file,
         Quiet, phase = "cleaning", file \in disk, disk' = disk \ {file}, unlinked' = {file},
         UNCHANGED <<dbVars, synced, op, faults, journal, replacing>>,
         \/ \E o \in Object : looseWork[o] = "unlinking" /\ file = Loose(o)
         \/ \E g \in Pack : packWork[g] = "unlinking" /\ file \in PackFiles(g)
  PROVE  PurgeInv'
<1>1. /\ UNCHANGED <<content, looseRow, packs, absence, synced, op, faults, replacing>>
      /\ UNCHANGED <<phase, targets, planned, published, packWork, replacement, looseWork>>
      /\ op = Idle /\ unlinked = {}
  BY DEF dbVars, journal, Quiet
<1>2. /\ \A o : HasLocation(o)' <=> HasLocation(o)
      /\ \A h : PackFiles(h)' = PackFiles(h) /\ Retained(h)' = Retained(h)
  BY <1>1 DEF HasLocation, PackFiles, Retained
<1>3. \A o, p \in Object : Loose(o) # Shard(p) /\ (Loose(o) = Loose(p) => o = p)
  BY EntryNames
<1>4. \A o \in Object, g \in Pack : Loose(o) \notin PackFiles(g) /\ Shard(o) \notin PackFiles(g)
  BY EntryNames DEF PackFiles
<1>5. \A g, h \in Pack : PackFiles(g) \cap PackFiles(h) # {} => g = h
  BY EntryNames DEF PackFiles
<1>6. \A o \in Object : looseRow[o] = "verified" => file \notin {Shard(o), Loose(o)}
  BY <1>3, <1>4 DEF PurgeInv, TargetsKnown, JournalShape, HasLocation
<1>7. \A g \in Pack : packs[g].state = "verified" => file \notin PackFiles(g)
  BY <1>4, <1>5 DEF PurgeInv, WorkRows
<1>8. IInv'
  <2>1. TypeOK'
    BY <1>1 DEF PurgeInv, PurgeTypeOK, TypeOK
  <2>2. LooseRowDurable'
    BY <1>1, <1>6 DEF PurgeInv, IInv, LooseRowDurable
  <2>3. PackRowDurable'
    BY <1>1, <1>7 DEF PurgeInv, IInv, PackRowDurable, PackFiles
  <2>4. PutProgress' /\ PackProgress' /\ UnlinkProgress'
    BY <1>1 DEF PutProgress, PackProgress, UnlinkProgress, Idle
  <2>5. CapturedLocated'
    BY <1>1, <1>2 DEF PurgeInv, IInv, CapturedLocated
  <2> QED
    BY <2>1, <2>2, <2>3, <2>4, <2>5 DEF IInv
<1>9. PurgeTypeOK'
  <2>1. file \in Entry
    BY DEF PurgeInv, PurgeTypeOK, TypeOK
  <2> QED
    BY <1>1, <1>8, <2>1 DEF PurgeInv, PurgeTypeOK, IInv
<1>10. JournalShape' /\ TargetsKnown' /\ WorkRows'
  BY <1>1, <1>2 DEF PurgeInv, JournalShape, TargetsKnown, WorkRows
<1>11. CallUnderWay'
  BY <1>1, <1>2 DEF PurgeInv, CallUnderWay, Idle
<1>12. FilesKept'
  <2>1. \A o \in Object : looseWork[o] = "pending" => file \notin {Shard(o), Loose(o)}
    BY <1>3, <1>4
  <2>2. \A g \in Pack : packWork[g] \in {"pending", "ready"} => file \notin PackFiles(g)
    BY <1>4, <1>5
  <2> QED
    BY <1>1, <1>2, <2>1, <2>2 DEF PurgeInv, FilesKept, Unfinished
<1>13. FilesGone'
  <2>1. \A e : (Gone(e) => Gone(e)') /\ (Erasing(e) => Erasing(e)')
    BY <1>1 DEF Gone, Erasing
  <2> QED
    BY <1>1, <1>2, <2>1 DEF PurgeInv, FilesGone, OneKindOfFault, Unfinished
<1> QED
  BY <1>8, <1>9, <1>10, <1>11, <1>12, <1>13 DEF PurgeInv

LEMMA UnlinksKeep ==
  ASSUME OrderedMetadata, PurgeInv,
         (\E o \in Object : LooseUnlink(o)) \/ (\E g \in Pack : PackUnlink(g))
  PROVE  PurgeInv'
<1>1. ASSUME NEW o \in Object, LooseUnlink(o) PROVE PurgeInv'
  BY <1>1, UnlinkKeeps DEF LooseUnlink
<1>2. ASSUME NEW g \in Pack, PackUnlink(g) PROVE PurgeInv'
  <2>1. PICK file : /\ file \in PackFiles(g) /\ file \in disk /\ disk' = disk \ {file}
                    /\ unlinked' = {file}
    BY <1>2 DEF PackUnlink, PackFiles
  <2> QED
    BY <1>2, <2>1, UnlinkKeeps DEF PackUnlink
<1> QED
  BY <1>1, <1>2

\* The sync ends the call: what it unlinked is gone for good.
LEMMA SyncUnlinkedKeeps == ASSUME OrderedMetadata, PurgeInv, SyncUnlinked PROVE PurgeInv'
<1>1. /\ UNCHANGED <<content, looseRow, packs, absence, disk, op, faults, replacing>>
      /\ UNCHANGED <<phase, targets, planned, published, packWork, replacement, looseWork>>
      /\ unlinked' = {}
  BY DEF SyncUnlinked, dbVars, journal
<1>2. /\ unlinked # {} /\ phase = "cleaning" /\ op = Idle /\ unlinked \cap disk = {}
      /\ \/ \E o \in Object : looseWork[o] = "unlinking" /\ unlinked = {Loose(o)}
         \/ \E g \in Pack : packWork[g] = "unlinking" /\ unlinked \subseteq PackFiles(g)
  BY DEF SyncUnlinked, PurgeInv, CallUnderWay
<1>3. /\ \A o : HasLocation(o)' <=> HasLocation(o)
      /\ \A h : PackFiles(h)' = PackFiles(h) /\ Retained(h)' = Retained(h)
  BY <1>1 DEF HasLocation, PackFiles, Retained
<1>4. \A o \in Object : ~ InPackDirectory(Shard(o)) /\ ~ InPackDirectory(Loose(o))
  BY EntryNames
<1>5. \A g \in Pack : \A e \in PackFiles(g) : InPackDirectory(e)
  BY EntryNames DEF PackFiles
<1>6. \/ synced' = synced \ unlinked /\ \A e \in unlinked : ~ InPackDirectory(e)
      \/ /\ synced' = {e \in synced : ~InPackDirectory(e)} \cup {e \in disk : InPackDirectory(e)}
         /\ \A e \in unlinked : InPackDirectory(e)
  BY <1>2, <1>4, <1>5 DEF SyncUnlinked, SyncPackDirectory
<1>7. disk \cap synced \subseteq disk \cap synced'
  BY <1>2, <1>6
<1>8. IInv'
  <2>1. TypeOK'
    BY <1>1, <1>6 DEF PurgeInv, PurgeTypeOK, TypeOK
  <2>2. LooseRowDurable' /\ PackRowDurable'
    BY <1>1, <1>7 DEF PurgeInv, IInv, LooseRowDurable, PackRowDurable
  <2>3. PutProgress' /\ PackProgress' /\ UnlinkProgress'
    BY <1>1, <1>2 DEF PutProgress, PackProgress, UnlinkProgress, Idle
  <2>4. CapturedLocated'
    BY <1>1, <1>3 DEF PurgeInv, IInv, CapturedLocated
  <2> QED
    BY <2>1, <2>2, <2>3, <2>4 DEF IInv
<1>9. PurgeTypeOK'
  BY <1>1, <1>8 DEF PurgeInv, PurgeTypeOK, IInv
<1>10. JournalShape' /\ TargetsKnown' /\ WorkRows'
  BY <1>1, <1>3 DEF PurgeInv, JournalShape, TargetsKnown, WorkRows
<1>11. CallUnderWay'
  BY <1>1, <1>2 DEF PurgeInv, CallUnderWay, Idle
<1>12. FilesKept'
  BY <1>1, <1>3, <1>7 DEF PurgeInv, FilesKept, Unfinished
<1>13. FilesGone'
  <2>1. \A e : Gone(e) => Gone(e)'
    BY <1>1, <1>6 DEF Gone
  <2>2. ASSUME NEW e, Erasing(e) PROVE Erasing(e)'
    BY <1>1, <1>6, <2>2 DEF Erasing
  <2> QED
    BY <1>1, <1>3, <2>1, <2>2 DEF PurgeInv, FilesGone, OneKindOfFault, Unfinished
<1> QED
  BY <1>8, <1>9, <1>10, <1>11, <1>12, <1>13 DEF PurgeInv

LEMMA FinishKeeps == ASSUME OrderedMetadata, PurgeInv, Finish PROVE PurgeInv'
<1>1. /\ Quiet /\ phase = "cleaning" /\ phase' = "succeeded"
      /\ absence' = [o \in Object |-> IF o \in targets THEN "succeeded" ELSE absence[o]]
      /\ UNCHANGED <<content, looseRow, packs, disk, synced, op, faults, targets,
                     planned, published, packWork, replacement, looseWork, replacing, unlinked>>
  BY DEF Finish
<1>2. /\ \A o : HasLocation(o)' <=> HasLocation(o)
      /\ \A h : Retained(h)' = Retained(h)
  BY <1>1 DEF HasLocation, Retained
<1>3. IInv'
  <2>1. TypeOK'
    BY <1>1 DEF PurgeInv, PurgeTypeOK, TypeOK
  <2>2. LooseRowDurable' /\ PackRowDurable'
    BY <1>1 DEF PurgeInv, IInv, LooseRowDurable, PackRowDurable
  <2>3. PutProgress' /\ PackProgress' /\ UnlinkProgress'
    BY <1>1 DEF PutProgress, PackProgress, UnlinkProgress, Idle, Quiet
  <2>4. \A o \in content : o \in Object
    BY DEF PurgeInv, PurgeTypeOK, TypeOK
  <2>5. CapturedLocated'
    BY <1>1, <1>2, <2>4 DEF PurgeInv, IInv, CapturedLocated
  <2> QED
    BY <2>1, <2>2, <2>3, <2>5 DEF IInv
<1>4. PurgeTypeOK'
  BY <1>1, <1>3 DEF PurgeInv, PurgeTypeOK, IInv, Phases
<1>5. JournalShape' /\ TargetsKnown' /\ WorkRows'
  BY <1>1, <1>2 DEF PurgeInv, JournalShape, TargetsKnown, WorkRows
<1>6. CallUnderWay' /\ FilesKept' /\ FilesGone'
  BY <1>1 DEF PurgeInv, CallUnderWay, FilesKept, FilesGone, Unfinished, Quiet
<1> QED
  BY <1>3, <1>4, <1>5, <1>6 DEF PurgeInv

-----------------------------------------------------------------------------
(* The rest of the store, and failures.                                    *)

\* A put runs beside an unfinished purge, but not of an object it takes away.
LEMMA PutKeeps ==
  ASSUME OrderedMetadata, PurgeInv, NEW o \in Object, PutStep(o),
         unlinked = {}, replacing = 0, UNCHANGED purgeVars
  PROVE  PurgeInv'
<1>1. UNCHANGED <<phase, targets, planned, published, packWork, replacement, looseWork, replacing, unlinked>>
  BY DEF purgeVars, journal
<1>2. IInv'
  BY PutInv DEF PurgeInv
<1>3. /\ UNCHANGED <<packs, faults>> /\ disk \subseteq disk' /\ synced \subseteq synced'
      /\ op'.at \in {"idle", "put-persisted", "put-synced"}
  BY DEF PutStep, PutPersist, PutSync, PutCommit, dbVars, At, Idle
<1>4. absence[o] # "unfinished"
  BY DEF PutStep, PutPersist, PutSync, PutCommit, PurgeInv, IInv, PutProgress, At
<1>5. phase = "cleaning" => o \notin targets
  BY <1>4 DEF PurgeInv, TargetsKnown
<1>6. \A h : PackFiles(h)' = PackFiles(h) /\ Retained(h)' = Retained(h)
  BY <1>1, <1>3 DEF PackFiles, Retained
<1>7. /\ \A p \in Object \ {o} : looseRow'[p] = looseRow[p] /\ absence'[p] = absence[p]
      /\ absence[o] = "none" => absence'[o] = "none"
      /\ looseRow[o] = "verified" => looseRow'[o] = "verified"
  BY DEF PutStep, PutPersist, PutSync, PutCommit, dbVars, PurgeInv, PurgeTypeOK, TypeOK
<1>8. \A p \in Object : /\ HasLocation(p) => HasLocation(p)'
                        /\ p # o => (HasLocation(p)' <=> HasLocation(p))
  BY <1>3, <1>7 DEF HasLocation
<1>9. PurgeTypeOK'
  BY <1>1, <1>2 DEF PurgeInv, PurgeTypeOK, IInv
<1>10. JournalShape' /\ WorkRows'
  BY <1>1, <1>3, <1>6 DEF PurgeInv, JournalShape, WorkRows
<1>11. TargetsKnown'
  <2>1. targets \subseteq Object
    BY PurgeFacts
  <2>2. phase \in {"none", "authorized", "repacking"} => \A p \in Object : absence'[p] = "none"
    BY <1>7 DEF PurgeInv, TargetsKnown
  <2>3. phase \in {"authorized", "repacking"} => targets # {} /\ \A p \in targets : HasLocation(p)'
    BY <1>8, <2>1 DEF PurgeInv, TargetsKnown
  <2>4. phase = "cleaning" => \A p \in targets : absence'[p] = "unfinished" /\ ~ HasLocation(p)'
    BY <1>5, <1>7, <1>8, <2>1 DEF PurgeInv, TargetsKnown
  <2> QED
    BY <1>1, <2>2, <2>3, <2>4 DEF TargetsKnown
<1>12. CallUnderWay'
  BY <1>1, <1>3 DEF CallUnderWay
<1>13. FilesKept'
  BY <1>1, <1>3, <1>6 DEF PurgeInv, FilesKept, Unfinished
<1>14. FilesGone'
  <2> SUFFICES ASSUME Unfinished, OneKindOfFault PROVE FilesGone'
    BY <1>1, <1>3 DEF FilesGone, OneKindOfFault, Unfinished
  <2>1. disk' \subseteq disk \cup {Shard(o), Loose(o)}
        /\ synced' \subseteq synced \cup {Shard(o), Loose(o)}
    BY DEF PutStep, PutPersist, PutSync, PutCommit
  <2>2. \A e : e \notin {Shard(o), Loose(o)} =>
          (Gone(e) => Gone(e)') /\ (Erasing(e) => Erasing(e)')
    BY <1>1, <1>3, <2>1 DEF Gone, Erasing
  <2>3. \A p \in Object : looseWork[p] \in {"unlinking", "retired"} => Loose(p) \notin {Shard(o), Loose(o)}
    <3>1. \A p \in Object : Loose(p) # Shard(o) /\ (Loose(p) = Loose(o) => p = o)
      BY EntryNames
    <3>2. looseWork[o] \in {"unlinking", "retired"} => phase = "cleaning" /\ o \in targets
      BY DEF PurgeInv, JournalShape, Unfinished
    <3> QED
      BY <1>5, <3>1, <3>2
  <2>4. \A h \in Pack : \A e \in PackFiles(h) : e \notin {Shard(o), Loose(o)}
    BY EntryNames DEF PackFiles
  <2> QED
    BY <1>1, <1>6, <2>2, <2>3, <2>4 DEF PurgeInv, FilesGone
<1> QED
  BY <1>2, <1>9, <1>10, <1>11, <1>12, <1>13, <1>14 DEF PurgeInv

\* Maintenance never reuses the row of an obsolete pack.
LEMMA ObsoleteStays ==
  ASSUME PurgeInv, Next, ~ \E o \in Object : PutStep(o)
  PROVE  /\ absence' = absence
         /\ \A g \in Pack : packs[g].state = "obsolete" =>
              packs'[g].state = "obsolete" /\ packs'[g].objects = packs[g].objects
<1>1. packs \in [Pack -> PackRow] /\ IInv
  BY PurgeFacts DEF PurgeInv
<1>2. absence' = absence
  BY <1>1, OtherLocated
<1>3. CASE packs' = packs
  BY <1>2, <1>3
<1>4. ASSUME NEW g \in Pack, NEW S \in SUBSET Object, ActivatePack(g, S)
      PROVE  \A h \in Pack : packs[h].state = "obsolete" => packs'[h] = packs[h]
  <2>1. packs[g].state = "none"
    BY <1>1, <1>4 DEF IInv, PackProgress, ActivatePack, At
  <2> QED
    BY <1>1, <1>4, <2>1 DEF ActivatePack, Activated
<1>5. ASSUME NEW g \in Pack, RetireCommit(g)
      PROVE  \A h \in Pack : packs[h].state = "obsolete" => packs'[h] = packs[h]
  BY <1>1, <1>5 DEF RetireCommit
<1>6. \/ packs' = packs
      \/ \E g \in Pack, S \in SUBSET Object : ActivatePack(g, S)
      \/ \E g \in Pack : RetireCommit(g)
  BY DEF Next, PackStep, RetireStep, PackLooseObjects, WritePack, PersistIndex, SyncNewPack,
     RetireUnlinkPack, RetireUnlinkIndex, RetireSync, RepackPack, PruneCommit, PruneUnlink,
     PruneDone, Abort, PowerLoss, dbVars
<1> QED
  BY <1>2, <1>3, <1>4, <1>5, <1>6

LEMMA MaintenanceKeeps ==
  ASSUME OrderedMetadata, PurgeInv, Next, ~ \E o \in Object : PutStep(o), ~ Unfinished,
         unlinked = {}, replacing = 0, UNCHANGED purgeVars
  PROVE  PurgeInv'
<1>1. UNCHANGED <<phase, targets, planned, published, packWork, replacement, looseWork, replacing, unlinked>>
  BY DEF purgeVars, journal
<1>2. phase \in {"none", "succeeded"}
  BY DEF PurgeInv, PurgeTypeOK, Phases, Unfinished
<1>3. IInv'
  BY NextInv DEF PurgeInv
<1>4. PurgeTypeOK'
  BY <1>1, <1>3 DEF PurgeInv, PurgeTypeOK, IInv
<1>5. JournalShape' /\ TargetsKnown'
  BY <1>1, <1>2, ObsoleteStays DEF PurgeInv, JournalShape, TargetsKnown
<1>6. WorkRows'
  <2> SUFFICES ASSUME NEW g \in Pack
               PROVE  /\ packWork[g] # "none" =>
                           /\ phase = "succeeded" /\ packs'[g].state = "obsolete"
                           /\ Retained(g)' = Retained(g)
                      /\ packWork[g] = "none" => replacement[g] = 0
    BY <1>1 DEF PurgeInv, WorkRows
  <2>1. packWork[g] # "none" => phase = "succeeded" /\ packs[g].state = "obsolete"
    BY <1>2 DEF PurgeInv, JournalShape, WorkRows
  <2>2. packWork[g] = "none" => replacement[g] = 0
    BY DEF PurgeInv, WorkRows
  <2> QED
    BY <1>1, <2>1, <2>2, ObsoleteStays DEF Retained
<1>7. CallUnderWay' /\ FilesKept' /\ FilesGone'
  BY <1>1 DEF CallUnderWay, FilesKept, FilesGone, Unfinished
<1> QED
  BY <1>3, <1>4, <1>5, <1>6, <1>7 DEF PurgeInv

LEMMA StoreStepKeeps == ASSUME OrderedMetadata, PurgeInv, StoreStep PROVE PurgeInv'
<1>1. CASE \E o \in Object : PutStep(o)
  BY <1>1, PutKeeps DEF StoreStep
<1>2. CASE ~ \E o \in Object : PutStep(o)
  <2>1. Next /\ ~ Unfinished /\ unlinked = {} /\ replacing = 0 /\ UNCHANGED purgeVars
    BY <1>2 DEF StoreStep, Next
  <2> QED
    BY <1>2, <2>1, MaintenanceKeeps
<1> QED
  BY <1>1, <1>2

\* A failure forgets the call.  Of two faults of different kinds FilesGone says
\* nothing.
LEMMA FailureKeeps == ASSUME OrderedMetadata, PurgeInv, Failure PROVE PurgeInv'
<1>1. /\ UNCHANGED <<content, looseRow, packs, absence>> /\ replacing' = 0 /\ unlinked' = {}
      /\ UNCHANGED <<phase, targets, planned, published, packWork, replacement, looseWork>>
  BY DEF Failure, Abort, PowerLoss, dbVars, journal
<1>2. ASSUME \/ Abort
             \/ /\ unlinked # {} /\ faults.aborts < MaxAborts
                /\ faults' = [faults EXCEPT !.aborts = @ + 1]
                /\ UNCHANGED <<dbVars, disk, synced, op>>
      PROVE  IInv' /\ op' = Idle /\ FilesKept' /\ FilesGone'
  <2>1. /\ disk' = disk /\ synced' = synced /\ faults' = [faults EXCEPT !.aborts = @ + 1]
        /\ faults.aborts < MaxAborts /\ op' = Idle
    BY <1>2 DEF Abort, PurgeInv, CallUnderWay
  <2>2. faults'.aborts # 0 /\ faults'.losses = faults.losses
    BY <2>1, PurgeFacts DEF PurgeInv, PurgeTypeOK, TypeOK
  <2>3. IInv'
    <3>1. CASE Abort
      BY <3>1, FailureInv DEF PurgeInv
    <3>2. CASE op = Idle
      <4>1. TypeOK'
        BY <1>1, <2>1, <3>2, BoundsAssumption DEF PurgeInv, PurgeTypeOK, TypeOK
      <4>2. LooseRowDurable' /\ PackRowDurable' /\ CapturedLocated'
        BY <1>1, <2>1 DEF PurgeInv, IInv, LooseRowDurable, PackRowDurable, CapturedLocated, HasLocation
      <4>3. PutProgress' /\ PackProgress' /\ UnlinkProgress'
        BY <2>1 DEF PutProgress, PackProgress, UnlinkProgress, Idle
      <4> QED
        BY <4>1, <4>2, <4>3 DEF IInv
    <3> QED
      BY <1>2, <3>1, <3>2 DEF PurgeInv, CallUnderWay
  <2>4. FilesKept'
    BY <1>1, <2>1 DEF PurgeInv, FilesKept, PackFiles, Unfinished
  <2>5. FilesGone'
    BY <1>1, <2>1, <2>2 DEF PurgeInv, FilesGone, PackFiles, Unfinished, OneKindOfFault, Gone, Erasing
  <2> QED
    BY <2>1, <2>3, <2>4, <2>5
<1>3. ASSUME PowerLoss PROVE IInv' /\ op' = Idle /\ FilesKept' /\ FilesGone'
  <2>1. PICK kept \in SUBSET ((disk \ synced) \cup (synced \ disk)) :
          LET entries == (disk \cap synced) \cup kept
              survive == {e \in entries :
                e.kind = "loose" => [e EXCEPT !.kind = "shard"] \in entries}
          IN disk' = survive /\ synced' = survive
    BY <1>3 DEF PowerLoss
  <2>2. disk' = synced' /\ disk' \subseteq disk \cup synced
    BY <2>1
  <2>3. \A o \in Object : {Shard(o), Loose(o)} \subseteq disk \cap synced
          => {Shard(o), Loose(o)} \subseteq disk' \cap synced'
    BY <2>1 DEF Shard, Loose
  <2>4. \A g \in Pack : PackFiles(g) \subseteq disk \cap synced => PackFiles(g) \subseteq disk' \cap synced'
    BY <2>1 DEF PackFiles, PackFile, IndexFile
  <2>5. faults'.losses # 0 /\ faults'.aborts = faults.aborts
    BY <1>3, PurgeFacts DEF PowerLoss, PurgeInv, PurgeTypeOK, TypeOK
  <2>6. IInv' /\ op' = Idle
    BY <1>3, FailureInv DEF PurgeInv, PowerLoss
  <2>7. FilesKept'
    BY <1>1, <2>3, <2>4 DEF PurgeInv, FilesKept, PackFiles, Unfinished
  <2>8. FilesGone'
    <3>1. \A e : faults.aborts = 0 => (Gone(e) => Gone(e)') /\ Erasing(e)'
      BY <2>2, <2>5 DEF Gone, Erasing
    <3>2. OneKindOfFault' => faults.aborts = 0 /\ OneKindOfFault
      BY <2>5 DEF OneKindOfFault
    <3>3. \A h : PackFiles(h)' = PackFiles(h)
      BY <1>1 DEF PackFiles
    <3> QED
      BY <1>1, <3>1, <3>2, <3>3 DEF PurgeInv, FilesGone, Unfinished
  <2> QED
    BY <2>6, <2>7, <2>8
<1>4. IInv' /\ op' = Idle /\ FilesKept' /\ FilesGone'
  BY <1>2, <1>3 DEF Failure
<1>5. PurgeTypeOK'
  BY <1>1, <1>4 DEF PurgeInv, PurgeTypeOK, IInv
<1>6. JournalShape' /\ TargetsKnown' /\ WorkRows'
  BY <1>1 DEF PurgeInv, JournalShape, TargetsKnown, WorkRows, HasLocation, Retained
<1>7. CallUnderWay'
  BY <1>1, <1>4 DEF CallUnderWay, Idle
<1> QED
  BY <1>4, <1>5, <1>6, <1>7 DEF PurgeInv

-----------------------------------------------------------------------------
LEMMA ResumeStepKeeps == ASSUME OrderedMetadata, PurgeInv, ResumeStep PROVE PurgeInv'
<1>1. CASE Publish \/ Prepare \/ CommitAbsence \/ SyncUnlinked \/ Finish
  BY <1>1, PublishKeeps, PrepareKeeps, CommitAbsenceKeeps, SyncUnlinkedKeeps, FinishKeeps
<1>2. ASSUME NEW g \in Pack, MarkWholePackReady(g) \/ PackIntent(g) \/ PackRetire(g)
      PROVE  PurgeInv'
  BY <1>2, MarkWholePackReadyKeeps, PackWorkKeeps
<1>3. ASSUME NEW old \in Pack, NEW g \in Pack, ReplaceMixedPack(old, g) PROVE PurgeInv'
  BY <1>3, ReplaceMixedPackKeeps
<1>4. ASSUME NEW g \in Pack, NEW S \in SUBSET Object,
             \/ ActivateReplacement(g, S)
             \/ /\ replacing # 0 /\ UNCHANGED purgeVars
                /\ PersistIndex(g, S) \/ SyncNewPack(g, S)
      PROVE  PurgeInv'
  BY <1>4, ActivateReplacementKeeps, WriteOnKeeps
<1>5. ASSUME NEW o \in Object, LooseIntent(o) \/ LooseRetire(o) PROVE PurgeInv'
  BY <1>5, LooseWorkKeeps
<1>6. CASE (\E o \in Object : LooseUnlink(o)) \/ (\E g \in Pack : PackUnlink(g))
  BY <1>6, UnlinksKeep
<1> QED
  BY <1>1, <1>2, <1>3, <1>4, <1>5, <1>6 DEF ResumeStep

LEMMA StutterKeeps == ASSUME OrderedMetadata, PurgeInv, UNCHANGED allVars PROVE PurgeInv'
<1>1. /\ UNCHANGED vars
      /\ UNCHANGED <<phase, targets, planned, published, packWork, replacement, looseWork, replacing, unlinked>>
  BY DEF allVars, purgeVars, journal
<1>2. /\ IInv' /\ TypeOK' /\ UNCHANGED <<packs, looseRow, absence, op, disk, synced, faults>>
      /\ \A o : HasLocation(o)' <=> HasLocation(o)
      /\ \A g : PackFiles(g)' = PackFiles(g) /\ Retained(g)' = Retained(g)
  BY <1>1, JournalMoves DEF Retained
<1>3. PurgeTypeOK' /\ JournalShape' /\ TargetsKnown'
  BY <1>1, <1>2 DEF PurgeInv, PurgeTypeOK, JournalShape, TargetsKnown
<1>4. WorkRows' /\ CallUnderWay'
  BY <1>1, <1>2 DEF PurgeInv, WorkRows, CallUnderWay, Unfinished
<1>5. FilesKept' /\ FilesGone'
  BY <1>1, <1>2 DEF PurgeInv, FilesKept, FilesGone, Gone, Erasing, OneKindOfFault, Unfinished
<1> QED
  BY <1>2, <1>3, <1>4, <1>5 DEF PurgeInv

LEMMA PurgeNextKeeps ==
  ASSUME OrderedMetadata
  PROVE  PurgeInv /\ [PurgeNext]_allVars => PurgeInv'
<1> SUFFICES ASSUME PurgeInv, [PurgeNext]_allVars PROVE PurgeInv'
  OBVIOUS
<1>1. ASSUME NEW T \in SUBSET Object, Authorize(T) PROVE PurgeInv'
  BY <1>1, AuthorizeKeeps
<1>2. CASE ResumeStep \/ StoreStep \/ Failure
  BY <1>2, ResumeStepKeeps, StoreStepKeeps, FailureKeeps
<1>3. CASE UNCHANGED allVars
  BY <1>3, StutterKeeps
<1> QED
  BY <1>1, <1>2, <1>3 DEF PurgeNext

-----------------------------------------------------------------------------
(* What follows.                                                           *)

\* While a purge runs, is killed and resumed, PurgeInv holds.
THEOREM PurgeInvariance ==
  ASSUME OrderedMetadata
  PROVE  PurgeSpec => []PurgeInv
<1>1. PurgeInv /\ [PurgeNext]_allVars => PurgeInv'
  BY PurgeNextKeeps
<1> QED
  BY PurgeInvInit, <1>1, PTL DEF PurgeSpec

\* A purge unlinks no file that a verified row names (LooseUnlink, PackUnlink):
\* the rows of the store name durable files throughout.
THEOREM PurgeKeepsRowsDurable ==
  ASSUME OrderedMetadata
  PROVE  PurgeSpec => []RowsDurable
<1>1. PurgeInv => RowsDurable
  BY DEF PurgeInv, IInv, RowsDurable
<1> QED
  BY <1>1, PurgeInvariance, PTL

\* What the purge retains stays readable while its mixed packs are replaced
\* and unlinked (replace_next_mixed_pack, commit_authorized_absence).
THEOREM RetainedStaysReadable ==
  ASSUME OrderedMetadata
  PROVE  PurgeSpec => []CapturedReadable
<1>1. PurgeInv => CapturedReadable
  BY LocatedReadable DEF PurgeInv, IInv, CapturedLocated, CapturedReadable
<1> QED
  BY <1>1, PurgeInvariance, PTL

\* verify_purge_cleanup_state accepts an unfinished purge in every state.
THEOREM JournalsAreAccepted ==
  ASSUME OrderedMetadata
  PROVE  PurgeSpec => []UnfinishedJournalAccepted
<1>1. PurgeInv => UnfinishedJournalAccepted
  <2> SUFFICES ASSUME PurgeInv, Unfinished, OneKindOfFault PROVE JournalAccepted
    BY DEF UnfinishedJournalAccepted
  <2>1. phase \in {"authorized", "repacking", "cleaning"} /\ targets \subseteq Object
    BY PurgeFacts DEF Unfinished
  <2>2. phase \in {"repacking", "cleaning"} => LooseRowsAgree
    <3> SUFFICES ASSUME phase \in {"repacking", "cleaning"}, NEW o \in Object, looseWork[o] # "none"
                 PROVE  PresenceAgrees(looseWork[o], Loose(o) \in disk)
      BY DEF LooseRowsAgree, Superseded
    <3>1. looseWork[o] = "pending" => Loose(o) \in disk
      BY DEF PurgeInv, FilesKept
    <3>2. looseWork[o] = "retired" => Loose(o) \notin disk
      BY DEF PurgeInv, FilesGone, Gone
    <3>3. looseWork[o] \in {"pending", "unlinking", "retired"} /\ (phase = "repacking" => looseWork[o] = "pending")
      BY PurgeFacts DEF PurgeInv, JournalShape
    <3> QED
      BY <3>1, <3>2, <3>3 DEF PresenceAgrees
  <2>3. phase \in {"repacking", "cleaning"} => PackRowsAgree
    <3> SUFFICES ASSUME phase \in {"repacking", "cleaning"}, NEW g \in Pack, packWork[g] # "none"
                 PROVE  /\ \A e \in PackFiles(g) : PresenceAgrees(FileWork(g), e \in disk)
                        /\ packs[g].state = IF phase = "repacking" THEN "verified" ELSE "obsolete"
                        /\ replacement[g] # 0 <=> packWork[g] # "pending" /\ Retained(g) # {}
      BY DEF PackRowsAgree, PackFiles
    <3>1. /\ packWork[g] \in {"pending", "ready", "unlinking", "retired"}
          /\ phase = "repacking" => packWork[g] \in {"pending", "ready"}
          /\ phase = "cleaning" => packWork[g] \in {"ready", "unlinking", "retired"}
      BY DEF PurgeInv, JournalShape
    <3>2. packs[g].state = IF phase = "repacking" THEN "verified" ELSE "obsolete"
      BY DEF PurgeInv, WorkRows
    <3>3. replacement[g] # 0 <=> packWork[g] # "pending" /\ Retained(g) # {}
      BY <3>1 DEF PurgeInv, WorkRows
    <3>4. ASSUME NEW e \in PackFiles(g) PROVE PresenceAgrees(FileWork(g), e \in disk)
      <4>1. packWork[g] \in {"pending", "ready"} => e \in disk
        BY DEF PurgeInv, FilesKept
      <4>2. packWork[g] = "retired" => e \notin disk
        BY DEF PurgeInv, FilesGone, Gone
      <4> QED
        BY <3>1, <4>1, <4>2 DEF PresenceAgrees, FileWork
    <3> QED
      BY <3>2, <3>3, <3>4
  <2>4. phase = "authorized" =>
          /\ \A o \in Object : looseWork[o] = "none"
          /\ \A o \in targets : absence[o] = "none"
    BY <2>1 DEF PurgeInv, JournalShape, TargetsKnown
  <2>5. phase = "repacking" => \E o \in targets : HasLocation(o)
    BY DEF PurgeInv, TargetsKnown
  <2>6. phase = "cleaning" => \A o \in targets : absence[o] = "unfinished" /\ ~HasLocation(o)
    BY DEF PurgeInv, TargetsKnown
  <2> QED
    BY <2>1, <2>2, <2>3, <2>4, <2>5, <2>6 DEF JournalAccepted
<1> QED
  BY <1>1, PurgeInvariance, PTL

\* Only Finish completes a purge.
LEMMA OnlyFinishSucceeds ==
  ASSUME PurgeInv, [PurgeNext]_allVars, SucceedsNow
  PROVE  Finish
<1>1. phase # "succeeded" /\ phase' = "succeeded"
  BY DEF SucceedsNow
<1>2. ~ StoreStep /\ ~ Failure /\ ~ UNCHANGED allVars
  BY <1>1 DEF StoreStep, Failure, allVars, purgeVars, journal
<1>3. ~ \E T \in SUBSET Object : Authorize(T)
  BY <1>1 DEF Authorize
<1>4. ~ (Publish \/ Prepare \/ CommitAbsence \/ SyncUnlinked)
  BY <1>1 DEF Publish, Prepare, CommitAbsence, SyncUnlinked, journal
<1>5. ASSUME NEW g \in Pack
      PROVE  /\ ~ (MarkWholePackReady(g) \/ PackIntent(g) \/ PackUnlink(g) \/ PackRetire(g))
             /\ ~ \E old \in Pack : ReplaceMixedPack(old, g)
             /\ ~ \E S \in SUBSET Object : ActivateReplacement(g, S)
  BY <1>1 DEF MarkWholePackReady, PackIntent, PackUnlink, PackRetire, ReplaceMixedPack,
     ActivateReplacement, journal
<1>6. ASSUME NEW o \in Object PROVE ~ (LooseIntent(o) \/ LooseUnlink(o) \/ LooseRetire(o))
  BY <1>1 DEF LooseIntent, LooseUnlink, LooseRetire, journal
<1>7. ~ UNCHANGED purgeVars
  BY <1>1 DEF purgeVars, journal
<1> QED
  BY <1>2, <1>3, <1>4, <1>5, <1>6, <1>7 DEF PurgeNext, ResumeStep

\* When a purge is reported complete no file of its inventory is left, nor can
\* a power failure bring one back, unless a call was killed (PinnedManagedFile).
THEOREM CompletionMeansErased ==
  ASSUME OrderedMetadata
  PROVE  PurgeSpec => CompletedPurgeErased
<1> DEFINE Erased == SucceedsNow =>
             /\ OneKindOfFault => InventoryFiles \cap disk = {}
             /\ faults.aborts = 0 => InventoryFiles \cap synced = {}
<1>1. PurgeInv /\ [PurgeNext]_allVars => Erased
  <2> SUFFICES ASSUME PurgeInv, [PurgeNext]_allVars, SucceedsNow
               PROVE  /\ OneKindOfFault => InventoryFiles \cap disk = {}
                      /\ faults.aborts = 0 => InventoryFiles \cap synced = {}
    OBVIOUS
  <2>1. /\ phase = "cleaning"
        /\ \A o \in Object : looseWork[o] \in {"none", "retired"}
        /\ \A g \in Pack : packWork[g] \in {"none", "retired"}
    BY OnlyFinishSucceeds DEF Finish, LooseDone
  <2>2. ASSUME OneKindOfFault, NEW e \in InventoryFiles PROVE Gone(e)
    <3>1. CASE \E o \in Object : looseWork[o] # "none" /\ e = Loose(o)
      BY <2>1, <2>2, <3>1 DEF PurgeInv, FilesGone, Unfinished
    <3>2. CASE \E g \in Pack : packWork[g] # "none" /\ e \in PackFiles(g)
      BY <2>1, <2>2, <3>2 DEF PurgeInv, FilesGone, Unfinished
    <3> QED
      BY <2>2, <3>1, <3>2 DEF InventoryFiles, PackFiles
  <2>3. faults.aborts = 0 => OneKindOfFault
    BY DEF OneKindOfFault
  <2> QED
    BY <2>2, <2>3 DEF Gone
<1>2. PurgeInv /\ [PurgeNext]_allVars => [Erased]_allVars
  BY <1>1
<1> QED
  BY <1>2, PurgeInvariance, PTL DEF PurgeSpec, CompletedPurgeErased

-----------------------------------------------------------------------------
(* The store with its purge implements the archive.                        *)

LEMMA LocatedTargets ==
  ASSUME PurgeInv, CommitAbsence
  PROVE  /\ targets \subseteq Located /\ Located' = Located \ targets
         /\ {o \in Object : absence'[o] # "none"} = {o \in Object : absence[o] # "none"} \cup targets
<1>1. /\ content' = content /\ content \subseteq Object /\ targets \subseteq content
      /\ phase = "repacking" /\ targets \subseteq Object
      /\ absence' = [o \in Object |-> IF o \in targets THEN "unfinished" ELSE absence[o]]
  BY PurgeFacts DEF CommitAbsence, Previewable, PurgeInv, PurgeTypeOK, TypeOK
<1>2. targets \subseteq Located
  BY <1>1 DEF PurgeInv, TargetsKnown, Located
<1>3. Located' = Located \ targets
  BY <1>1, AbsenceCommitted DEF Located
<1> QED
  BY <1>1, <1>2, <1>3

\* A step of the store is a step of Archive by itself (StoreImplementsArchive);
\* of the purge's own, only the commit of the absences changes what it tells.
LEMMA PurgeLocated ==
  ASSUME PurgeInv, [PurgeNext]_allVars
  PROVE  \/ /\ Located' = Located
            /\ {o \in Object : absence'[o] # "none"} = {o \in Object : absence[o] # "none"}
         \/ \E o \in Object : PutStep(o)
         \/ CommitAbsence
<1> DEFINE Same == /\ Located' = Located
                   /\ {o \in Object : absence'[o] # "none"} = {o \in Object : absence[o] # "none"}
<1>1. ASSUME UNCHANGED dbVars PROVE Same
  BY <1>1 DEF dbVars, Located, HasLocation
<1>2. ASSUME Next, ~ \E o \in Object : PutStep(o) PROVE Same
  BY <1>2, OtherLocated DEF PurgeInv
<1>3. ASSUME Finish PROVE Same
  <2>1. /\ UNCHANGED <<content, looseRow, packs>> /\ phase = "cleaning"
        /\ absence' = [o \in Object |-> IF o \in targets THEN "succeeded" ELSE absence[o]]
    BY <1>3 DEF Finish
  <2>2. \A o \in targets : absence[o] # "none"
    BY <2>1 DEF PurgeInv, TargetsKnown
  <2>3. \A o \in Object : absence'[o] # "none" <=> absence[o] # "none"
    BY <2>1, <2>2
  <2> QED
    BY <2>1, <2>3 DEF Located, HasLocation
<1>4. ASSUME NEW g \in Pack, NEW S \in SUBSET Object, ActivateReplacement(g, S) PROVE Same
  <2>1. ActivatePack(g, S)
    BY <1>4 DEF ActivateReplacement
  <2>2. ~ \E o \in Object : PutStep(o)
    BY <2>1 DEF ActivatePack, PutStep, PutPersist, PutSync, PutCommit, At, Idle
  <2> QED
    BY <1>2, <2>1, <2>2 DEF Next, PackStep
<1>5. ASSUME StoreStep PROVE Same \/ \E o \in Object : PutStep(o)
  <2>1. Next
    BY <1>5 DEF StoreStep, Next
  <2> QED
    BY <1>2, <2>1
<1>6. ASSUME Failure PROVE Same
  BY <1>1, <1>6 DEF Failure, Abort, PowerLoss
<1>7. ASSUME UNCHANGED allVars PROVE Same
  BY <1>1, <1>7 DEF allVars, vars, dbVars
<1>8. ASSUME NEW T \in SUBSET Object, Authorize(T) PROVE Same
  BY <1>1, <1>8 DEF Authorize, vars, dbVars
<1>9. ASSUME Publish \/ Prepare \/ SyncUnlinked PROVE Same
  BY <1>1, <1>9 DEF Publish, Prepare, SyncUnlinked, vars, dbVars
<1>10. ASSUME NEW g \in Pack, MarkWholePackReady(g) \/ PackIntent(g) \/ PackUnlink(g) \/ PackRetire(g)
       PROVE  Same
  BY <1>1, <1>10 DEF MarkWholePackReady, PackIntent, PackUnlink, PackRetire, vars, dbVars
<1>11. ASSUME NEW g \in Pack, NEW old \in Pack, ReplaceMixedPack(old, g) PROVE Same
  BY <1>1, <1>11 DEF ReplaceMixedPack, WritePack
<1>12. ASSUME NEW o \in Object, LooseIntent(o) \/ LooseUnlink(o) \/ LooseRetire(o) PROVE Same
  BY <1>1, <1>12 DEF LooseIntent, LooseUnlink, LooseRetire, vars, dbVars
<1>13. ASSUME NEW g \in Pack, NEW S \in SUBSET Object, PersistIndex(g, S) \/ SyncNewPack(g, S) PROVE Same
  BY <1>1, <1>13 DEF PersistIndex, SyncNewPack
<1>14. ASSUME ResumeStep PROVE Same \/ CommitAbsence
  <2> HIDE DEF Same
  <2> QED
    BY <1>3, <1>4, <1>9, <1>10, <1>11, <1>12, <1>13, <1>14 DEF ResumeStep
<1> HIDE DEF Same
<1>15. Same \/ (\E o \in Object : PutStep(o)) \/ CommitAbsence
  BY <1>5, <1>6, <1>7, <1>8, <1>14 DEF PurgeNext
<1> QED
  BY <1>15 DEF Same

\* The store and its purge implement the archive: only a committed put and the
\* commit of authorized absences change what can be read, and the purge makes
\* its whole inventory absent at once and nothing else.
THEOREM PurgeImplementsArchive ==
  ASSUME OrderedMetadata
  PROVE  PurgeSpec => ImplementsArchive
<1>1. PurgeInit => Promise!Init
  BY DEF PurgeInit, Init, Promise!Init, Readable
<1>2. PurgeInv => {o \in Object : Readable(o)} = Located
  BY HeldIsLocated DEF PurgeInv
<1>3. PurgeInv' => ({o \in Object : Readable(o)} = Located)'
  BY <1>2, PTL
<1>4. PurgeInv /\ PurgeInv' /\ [PurgeNext]_allVars => [Promise!Next]_Promise!vars
  <2> SUFFICES ASSUME PurgeInv, PurgeInv', [PurgeNext]_allVars
               PROVE  [Promise!Next]_Promise!vars
    OBVIOUS
  <2> DEFINE Held == {o \in Object : Readable(o)}
             Absent == {o \in Object : absence[o] # "none"}
  <2>1. Held = Located /\ Held' = Located'
    BY <1>2, <1>3
  <2>2. CASE Located' = Located /\ Absent' = Absent
    BY <2>1, <2>2 DEF Promise!vars
  <2>3. ASSUME NEW o \in Object, PutStep(o) PROVE [Promise!Next]_Promise!vars
    <3>1. CASE Located' = Located /\ absence' = absence
      BY <2>1, <3>1 DEF Promise!vars
    <3>2. CASE /\ Located' = Located \cup {o}
               /\ absence' = [absence EXCEPT ![o] = "none"]
      <4>1. Held' = Held \cup {o}
        BY <2>1, <3>2
      <4>2. Absent' = Absent \ {o}
        BY <3>2 DEF PurgeInv, IInv, TypeOK
      <4> QED
        BY <4>1, <4>2 DEF Promise!Capture, Promise!Next
    <3> QED
      BY <2>3, <3>1, <3>2, PutLocated DEF PurgeInv
  <2>4. CASE CommitAbsence
    <3>1. targets \subseteq Held /\ Held' = Held \ targets /\ Absent' = Absent \cup targets
      BY <2>1, <2>4, LocatedTargets
    <3>2. PICK S \in SUBSET Object : S = targets
      BY PurgeFacts
    <3>3. Promise!AuthorizeAbsence(S)
      BY <3>1, <3>2 DEF Promise!AuthorizeAbsence
    <3> QED
      BY <3>3 DEF Promise!Next
  <2> QED
    BY <2>2, <2>3, <2>4, PurgeLocated
<1> QED
  BY <1>1, <1>4, PurgeInvariance, PTL DEF PurgeSpec, Promise!Spec, ImplementsArchive
=============================================================================
