--------------------------- MODULE IntegrityScan ---------------------------
(* A verification of a library: the objects in pages of IDs, the manifests and
   what they claim, the media of the latest one, the metadata records in pages of
   keys.  It is many statements on one connection and holds no lock: a command
   that verifies against a trusted head runs beside a synchronization, whose
   commits fall between any two statements.  What a purge removed is the subject
   of Audit; wikis and collections are one scope. *)
EXTENDS Naturals, FiniteSets, FiniteSetsExt

CONSTANTS
  Libraries,    \* the libraries a verification may meet
  PageSize,     \* VerificationOptions: entries of a page,
  QuickLimit,   \* and objects a quick verification looks at
  MaxRevision   \* bound: revisions, objects and images

(* Keys are positive; the wiki numbers a revision after its parent. *)
Numbered(keys) == keys \subseteq Nat \ {0} /\ IsFiniteSet(keys)
ASSUME ScanAssumption ==
  /\ {QuickLimit, MaxRevision} \subseteq Nat /\ PageSize \in Nat \ {0}
  /\ \A known \in Libraries :
       /\ DOMAIN known = {"objects", "readable", "revisions", "heads", "runs", "checkpoints",
                         "documents", "fts", "media", "placements", "chain"}
       /\ known.objects \cup known.fts \subseteq 1 .. MaxRevision
       /\ \A table \in {"revisions", "heads", "checkpoints", "documents", "media", "placements"} :
            DOMAIN known[table] \subseteq 1 .. MaxRevision
       /\ Numbered(DOMAIN known.runs) /\ Numbered(DOMAIN known.chain)
       /\ \A r \in DOMAIN known.revisions : known.revisions[r].parent \in 0 .. r
       /\ \A d \in DOMAIN known.documents : DOMAIN known.documents[d] = {"page", "revision"}

VARIABLES
  library,  \* rows and files
  version,  \* PRAGMA data_version of the verifying connection
  writer,   \* where a synchronization is, its page and its object
  scan,     \* the verification's locals and report
  intact,   \* the library was whole at first
  quiet     \* nothing has been written since the verification began
scanVars == <<library, version, writer, scan, intact, quiet>>

NoScan == [phase |-> "none", scope |-> "none", total |-> 0, target |-> 0, examined |-> 0,
           cursor |-> <<0, 0>>, counter |-> 0, names |-> {}, read |-> {}, represented |-> {},
           found |-> FALSE, partial |-> FALSE]
IdleWriter == [step |-> "idle", page |-> 0, object |-> 0]
-----------------------------------------------------------------------------
(* What is asked of one record. *)
Pages == DOMAIN library.heads
RevisionSound(r) ==
  LET revision == library.revisions[r] IN
  /\ revision.page \in Pages /\ revision.object \in library.objects
  /\ revision.parent # r
  /\ revision.parent \in DOMAIN library.revisions =>
       library.revisions[revision.parent].page = revision.page
IsOf(r, page) == r \in DOMAIN library.revisions /\ library.revisions[r].page = page
PageSound(p) == library.heads[p] = 0 \/ IsOf(library.heads[p], p)
CheckpointSound(c) ==
  LET checkpoint == library.checkpoints[c] IN
  \/ checkpoint = [run |-> 0, through |-> 0]
  \/ /\ checkpoint.run \in DOMAIN library.runs
     /\ library.runs[checkpoint.run] = [succeeded |-> TRUE, candidate |-> checkpoint.through]
DocumentSound(d) ==
  LET document == library.documents[d] IN
  /\ document.page \in Pages /\ IsOf(document.revision, document.page)
  /\ library.heads[document.page] = document.revision
  /\ d \in library.fts
FtsRowSound(d) == d \in DOMAIN library.documents
MediaSound(m) ==
  LET media == library.media[m] IN
  media.valid /\ media.object \in library.objects \cap library.readable
PlacementSound(x) ==
  LET placement == library.placements[x] IN
  /\ placement.revision \in DOMAIN library.revisions
  /\ library.revisions[placement.revision].page \in Pages
  /\ placement.media \in DOMAIN library.media

(* The records in the order of their categories and keys. *)
Categories == 1 .. 7
Keys(category) ==
  CASE category = 1 -> DOMAIN library.revisions [] category = 2 -> Pages
    [] category = 3 -> DOMAIN library.checkpoints [] category = 4 -> DOMAIN library.documents
    [] category = 5 -> library.fts [] category = 6 -> DOMAIN library.media
    [] category = 7 -> DOMAIN library.placements
RecordSound(record) ==
  LET key == record[2] IN
  CASE record[1] = 1 -> RevisionSound(key) [] record[1] = 2 -> PageSound(key)
    [] record[1] = 3 -> CheckpointSound(key) [] record[1] = 4 -> DocumentSound(key)
    [] record[1] = 5 -> FtsRowSound(key) [] record[1] = 6 -> MediaSound(key)
    [] record[1] = 7 -> PlacementSound(key)
Precedes(a, b) == a[1] < b[1] \/ (a[1] = b[1] /\ a[2] < b[2])
Records == {record \in Categories \X (1 .. MaxRevision) : record[2] \in Keys(record[1])}
(* The first entries of a set that lie after a cursor. *)
PageOf(entries, cursor, limit) ==
  LET rest == {e \in entries : Precedes(cursor, e)}
  IN {e \in rest : Cardinality({f \in rest : Precedes(f, e)}) < limit}
LastOf(page) == CHOOSE e \in page : \A f \in page \ {e} : Precedes(f, e)

(* What a manifest claims. *)
RevisionClaimHolds(claim) ==
  /\ claim.page \in Pages /\ IsOf(claim.revision, claim.page)
  /\ library.revisions[claim.revision].object = claim.object
HeadClaimHolds(head) == head.page \in Pages /\ IsOf(head.revision, head.page)
ClaimsHold(manifest) ==
  /\ \A claim \in manifest.claims : RevisionClaimHolds(claim)
  /\ \A head \in manifest.heads : HeadClaimHolds(head)

(* A library that nothing happened to: every succeeded run is recorded once, in
   one chain, and the last entry lists what is there. *)
Recorded == {library.chain[n].run : n \in DOMAIN library.chain}
Succeeded == {run \in DOMAIN library.runs : library.runs[run].succeeded}
Whole ==
  /\ library.objects \subseteq library.readable
  /\ \A record \in Records : RecordSound(record)
  /\ DOMAIN library.chain = 1 .. Cardinality(DOMAIN library.chain)
  /\ \A n \in DOMAIN library.chain : library.chain[n].predecessor = n - 1 /\ ClaimsHold(library.chain[n])
  /\ \A m, n \in DOMAIN library.chain : library.chain[m].run = library.chain[n].run => m = n
  /\ Recorded = Succeeded
  /\ DOMAIN library.chain # {} =>
       LET latest == library.chain[Max(DOMAIN library.chain)]
       IN latest.placements = library.placements /\ latest.media = library.media

ScanInit ==
  /\ library \in Libraries /\ version = 0 /\ writer = IdleWriter
  /\ scan = NoScan /\ intact = Whole /\ quiet = TRUE

-----------------------------------------------------------------------------
(* The verification. *)
Looks(phase) == scan.phase = phase /\ UNCHANGED <<library, version, writer, intact, quiet>>
BeginScan(scope) ==
  /\ Looks("none")
  /\ LET total == Cardinality(library.objects)
         target == IF scope = "quick" THEN Min({total, QuickLimit}) ELSE total
     IN scan' = [NoScan EXCEPT !.phase = "objects", !.scope = scope, !.total = total,
                   !.target = target, !.partial = target # total]
(* logical_objects_after and a read of each object it names. *)
ObjectPage ==
  /\ Looks("objects") /\ scan.examined < scan.target
  /\ LET page == PageOf({<<0, o>> : o \in library.objects}, scan.cursor,
                        Min({PageSize, scan.target - scan.examined}))
     IN IF page = {}
        THEN scan' = [scan EXCEPT !.phase = "recount", !.partial = TRUE]
        ELSE scan' = [scan EXCEPT !.examined = @ + Cardinality(page), !.cursor = LastOf(page),
                        !.found = @ \/ \E e \in page : e[2] \notin library.readable]
ObjectRecount ==
  /\ \/ Looks("objects") /\ scan.examined = scan.target
     \/ Looks("recount")
  /\ LET moved == Cardinality(library.objects) # scan.total
     IN scan' = [scan EXCEPT !.phase = IF scan.scope = "full" THEN "list" ELSE "done",
                   !.found = @ \/ moved,
                   !.partial = @ \/ moved \/ scan.examined # scan.target]
ListManifests ==
  /\ Looks("list")
  /\ scan' = [scan EXCEPT !.phase = "manifests", !.counter = version, !.names = DOMAIN library.chain]
Follows(sequence) ==
  /\ sequence = 1 \/ sequence - 1 \in scan.read
  /\ library.chain[sequence].predecessor = sequence - 1
RunRecorded(run) ==
  /\ run \notin scan.represented
  /\ run \in DOMAIN library.runs /\ library.runs[run].succeeded
ReadManifest ==
  /\ Looks("manifests") /\ scan.names # scan.read
  /\ LET sequence == Min(scan.names \ scan.read)
         manifest == library.chain[sequence]
     IN scan' = [scan EXCEPT !.read = @ \cup {sequence}, !.represented = @ \cup {manifest.run},
                   !.found = \/ @ \/ ~Follows(sequence) \/ ~RunRecorded(manifest.run)
                             \/ ~ClaimsHold(manifest)]
(* The catalog must not have moved while the claims were replayed. *)
Stable(next) == [scan EXCEPT !.phase = next, !.found = @ \/ version # scan.counter,
                              !.partial = @ \/ version # scan.counter]
EndClaims == Looks("manifests") /\ scan.names = scan.read /\ scan' = Stable("media")
BeginMedia ==
  /\ Looks("media")
  /\ scan' = [scan EXCEPT !.phase = IF scan.names = {} THEN "runs" ELSE "snapshot",
                           !.counter = version]
(* Against the latest manifest of the scope: placements, then the images. *)
Latest == library.chain[Max(scan.names)]
ComparePlacements ==
  /\ Looks("snapshot")
  /\ scan' = [scan EXCEPT !.phase = "inventory", !.found = @ \/ Latest.placements # library.placements]
CompareImages ==
  /\ Looks("inventory")
  /\ scan' = [scan EXCEPT !.phase = "compared", !.found = @ \/ Latest.media # library.media]
EndMedia == Looks("compared") /\ scan' = Stable("runs")
CompareRuns ==
  /\ Looks("runs")
  /\ scan' = [scan EXCEPT !.phase = "relist",
                !.found = @ \/ \E r \in DOMAIN library.runs :
                                 library.runs[r].succeeded /\ r \notin scan.represented]
RelistManifests ==
  /\ Looks("relist")
  /\ LET moved == DOMAIN library.chain # scan.names
     IN scan' = [scan EXCEPT !.phase = "metadata", !.found = @ \/ moved, !.partial = @ \/ moved]
BeginRecords ==
  Looks("metadata") /\ scan' = [scan EXCEPT !.phase = "count", !.counter = version]
CountRecords ==
  /\ Looks("count")
  /\ scan' = [scan EXCEPT !.phase = "records", !.total = Cardinality(Records),
                           !.examined = 0, !.cursor = <<0, 0>>]
RecordPage ==
  /\ Looks("records") /\ scan.examined < scan.total
  /\ LET page == PageOf(Records, scan.cursor, Min({PageSize, scan.total - scan.examined}))
     IN IF page = {}
        THEN scan' = [scan EXCEPT !.phase = "counted", !.partial = TRUE, !.found = TRUE]
        ELSE scan' = [scan EXCEPT !.examined = @ + Cardinality(page), !.cursor = LastOf(page),
                        !.found = @ \/ \E record \in page : ~RecordSound(record)]
OnlyCountMoved == Cardinality(Records) # scan.total
CatalogMoved == OnlyCountMoved \/ version # scan.counter
RecordRecount ==
  /\ \/ Looks("records") /\ scan.examined = scan.total
     \/ Looks("counted")
  /\ scan' = [scan EXCEPT !.phase = "done", !.found = @ \/ CatalogMoved,
                !.partial = @ \/ CatalogMoved \/ scan.examined # scan.total]
ScanStep ==
  \/ \E scope \in {"quick", "full"} : BeginScan(scope)
  \/ ObjectPage \/ ObjectRecount \/ ListManifests \/ ReadManifest \/ EndClaims
  \/ BeginMedia \/ ComparePlacements \/ CompareImages \/ EndMedia \/ CompareRuns \/ RelistManifests
  \/ BeginRecords \/ CountRecords \/ RecordPage \/ RecordRecount
Verified == scan.phase = "done" /\ ~scan.found /\ ~scan.partial

-----------------------------------------------------------------------------
(* The synchronization beside it, a commit at a time.  Only the file of its
   manifest appears without one. *)
WriterMoves(step, next) ==
  /\ writer.step = step /\ writer' = next
  /\ scan.phase # "done" /\ quiet' = (scan.phase = "none") /\ UNCHANGED <<scan, intact>>
Commits(step, next) == WriterMoves(step, next) /\ version' = version + 1
To(step) == [writer EXCEPT !.step = step]
(* A row is added under the next key. *)
Fresh(keys) == Max({0} \cup keys) + 1
Added(rows, row) ==
  [k \in DOMAIN rows \cup {Fresh(DOMAIN rows)} |-> IF k \in DOMAIN rows THEN rows[k] ELSE row]
OpenRun ==
  /\ Commits("idle", To("running"))
  /\ library' = [library EXCEPT !.runs =
       Added(@, [succeeded |-> FALSE, candidate |-> Fresh(DOMAIN @)])]
(* Identifiers of objects are hashes: a new one may come before any other. *)
PutObject(object) ==
  /\ Commits("running", [writer EXCEPT !.step = "put", !.object = object])
  /\ object \notin library.objects
  /\ library' = [library EXCEPT !.objects = @ \cup {object}, !.readable = @ \cup {object}]
(* The head becomes a new revision, or one captured before. *)
CaptureNew(p) ==
  LET revision == Fresh(DOMAIN library.revisions) IN
  /\ Commits("put", [writer EXCEPT !.step = "captured", !.page = p]) /\ revision <= MaxRevision
  /\ library' = [library EXCEPT !.heads[p] = revision,
       !.revisions = Added(@, [page |-> p, object |-> writer.object, parent |-> library.heads[p]])]
CaptureKnown(p, r) ==
  /\ Commits("running", [writer EXCEPT !.step = "captured", !.page = p])
  /\ IsOf(r, p) /\ r # library.heads[p]
  /\ library' = [library EXCEPT !.heads[p] = r]
(* A page's document keeps its key. *)
IndexPage ==
  /\ Commits("captured", To("indexed"))
  /\ LET OfPage(d) == library.documents[d].page = writer.page
         documents == DOMAIN library.documents
     IN library' = [library EXCEPT
          !.documents = [d \in documents |-> IF OfPage(d) THEN [@[d] EXCEPT !.revision = library.heads[writer.page]]
                                             ELSE @[d]],
          !.fts = @ \cup {d \in documents : OfPage(d)}]
(* An image the library has is placed on the new head. *)
PlaceImage ==
  /\ Commits("indexed", To("placed")) /\ DOMAIN library.media # {}
  /\ Fresh(DOMAIN library.placements) <= MaxRevision
  /\ library' = [library EXCEPT !.placements =
       Added(@, [revision |-> library.heads[writer.page], media |-> Min(DOMAIN library.media)])]
CommitRun ==
  /\ \E step \in {"indexed", "placed"} : Commits(step, To("finished"))
  /\ LET run == Max(DOMAIN library.runs)
     IN library' = [library EXCEPT !.runs[run].succeeded = TRUE,
                      !.checkpoints[1] = [run |-> run, through |-> run]]
Claimed(chain) == {claim.revision : claim \in UNION {chain[n].claims : n \in DOMAIN chain}}
WriteManifest ==
  /\ WriterMoves("finished", To("recorded")) /\ UNCHANGED version
  /\ library' = [library EXCEPT !.chain = Added(@,
          [predecessor |-> Max({0} \cup DOMAIN @), run |-> Max(DOMAIN library.runs),
           claims |-> {[revision |-> r, page |-> library.revisions[r].page,
                        object |-> library.revisions[r].object] :
                         r \in DOMAIN library.revisions \ Claimed(library.chain)},
           heads |-> {[page |-> p, revision |-> library.heads[p]] :
                        p \in {q \in Pages : library.heads[q] # 0}},
           media |-> library.media, placements |-> library.placements])]
WriterStep ==
  \/ OpenRun \/ IndexPage \/ PlaceImage \/ CommitRun \/ WriteManifest
  \/ \E object \in 1 .. MaxRevision : PutObject(object)
  \/ \E p \in Pages : CaptureNew(p)
  \/ \E p \in Pages, r \in DOMAIN library.revisions : CaptureKnown(p, r)
(* A library that something happened to is not written to as well. *)
ScanNext == ScanStep \/ (intact /\ WriterStep)
ScanSpec == ScanInit /\ [][ScanNext]_scanVars

-----------------------------------------------------------------------------
ScanTypeOK ==
  /\ scan.examined <= scan.total /\ scan.target <= scan.total
  /\ scan.read \subseteq scan.names /\ scan.counter <= version
  /\ intact \in BOOLEAN /\ quiet \in BOOLEAN
  /\ library.objects \subseteq 1 .. MaxRevision

(* What a verification concludes is so when it ends, whatever was committed while
   it ran: all objects can be read, no record dangles, the manifests it listed
   form one chain, and what they claim is there. *)
VerifiedIsSo ==
  /\ Verified => library.objects \subseteq library.readable
  /\ Verified /\ scan.scope = "full" =>
       /\ \A record \in Records : RecordSound(record)
       /\ scan.names = 1 .. Cardinality(scan.names)
       /\ \A n \in scan.names :
            ClaimsHold(library.chain[n]) /\ library.chain[n].predecessor = n - 1
       /\ scan.names # {} =>
            /\ \A m \in DOMAIN Latest.media : library.media[m] = Latest.media[m]
            /\ \A x \in DOMAIN Latest.placements : library.placements[x] = Latest.placements[x]

(* Undisturbed, a full verification verifies a library that nothing happened to,
   and none other; and whatever a run makes of one. *)
QuietVerdict ==
  quiet /\ scan.phase = "done" /\ scan.scope = "full" =>
    /\ writer.step = "idle" => (Verified <=> intact)
    /\ writer.step = "recorded" => Verified

(* A verification neither passes what is damaged nor damns what is sound
   (verify_library_with_options), although commits fall between its statements. *)
ConclusionHolds == VerifiedIsSo /\ QuietVerdict
=============================================================================
