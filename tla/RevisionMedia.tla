--------------------------- MODULE RevisionMedia ---------------------------
(* Capture of the images that a revision shows (capture_revision_media in
   wikisync-sync, capture_revision_thumbnail in wikisync-store): after the text
   is durable the images are discovered, and of each that has no placement yet
   the metadata are resolved, the thumbnail downloaded, validated and charged to
   the budget of the collection, its object put, and its row and placement
   committed.  These are requests and transactions of their own, while the wiki
   moves on.

   A revision has a page of its own, and may belong to several collections.
   One process captures: the writer's lease excludes others. *)
EXTENDS Thumbnails, FiniteSets

CONSTANTS
  Album,          \* the collections, numbers
  Contents,       \* the revisions of each album: a sequence of sets
  FirstShown,     \* the images that each revision shows at first: a sequence of sequences
  Passive,        \* the pictures whose title ends as one of a JPEG or PNG
  FilesOf,        \* the thumbnails of a picture, a file for each of its uploads
  ByteLimit,      \* maximum_bytes of each collection: every text and image counts one
  LargestEdge,    \* maximum_edge_pixels
  MaxWikiEdits,   \* bound: changes of the wiki
  MaxPolicyEdits, \* bound: changes of a policy
  MaxCaptures,    \* bound: captures of a revision
  MaxMediaStops   \* bound: kills

Illustration == UNION {{FirstShown[r][i] : i \in DOMAIN FirstShown[r]} : r \in DOMAIN FirstShown}
ShowingRevision == DOMAIN FirstShown

ASSUME MediaBounds ==
  /\ {LargestEdge, MaxWikiEdits, MaxPolicyEdits, MaxCaptures, MaxMediaStops} \subseteq Nat
  /\ Contents \in [Album -> SUBSET ShowingRevision] /\ ByteLimit \in [Album -> Nat]
  /\ Passive \subseteq Illustration /\ \A p \in Passive : FilesOf[p] # <<>>

VARIABLES
  shown,      \* [revision -> images that the wiki says it shows]: templates change
  uploaded,   \* [picture -> which of its uploads is current]
  described,  \* [picture -> version of author and licence]
  maxImages,  \* [album -> maximum_images_per_revision; 0: no images]
  texts,      \* the revisions whose text is captured
  mediaRows,  \* the table media
  pageMedia,  \* the table page_media
  objects,    \* the media objects of the store
  capture,    \* what the capturing process is doing
  redrawn,    \* the revisions that came to show something else
  wikiEdits, policyEdits, captures, mediaStops

mediaVars == <<shown, uploaded, described, maxImages, texts, mediaRows, pageMedia, objects,
               capture, redrawn, wikiEdits, policyEdits, captures, mediaStops>>
wiki == <<shown, uploaded, described, redrawn, wikiEdits>>
library == <<texts, mediaRows, pageMedia, objects>>

AtRest == [pc |-> "rest"]
FirstOf(seq, n) == SubSeq(seq, 1, IF n < Len(seq) THEN n ELSE Len(seq))

MediaInit ==
  /\ shown = FirstShown /\ redrawn = {}
  /\ uploaded = [p \in Passive |-> 1] /\ described = [p \in Passive |-> 1]
  /\ maxImages \in [Album -> {0, 2}]
  /\ texts = {} /\ mediaRows = {} /\ pageMedia = {} /\ objects = {}
  /\ capture = AtRest
  /\ wikiEdits = 0 /\ policyEdits = 0 /\ captures = 0 /\ mediaStops = 0

(*********************************** The wiki **********************************)
EditWiki == wikiEdits < MaxWikiEdits /\ wikiEdits' = wikiEdits + 1
RestOfProgram == <<maxImages, library, capture, policyEdits, captures, mediaStops>>

(* A template changes the order in which a revision's images are listed. *)
Redraw(r) ==
  /\ EditWiki /\ Len(shown[r]) > 1
  /\ shown' = [shown EXCEPT ![r] = Reverse(@)]
  /\ redrawn' = redrawn \cup {r}
  /\ UNCHANGED <<uploaded, described, RestOfProgram>>
Reupload(p) ==
  /\ EditWiki /\ uploaded[p] < Len(FilesOf[p])
  /\ uploaded' = [uploaded EXCEPT ![p] = @ + 1]
  /\ UNCHANGED <<shown, redrawn, described, RestOfProgram>>
Redescribe(p) ==
  /\ EditWiki
  /\ described' = [described EXCEPT ![p] = @ + 1]
  /\ UNCHANGED <<shown, redrawn, uploaded, RestOfProgram>>

(********************************** The library ********************************)
(* collection_estimate: distinct objects of every revision of the members. *)
Usage(c) ==
  Cardinality(texts \cap Contents[c])
  + Cardinality({row.bytes : row \in {m \in pageMedia : m.revision \in Contents[c]}})
Fits(c, more) == Usage(c) + more <= ByteLimit[c]

RowOf(picture, sha, bytes) == {m \in mediaRows : m.picture = picture /\ m.sha = sha /\ m.bytes = bytes}
PlacementOf(r, index) == {m \in pageMedia : m.revision = r /\ m.index = index}
Placed(r) == {m.index : m \in {n \in pageMedia : n.revision = r}}

SetPolicy(c, n) ==
  /\ policyEdits < MaxPolicyEdits /\ policyEdits' = policyEdits + 1
  /\ maxImages' = [maxImages EXCEPT ![c] = n]
  /\ UNCHANGED <<wiki, library, capture, captures, mediaStops>>

(*********************************** The capture *******************************)
(* The text, new or known, and then the images unless they are not wanted; what
   has a placement already is read before the wiki is asked. *)
CaptureText(c, r) ==
  /\ capture.pc = "rest" /\ r \in Contents[c]
  /\ captures < MaxCaptures /\ captures' = captures + 1
  /\ r \in texts \/ Fits(c, 1)
  /\ texts' = texts \cup {r}
  /\ capture' = IF maxImages[c] = 0 THEN AtRest
       ELSE [pc |-> "discover", album |-> c, revision |-> r, policy |-> maxImages[c],
             existing |-> Placed(r)]
  /\ UNCHANGED <<wiki, maxImages, mediaRows, pageMedia, objects, policyEdits, mediaStops>>

Step(next) ==
  /\ capture' = next
  /\ UNCHANGED <<wiki, maxImages, policyEdits, captures, mediaStops>>
Waiting(me, todo) ==
  IF todo = <<>> THEN AtRest
  ELSE [pc |-> "resolve", album |-> me.album, revision |-> me.revision, todo |-> todo]

(* Pictures of the two kinds, at most as many as the policy allows, each at its
   position among them; those that have a placement are not looked at again. *)
Positions(r, limit) == FirstOf(SelectSeq(shown[r], LAMBDA p : p \in Passive), limit)
Discover ==
  LET me == capture
      pictures == Positions(me.revision, me.policy)
      all == [i \in DOMAIN pictures |-> [index |-> i - 1, picture |-> pictures[i]]]
  IN /\ me.pc = "discover"
     /\ Step(Waiting(me, SelectSeq(all, LAMBDA it : it.index \notin me.existing)))
     /\ UNCHANGED library

(* The listing fails: no image of this revision is looked at. *)
DiscoveryFails == capture.pc = "discover" /\ Step(AtRest) /\ UNCHANGED library

(* The metadata that the wiki has now; a picture too large is not eligible. *)
Resolve ==
  LET p == Head(capture.todo).picture
      file == FilesOf[p][uploaded[p]]
  IN /\ capture.pc = "resolve"
     /\ Step(IF WithinEdge(file, LargestEdge)
             THEN [capture EXCEPT !.pc = "download"] @@
                  [sha |-> uploaded[p], info |-> described[p], kind |-> file.kind, edge |-> file.edge]
             ELSE Waiting(capture, Tail(capture.todo)))
     /\ UNCHANGED library

(* The thumbnail that its address gives now. *)
Download ==
  LET p == Head(capture.todo).picture
  IN /\ capture.pc = "download"
     /\ Step([capture EXCEPT !.pc = "store"] @@ [bytes |-> <<p, uploaded[p]>>])
     /\ UNCHANGED library

(* No metadata, no bytes: the next image. *)
RequestFails ==
  /\ capture.pc \in {"resolve", "download"}
  /\ Step(Waiting(capture, Tail(capture.todo)))
  /\ UNCHANGED library

FileOf(bytes) == FilesOf[bytes[1]][bytes[2]]
Charged(bytes) == IF bytes \in objects THEN 0 ELSE 1

(* Mutant: the bytes are taken for what their metadata say. *)
AdmissibleUnread(me) ==
  /\ Fits(me.album, Charged(me.bytes))
  /\ me.edge <= LargestEdge
(* What may be stored: within the budget, where an object that the library has
   costs nothing, and one whole image of the kind and size that was promised. *)
Admissible(me) ==
  /\ Fits(me.album, Charged(me.bytes))
  /\ ValidThumbnail(FileOf(me.bytes), me.kind, LargestEdge) /\ FileOf(me.bytes).edge = me.edge

RowFor(me) == [picture |-> me.todo[1].picture, sha |-> me.sha, bytes |-> me.bytes, info |-> me.info]
PlacementFor(me) ==
  [revision |-> me.revision, index |-> me.todo[1].index,
   picture |-> me.todo[1].picture, sha |-> me.sha, bytes |-> me.bytes]
Agrees(me) ==
  /\ RowOf(me.todo[1].picture, me.sha, me.bytes) \subseteq {RowFor(me)}
  /\ PlacementOf(me.revision, me.todo[1].index) \subseteq {PlacementFor(me)}

(* The object is put, durably, ahead of the rows that name it. *)
PutThumbnail ==
  LET me == capture
  IN /\ me.pc = "store"
     /\ IF Admissible(me) /\ Agrees(me)
        THEN objects' = objects \cup {me.bytes} /\ Step([me EXCEPT !.pc = "commit"] @@ [charged |-> Charged(me.bytes)])
        ELSE UNCHANGED objects /\ Step(Waiting(me, Tail(me.todo)))
     /\ UNCHANGED <<texts, mediaRows, pageMedia>>

(* One transaction: the row unless it is there, and the placement. *)
CommitPlacement ==
  LET me == capture
  IN /\ me.pc = "commit"
     /\ me.revision \in texts
     /\ mediaRows' = mediaRows \cup {RowFor(me)}
     /\ pageMedia' = pageMedia \cup {PlacementFor(me)}
     /\ Step(Waiting(me, Tail(me.todo)))
     /\ UNCHANGED <<texts, objects>>

(* The process is killed, or an error of the library ends the run. *)
StopCapture ==
  /\ capture.pc # "rest"
  /\ mediaStops < MaxMediaStops /\ mediaStops' = mediaStops + 1
  /\ capture' = AtRest
  /\ UNCHANGED <<wiki, library, maxImages, policyEdits, captures>>

MediaNext ==
  \/ \E r \in ShowingRevision : Redraw(r)
  \/ \E p \in Passive : Reupload(p) \/ Redescribe(p)
  \/ \E c \in Album : SetPolicy(c, 0) \/ SetPolicy(c, 1) \/ SetPolicy(c, 2)
  \/ \E c \in Album, r \in ShowingRevision : CaptureText(c, r)
  \/ Discover \/ DiscoveryFails \/ Resolve \/ Download \/ RequestFails
  \/ PutThumbnail \/ CommitPlacement \/ StopCapture

(********************************** Properties *********************************)
MediaTypeOK ==
  /\ \A r \in ShowingRevision : ToSet(shown[r]) = ToSet(FirstShown[r])
  /\ texts \subseteq ShowingRevision /\ redrawn \subseteq ShowingRevision
  /\ \A m \in mediaRows \cup pageMedia : m.picture \in Passive
  /\ \A bytes \in objects : bytes[2] \in DOMAIN FilesOf[bytes[1]]
  /\ capture.pc \in {"rest", "discover", "resolve", "download", "store", "commit"}

(* What a placement shows: an image of the library, whole and still, that its
   one row describes, never older than the description, at the position where
   the revision showed the picture, unless it has come to show another. *)
Told(m) ==
  /\ m.revision \in texts /\ m.bytes \in objects
  /\ \E row \in RowOf(m.picture, m.sha, m.bytes) : RowOf(m.picture, m.sha, m.bytes) = {row}
  /\ PlacementOf(m.revision, m.index) = {m}
  /\ OneStillImage(FileOf(m.bytes).kind, FileOf(m.bytes).parts) /\ WithinEdge(FileOf(m.bytes), LargestEdge)
  /\ m.bytes[1] = m.picture /\ m.bytes[2] >= m.sha
  /\ m.revision \notin redrawn =>
       SelectSeq(FirstShown[m.revision], LAMBDA p : p \in Passive)[m.index + 1] = m.picture

EveryPlacementTold == \A m \in pageMedia : Told(m)

(* An image that the library has costs nothing, whoever placed it, and even if
   nobody did: it may take a collection past its limit, by one image. *)
Overdraft ==
  \A c \in Album :
    (pageMedia' # pageMedia /\ capture.album = c) => Usage(c)' <= ByteLimit[c] + (1 - capture.charged)

(* Every placement tells truly what its revision showed, whatever fails, is
   killed or changes in between; none is changed or lost again; and a budget
   is overdrawn by no more than one image, one that was in the library. *)
MediaTellsWhatWasShown ==
  [][ /\ EveryPlacementTold'
      /\ mediaRows \subseteq mediaRows' /\ pageMedia \subseteq pageMedia'
      /\ Overdraft ]_mediaVars
=============================================================================
