------------------------------ MODULE MCStore ------------------------------
(* The object store under a purge, and beside it the capture of images and the
   exports, each explored on its own: what a capture asks of the store is that
   an object it put is there, which CapturedReadable says of any object, and an
   export gives up when an object it wants has been purged. *)
EXTENDS MCPurgeStore, RevisionMedia, Export

(* Two revisions, of which the second is in both collections and shows a
   picture that the first shows too, among a video. *)
TwoAlbums == <<{1, 2}, {2}>>
TwoRevisions == <<<<"a", "v", "b">>, <<"b">>>>
TwoLimits == <<4, 2>>

(* A photograph that is cut short when it is uploaded again; a drawing whose
   second upload is as large as the first, and whose third is not. *)
Photograph == [kind |-> "jpeg", parts |-> <<"frame", "scan", "coded", "end">>, edge |-> 1, decodes |-> TRUE]
CutShort == [Photograph EXCEPT !.parts = <<"frame", "scan", "coded">>, !.decodes = FALSE]
Drawing(edge) == [kind |-> "png", parts |-> <<"header", "data", "end">>, edge |-> edge, decodes |-> TRUE]
Uploads ==
  [p \in {"a", "b"} |-> IF p = "a" THEN <<Photograph, CutShort>> ELSE <<Drawing(1), Drawing(1), Drawing(2)>>]

(* A page that two wikis number and name alike, with revisions on both sides of
   a 29 February that was and of one that was not; a time of which the offset
   leaves the day, and the first one of the calendar. *)
TwinPages == <<[wiki |-> 1, id |-> "12", slug |-> <<"a">>], [wiki |-> 2, id |-> "12", slug |-> <<"a">>]>>
LeapRevisions ==
  {[page |-> 1, id |-> 5, time |-> <<1900, 2, 28, 23>>], [page |-> 1, id |-> 6, time |-> <<1900, 3, 1, 0>>],
   [page |-> 2, id |-> 5, time |-> <<2024, 2, 29, 23>>], [page |-> 2, id |-> 7, time |-> <<2024, 3, 1, 0>>]}
HeldFirst == {r \in LeapRevisions : r.id # 6}
AsOf(time, offset) == [kind |-> "time", time |-> time, offset |-> offset]
Asked ==
  {[kind |-> "current"], [kind |-> "revision", id |-> 7], [kind |-> "revision", id |-> 5],
   AsOf(<<1900, 3, 1, 0>>, 1), AsOf(<<2024, 2, 29, 23>>, -1), AsOf(<<1, 1, 1, 0>>, 1)}

VARIABLE part
MCStoreInit ==
  /\ part \in {"objects", "media", "exports"} /\ PurgeInit /\ MediaInit /\ ExportInit
  /\ part # "media" => maxImages = [c \in Album |-> 0]
MCStoreNext ==
  /\ UNCHANGED part
  /\ \/ part = "objects" /\ PurgeNext /\ UNCHANGED <<mediaVars, exportVars>>
     \/ part = "media" /\ MediaNext /\ UNCHANGED <<allVars, exportVars>>
     \/ part = "exports" /\ ExportNext /\ UNCHANGED <<allVars, mediaVars>>
     \/ part # "objects" /\ UNCHANGED <<allVars, mediaVars, exportVars>>  \* bounds end these two
MCStoreSpec == MCStoreInit /\ [][MCStoreNext]_<<part, allVars, mediaVars, exportVars>>

(* The state of each part has its type. *)
StoreTypeOK == PurgeTypeOK /\ MediaTypeOK /\ ExportTypeOK
=============================================================================
