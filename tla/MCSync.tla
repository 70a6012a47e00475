------------------------------- MODULE MCSync -------------------------------
(* What synchronization does in steps that share no state, each part explored
   on its own: the runs of a collection, the reading of a dump, and a
   verification beside a run. *)
EXTENDS SyncRuns, DumpReader, IntegrityScan

Pages2 == {1, 2}

(* Dumps of two pages, and everything one loss, repetition or strange event
   makes of them.  A value of a field is the piece <<0>> or <<1>>, a text the
   pieces <<1, 2>>. *)
Element(kind, name, pieces) ==
  [kind |-> kind, name |-> name, pieces |-> pieces, deleted |-> FALSE, bytes |-> -1]
Start(name) == Element("start", name, <<>>)
End(name) == Element("end", name, <<>>)
Chars(pieces) == Element("text", "", pieces)
Field(name, pieces) == <<Start(name), Chars(pieces), End(name)>>
Prologue ==
  <<Start("mediawiki"), Start("siteinfo")>> \o Field("dbname", <<1>>)
  \o <<Start("namespaces"), Element("empty", "namespace", <<0>>), Element("start", "namespace", <<1>>),
       Chars(<<1>>), End("namespace"), End("namespaces"), End("siteinfo")>>
DumpedPage(ns, model, who, text) ==
  <<Start("page")>> \o Field("ns", <<ns>>) \o <<Start("revision")>> \o Field("model", <<model>>)
  \o who \o text \o <<End("revision"), End("page")>>
Named == <<Start("contributor")>> \o Field("username", <<1>>) \o <<End("contributor")>>
Anonymous == <<[Element("empty", "contributor", <<>>) EXCEPT !.deleted = TRUE]>>
Source == <<[Start("text") EXCEPT !.bytes = 2], Chars(<<1>>), Element("reference", "", <<2>>), End("text")>>
Suppressed == <<[Element("empty", "text", <<>>) EXCEPT !.deleted = TRUE]>>
Dump(pages) == Prologue \o pages \o <<End("mediawiki")>>
SoundDumps == {Dump(DumpedPage(0, 0, Named, Source) \o DumpedPage(1, 0, Anonymous, Source)),
               Dump(DumpedPage(0, 1, Anonymous, Source) \o DumpedPage(0, 0, Anonymous, Suppressed))}
Strange ==
  {Start(name) : name \in {"mediawiki", "page", "revision", "ns", "text", "username", "other"}}
  \cup {Element("empty", name, <<>>) : name \in {"page", "text", "contributor", "ns", "other"}}
  \cup {Element(kind, "", <<3>>) : kind \in {"text", "cdata"}}
  \cup {Element(kind, "", <<>>) : kind \in {"declaration", "comment", "refused"}}
  \cup {End("mediawiki"), End("page")}
Damaged(dump) ==
  LET Before(n) == SubSeq(dump, 1, n)
      After(n) == SubSeq(dump, n + 1, Len(dump))
      Positions == 1 .. Len(dump)
  IN {Before(n) : n \in 0 .. Len(dump) - 1}
     \cup {Before(n - 1) \o After(n) : n \in Positions}
     \cup {Before(n) \o <<dump[n]>> \o After(n) : n \in Positions}
     \cup {Before(n) \o <<event>> \o After(n) : n \in {0} \cup Positions, event \in Strange}
AllDumps == SoundDumps \cup UNION {Damaged(dump) : dump \in SoundDumps}
MainNamespace == {<<0>>}

(* A library after two runs, and what one loss or edit makes of it. *)
Image == [object |-> 3, valid |-> TRUE]
Shown == [revision |-> 3, media |-> 1]
ClaimOf(r, p, o) == [revision |-> r, page |-> p, object |-> o]
Entry(n, claims, heads) ==
  [predecessor |-> n - 1, run |-> n, claims |-> claims, heads |-> heads,
   media |-> <<Image>>, placements |-> <<Shown>>]
WholeLibrary ==
  [objects |-> {1, 2, 3}, readable |-> {1, 2, 3},
   revisions |-> <<[page |-> 1, object |-> 1, parent |-> 0], [page |-> 2, object |-> 2, parent |-> 0],
                   [page |-> 1, object |-> 1, parent |-> 1]>>,
   heads |-> <<3, 2>>,
   runs |-> [r \in 1 .. 2 |-> [succeeded |-> TRUE, candidate |-> r]],
   checkpoints |-> <<[run |-> 2, through |-> 2]>>,
   documents |-> <<[page |-> 1, revision |-> 3], [page |-> 2, revision |-> 2]>>, fts |-> {1, 2},
   media |-> <<Image>>, placements |-> <<Shown>>,
   chain |-> <<Entry(1, {ClaimOf(1, 1, 1), ClaimOf(2, 2, 2)}, {[page |-> 1, revision |-> 1], [page |-> 2, revision |-> 2]}),
               Entry(2, {ClaimOf(3, 1, 1)}, {[page |-> 1, revision |-> 3], [page |-> 2, revision |-> 2]})>>]
Without(f, keys) == [k \in DOMAIN f \ keys |-> f[k]]
Hurt ==
  {[WholeLibrary EXCEPT !.readable = {1, 3}], [WholeLibrary EXCEPT !.readable = {1, 2}],
   [WholeLibrary EXCEPT !.objects = {1, 3}], [WholeLibrary EXCEPT !.objects = {1, 2}],
   [WholeLibrary EXCEPT !.heads = Without(@, {2})], [WholeLibrary EXCEPT !.heads[2] = 1], [WholeLibrary EXCEPT !.heads[1] = 1],
   [WholeLibrary EXCEPT !.revisions[3].parent = 2], [WholeLibrary EXCEPT !.revisions[3].parent = 3],
   [WholeLibrary EXCEPT !.revisions[1].object = 2], [WholeLibrary EXCEPT !.revisions[1].page = 2],
   [WholeLibrary EXCEPT !.revisions = Without(@, {1})], [WholeLibrary EXCEPT !.revisions = Without(@, {2})],
   [WholeLibrary EXCEPT !.checkpoints[1].run = 9], [WholeLibrary EXCEPT !.checkpoints[1].through = 1],
   [WholeLibrary EXCEPT !.runs[2].succeeded = FALSE],
   [WholeLibrary EXCEPT !.documents[1].revision = 1], [WholeLibrary EXCEPT !.documents[1].page = 2],
   [WholeLibrary EXCEPT !.documents = Without(@, {2})], [WholeLibrary EXCEPT !.fts = {1}],
   [WholeLibrary EXCEPT !.media[1].valid = FALSE], [WholeLibrary EXCEPT !.media = <<>>],
   [WholeLibrary EXCEPT !.placements[1].revision = 9], [WholeLibrary EXCEPT !.placements = <<>>],
   [WholeLibrary EXCEPT !.placements[1].revision = 1],
   [WholeLibrary EXCEPT !.chain = Without(@, {1})], [WholeLibrary EXCEPT !.chain = Without(@, {2})],
   [WholeLibrary EXCEPT !.chain[2].predecessor = 0], [WholeLibrary EXCEPT !.chain[2].run = 1],
   [WholeLibrary EXCEPT !.chain = <<>>]}
KnownLibraries == {WholeLibrary} \cup Hurt

VARIABLE part
SyncInit ==
  /\ part \in {"runs", "dump", "scan"}
  /\ Init /\ (part = "runs" \/ (exists = Page /\ listed = Page))
  /\ (part = "dump" \/ document = <<>>) /\ ReaderInit
  /\ (part = "scan" \/ library = WholeLibrary) /\ ScanInit
SyncNext ==
  /\ UNCHANGED part
  /\ \/ part = "runs" /\ Next /\ UNCHANGED <<readerVars, scanVars>>
     \/ part = "dump" /\ ReaderNext /\ UNCHANGED <<vars, scanVars>>
     \/ part = "scan" /\ ScanNext /\ UNCHANGED <<vars, readerVars>>
SyncSpec == SyncInit /\ [][SyncNext]_<<part, vars, readerVars, scanVars>>

(* The state of each part has its type, and each of the damages is one. *)
SyncTypeOK ==
  /\ TypeOK /\ ReaderTypeOK /\ ScanTypeOK
  /\ writer.step = "idle" => (intact <=> library = WholeLibrary)
=============================================================================
