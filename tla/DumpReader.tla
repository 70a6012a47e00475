----------------------------- MODULE DumpReader -----------------------------
(* The streaming reader of a dump (dump.rs): XML events in, pages with their one
   current revision out, within limits.  A document is a sequence of events of
   unit length; a text arrives in pieces.  Of the site information only what
   pages are held against is kept, and scalar fields that are treated alike are
   the members of SiteFields, PageFields and RevisionFields. *)
EXTENDS Integers, Sequences, FiniteSets, SequencesExt

CONSTANTS
  Documents,        \* what the decoder may deliver, as sequences of events
  Sound,            \* the documents among them that a wiki publishes
  SiteFields, PageFields, RevisionFields,  \* scalar elements, each required
  Wanted, Models,                          \* what the filter lets through
  MaxDepth, MaxSiteInfo, MaxPageXml, MaxText, MaxField, MaxPages, MaxNamespaces

VARIABLES document, at, path, stage, site, record, rev, recordStart, examined, closed, yielded
readerVars == <<document, at, path, stage, site, record, rev, recordStart, examined, closed, yielded>>

Root == <<"mediawiki">>
SiteElement == Root \o <<"siteinfo">>
NamespaceElement == SiteElement \o <<"namespaces", "namespace">>
PageElement == Root \o <<"page">>
RevisionElement == PageElement \o <<"revision">>
ContributorElement == RevisionElement \o <<"contributor">>
UserElement == ContributorElement \o <<"username">>
TextElement == RevisionElement \o <<"text">>
Of(parent, names) == {Append(parent, name) : name \in names}
(* Elements in which no other may open. *)
Scalars == Of(SiteElement, SiteFields) \cup Of(PageElement, PageFields)
  \cup Of(RevisionElement, RevisionFields) \cup {NamespaceElement, UserElement, TextElement}

NoSite == [seen |-> {}, root |-> FALSE, key |-> <<>>, namespaces |-> {}, declared |-> 0,
           values |-> [f \in SiteFields |-> <<>>]]
NoPage == [open |-> FALSE, seen |-> {}, revised |-> FALSE, values |-> [f \in PageFields |-> <<>>]]
NoRevision ==
  [open |-> FALSE, seen |-> {}, sawText |-> FALSE, hidden |-> FALSE, declared |-> -1,
   source |-> <<>>, anonymous |-> FALSE, user |-> <<>>, values |-> [f \in RevisionFields |-> <<>>]]

ReaderInit ==
  /\ document \in Documents
  /\ at = 0 /\ path = <<>> /\ stage = "site" /\ site = NoSite
  /\ record = NoPage /\ rev = NoRevision /\ recordStart = 0
  /\ examined = 0 /\ closed = FALSE /\ yielded = <<>>

Event == document[at + 1]
Reads(s, kinds) == /\ stage = s /\ at < Len(document) /\ Event.kind \in kinds
                   /\ at' = at + 1 /\ UNCHANGED document
Opening == {"start", "empty"}
Texts == {"text", "cdata", "reference"}
Below == Append(path, Event.name)
(* An element opens; an empty one closes at once. *)
Push == /\ path \notin Scalars /\ Len(path) < MaxDepth
        /\ path' = IF Event.kind = "start" THEN Below ELSE path
Pop == /\ path # <<>> /\ Last(path) = Event.name
       /\ path' = Front(path)
Joined(pieces, limit) == Len(pieces \o Event.pieces) <= limit
Complete(values) == \A f \in DOMAIN values : values[f] # <<>>

(* The prologue: nothing of a page may appear before the site information is
   complete.  The event that completes it is not held to its size. *)
InPrologue == at + 1 <= MaxSiteInfo
(* A page that is open is held to its size by every event. *)
InPage == record.open => at + 1 - recordStart <= MaxPageXml
SiteKept == UNCHANGED <<record, rev, recordStart, examined, closed, yielded>>
OpenInSite ==
  /\ Reads("site", Opening) /\ InPrologue /\ Push /\ Below # PageElement
  /\ Below = Root /\ Event.kind = "start" => ~site.root
  /\ Below \in Of(SiteElement, SiteFields) => Event.name \notin site.seen
  /\ Below = NamespaceElement /\ Event.kind = "empty" => site.declared < MaxNamespaces
  /\ site' =
       CASE Below = Root /\ Event.kind = "start" -> [site EXCEPT !.root = TRUE]
         [] Below \in Of(SiteElement, SiteFields) -> [site EXCEPT !.seen = @ \cup {Event.name}]
         [] Below = NamespaceElement /\ Event.kind = "start" -> [site EXCEPT !.key = Event.pieces]
         [] Below = NamespaceElement /\ Event.kind = "empty" ->
              [site EXCEPT !.namespaces = @ \cup {Event.pieces}, !.declared = @ + 1]
         [] OTHER -> site
  /\ SiteKept /\ UNCHANGED stage
SiteChars(kind) ==
  /\ Reads("site", {kind}) /\ InPrologue
  /\ IF path \in Of(SiteElement, SiteFields)
     THEN /\ Joined(site.values[Last(path)], MaxField)
          /\ site' = [site EXCEPT !.values[Last(path)] = @ \o Event.pieces]
     ELSE UNCHANGED site
  /\ SiteKept /\ UNCHANGED <<path, stage>>
TextInSite == SiteChars("text")
(* Outside a field a reference is refused, where a text is let pass. *)
ReferenceInSite ==
  SiteChars("reference") /\ path \in Of(SiteElement, SiteFields) \cup {NamespaceElement}
CloseInSite ==
  /\ Reads("site", {"end"}) /\ InPrologue /\ Pop /\ path # SiteElement
  /\ IF path = NamespaceElement
     THEN /\ site.declared < MaxNamespaces
          /\ site' = [site EXCEPT !.namespaces = @ \cup {site.key}, !.declared = @ + 1]
     ELSE UNCHANGED site
  /\ SiteKept /\ UNCHANGED stage
CloseSite ==
  /\ Reads("site", {"end"}) /\ Pop /\ path = SiteElement /\ site.root
  /\ Complete(site.values)
  /\ site.namespaces # {}
  /\ stage' = "pages"
  /\ SiteKept /\ UNCHANGED site
Ignore ==
  /\ \/ Reads("site", {"comment", "declaration"}) /\ InPrologue
     \/ Reads("pages", {"comment"}) /\ InPage
  /\ SiteKept /\ UNCHANGED <<path, stage, site>>

(* The records. *)
Opens(element) ==
  /\ Reads("pages", Opening) /\ InPage /\ Below = element
  /\ ~(path = ContributorElement /\ rev.anonymous) /\ Push
  /\ UNCHANGED <<stage, site, examined, closed, yielded>>
OpenPage ==
  /\ Opens(PageElement) /\ Event.kind = "start" /\ ~record.open
  /\ record' = [NoPage EXCEPT !.open = TRUE] /\ recordStart' = at
  /\ UNCHANGED rev
OpenRevision ==
  /\ Opens(RevisionElement) /\ Event.kind = "start"
  /\ record.open /\ ~rev.open /\ ~record.revised
  /\ rev' = [NoRevision EXCEPT !.open = TRUE]
  /\ UNCHANGED <<record, recordStart>>
OpenPageField ==
  \E f \in PageFields :
    /\ Opens(Append(PageElement, f)) /\ f \notin record.seen
    /\ record' = [record EXCEPT !.seen = @ \cup {f}]
    /\ UNCHANGED <<rev, recordStart>>
OpenRevisionField ==
  \E element \in Of(RevisionElement, RevisionFields) \cup {UserElement} :
    /\ Opens(element) /\ Last(element) \notin rev.seen
    /\ rev' = [rev EXCEPT !.seen = @ \cup {Last(element)}]
    /\ UNCHANGED <<record, recordStart>>
OpenContributor ==
  /\ Opens(ContributorElement) /\ "contributor" \notin rev.seen
  /\ Event.kind = "empty" => Event.deleted
  /\ rev' = [rev EXCEPT !.seen = @ \cup {"contributor"}, !.anonymous = Event.deleted]
  /\ UNCHANGED <<record, recordStart>>
OpenText ==
  /\ Opens(TextElement) /\ Event.bytes <= MaxText /\ ~rev.sawText
  /\ rev' = [rev EXCEPT !.sawText = TRUE, !.hidden = Event.deleted, !.declared = Event.bytes]
  /\ UNCHANGED <<record, recordStart>>
OpenOther ==
  /\ Opens(Below)
  /\ Below \notin Of(PageElement, PageFields) \cup Of(RevisionElement, RevisionFields)
                  \cup {ContributorElement, TextElement, UserElement}
  /\ Below \in {PageElement, RevisionElement} => Event.kind = "empty"
  /\ UNCHANGED <<record, rev, recordStart>>

TextKept == UNCHANGED <<path, stage, site, recordStart, examined, closed, yielded>>
PageText ==
  /\ Reads("pages", Texts) /\ InPage /\ path \in Of(PageElement, PageFields)
  /\ Joined(record.values[Last(path)], MaxField)
  /\ record' = [record EXCEPT !.values[Last(path)] = @ \o Event.pieces]
  /\ TextKept /\ UNCHANGED rev
RevisionText ==
  /\ Reads("pages", Texts) /\ InPage /\ path \in Of(RevisionElement, RevisionFields)
  /\ Joined(rev.values[Last(path)], MaxField)
  /\ rev' = [rev EXCEPT !.values[Last(path)] = @ \o Event.pieces]
  /\ TextKept /\ UNCHANGED record
UserText ==
  /\ Reads("pages", Texts) /\ InPage /\ path = UserElement /\ ~rev.anonymous
  /\ Joined(rev.user, MaxField)
  /\ rev' = [rev EXCEPT !.user = @ \o Event.pieces]
  /\ TextKept /\ UNCHANGED record
SourceText ==
  /\ Reads("pages", Texts) /\ InPage /\ path = TextElement
  /\ rev.hidden => Event.pieces = <<>>
  /\ Joined(rev.source, MaxText)
  /\ rev' = [rev EXCEPT !.source = @ \o Event.pieces]
  /\ TextKept /\ UNCHANGED record
OtherText ==
  /\ Reads("pages", Texts) /\ InPage
  /\ path \notin Of(PageElement, PageFields) \cup Of(RevisionElement, RevisionFields)
                 \cup {UserElement, TextElement}
  /\ TextKept /\ UNCHANGED <<record, rev>>

CloseRevision ==
  /\ Reads("pages", {"end"}) /\ InPage /\ Pop /\ path = RevisionElement
  /\ Complete(rev.values)
  /\ rev.sawText
  /\ rev.declared # -1 /\ ~rev.hidden => rev.declared = Len(rev.source)
  /\ rev' = [rev EXCEPT !.open = FALSE]
  /\ record' = [record EXCEPT !.revised = TRUE]
  /\ UNCHANGED <<stage, site, recordStart, examined, closed, yielded>>
Accepted(p) == p.page["ns"] \in Wanted /\ p.revision["model"] \in Models
Finished == [page |-> record.values, revision |-> rev.values, user |-> rev.user,
             hidden |-> rev.hidden, source |-> rev.source]
ClosePage ==
  /\ Reads("pages", {"end"}) /\ InPage /\ Pop /\ path = PageElement
  /\ examined < MaxPages /\ record.revised
  /\ Complete(record.values)
  /\ record.values["ns"] \in site.namespaces
  /\ examined' = examined + 1
  /\ yielded' = IF Accepted(Finished) THEN Append(yielded, Finished) ELSE yielded
  /\ record' = NoPage /\ rev' = NoRevision
  /\ UNCHANGED <<stage, site, recordStart, closed>>
CloseOther ==
  /\ Reads("pages", {"end"}) /\ InPage /\ Pop /\ path \notin {RevisionElement, PageElement}
  /\ closed' = (closed \/ path = Root)
  /\ UNCHANGED <<stage, site, record, rev, recordStart, examined, yielded>>

FinishBetweenPages ==
  /\ stage = "pages" /\ at = Len(document) /\ ~record.open
  /\ stage' = "ended"
  /\ UNCHANGED <<document, at, path, site, record, rev, recordStart, examined, closed, yielded>>
Finish ==
  /\ stage = "pages" /\ at = Len(document)
  /\ ~record.open /\ closed /\ path = <<>>
  /\ stage' = "ended"
  /\ UNCHANGED <<document, at, path, site, record, rev, recordStart, examined, closed, yielded>>

Step ==
  \/ OpenInSite \/ TextInSite \/ ReferenceInSite \/ CloseInSite \/ CloseSite \/ Ignore
  \/ OpenPage \/ OpenRevision \/ OpenPageField \/ OpenRevisionField
  \/ OpenContributor \/ OpenText \/ OpenOther
  \/ PageText \/ RevisionText \/ UserText \/ SourceText \/ OtherText
  \/ CloseRevision \/ ClosePage \/ CloseOther \/ Finish
(* Whatever no step takes is an error, after which the reader yields nothing. *)
Refuse ==
  /\ stage \in {"site", "pages"} /\ ~ENABLED Step
  /\ stage' = "failed"
  /\ UNCHANGED <<document, at, path, site, record, rev, recordStart, examined, closed, yielded>>
ReaderNext == Step \/ Refuse
ReaderSpec == ReaderInit /\ [][ReaderNext]_readerVars

-----------------------------------------------------------------------------
ReaderTypeOK ==
  /\ at \in 0 .. Len(document) /\ stage \in {"site", "pages", "ended", "failed"}
  /\ examined \in 0 .. MaxPages /\ Len(yielded) <= examined /\ closed \in BOOLEAN
  /\ Len(path) <= MaxDepth /\ rev.open => record.open

(* What a document says, read off it as a whole: the elements open after each
   of its first n events, the first entry being those before any. *)
OpenAfter(n) ==
  FoldLeft(LAMBDA open, event :
             Append(open, CASE event.kind = "start" -> Append(Last(open), event.name)
                            [] event.kind = "end" /\ Last(open) # <<>> -> Front(Last(open))
                            [] OTHER -> Last(open)),
           <<<<>>>>, SubSeq(document, 1, n))
Told(i, j, open) ==
  LET Content(element) ==
        FlattenSeq([k \in 1 .. j - i |->
          IF document[i + k].kind \in Texts /\ open[i + k + 1] = element
          THEN document[i + k].pieces ELSE <<>>])
  IN [page |-> [f \in PageFields |-> Content(Append(PageElement, f))],
      revision |-> [f \in RevisionFields |-> Content(Append(RevisionElement, f))],
      user |-> Content(UserElement), source |-> Content(TextElement),
      hidden |-> \E k \in i .. j :
        /\ document[k].kind \in Opening /\ document[k].deleted
        /\ Append(open[k], document[k].name) = TextElement]
(* The pages begun and closed among the first n events, in their order. *)
PagesTold(n) ==
  LET open == OpenAfter(n)
      Begins == {i \in 1 .. n : document[i].kind = "start" /\ open[i + 1] = PageElement}
      Ends == {j \in 1 .. n : document[j].kind = "end" /\ open[j] = PageElement}
      begins == SetToSortSeq(Begins, <)
      ends == SetToSortSeq(Ends, <)
  IN [k \in 1 .. Len(ends) |-> Told(begins[k], ends[k], open)]

(* A reading yields what the dump says and no more: the pages the filter lets
   through, whole, in order and with the fields, the text and the suppression
   found inside them, even where the dump is broken further on; it ends without
   an error only where the document is complete; and it refuses no document
   that a wiki publishes. *)
YieldsWhatTheDumpSays ==
  stage \in {"ended", "failed"} =>
    /\ yielded = SelectSeq(PagesTold(at), Accepted)
    /\ examined = Len(PagesTold(at))
    /\ stage = "ended" => at = Len(document) /\ Last(OpenAfter(at)) = <<>>
    /\ document \in Sound => stage = "ended"
=============================================================================
