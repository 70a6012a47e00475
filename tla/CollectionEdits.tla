-------------------------- MODULE CollectionEdits --------------------------
(* The edit of one collection by the command line and the desktop application:
   both load its configuration without the writer's lease, preview the
   replacement against the wiki, and commit it through administration, beside
   the synchronization that resolves a category again, other settings, the
   removal of the collection, and readers that see the database file without
   its write-ahead log (store lib.rs 2557-4155 and 11746-12040, daemon and
   command-line collection.rs, gui main.rs 543-860). *)
EXTENDS Naturals, FiniteSets, TLC

CONSTANTS
  Selectable,      \* pages of the wiki
  Answers,    \* sets of pages a rule may resolve to, now or later
  Editors,    \* "cli" or "gui": at most one open edit each
  MaxGeneration   \* bound: commits on the collection

ASSUME EditsAssumption ==
  /\ IsFiniteSet(Selectable) /\ Selectable # {} /\ Answers \subseteq SUBSET Selectable /\ Editors \subseteq {"cli", "gui"}
  /\ MaxGeneration \in Nat \ {0}

VARIABLES
  collection,  \* the committed collection
  onDisk,      \* what the database file holds without the write-ahead log
  editor,      \* editor -> its open edit
  resolving    \* what the synchronization that holds the lease resolved, or Nothing
editsVars == <<collection, onDisk, editor, resolving>>

Rules == {"titles", "category"}
Limits == 1..Cardinality(Selectable)
Collections ==
  [generation : 1..MaxGeneration, active : BOOLEAN, rule : Rules,
   limit : Limits, keep : BOOLEAN, members : SUBSET Selectable]
Nothing == [found |-> FALSE, pages |-> {}]
Found(pages) == [found |-> TRUE, pages |-> pages]

EditsInit ==
  /\ \E limit \in Limits, keep \in BOOLEAN, rule \in Rules, pages \in Answers :
       collection = [generation |-> 1, active |-> TRUE, rule |-> rule,
                     limit |-> limit, keep |-> keep, members |-> pages]
  /\ Cardinality(collection.members) <= collection.limit
  /\ onDisk = collection
  /\ editor = [e \in Editors |-> [at |-> "idle"]]
  /\ resolving = Nothing

-----------------------------------------------------------------------------
(* What one transaction makes of the collection. *)

\* Mutant: the membership is committed without a generation of its own.
AdvancedNot(c) == c

\* Every commit on an active collection has a generation of its own.
Advanced(c) == [c EXCEPT !.generation = @ + 1]

Resolved(keep, members, pages) == IF keep THEN members \cup pages ELSE pages

\* commit_preview_transaction over the collection an edit names.
Replaced(e) ==
  [collection EXCEPT !.rule = e.rule, !.limit = e.limit, !.keep = e.keep,
                     !.members = Resolved(e.keep, @, e.preview.pages)]

\* The preview is small enough by itself: checked before anything is sent or written.
Fits(e) == Cardinality(e.preview.pages) <= e.limit
WithinLimit(c) == Cardinality(c.members) <= c.limit

\* update_collection_from_preview: the generation the edit has seen, and all
\* members within the limit once those the policy keeps are counted.
Accepts(e) ==
  /\ collection.active
  /\ collection.generation = e.names
  /\ Fits(e) /\ WithinLimit(Replaced(e))

-----------------------------------------------------------------------------
(* Editors: an edit was loaded from one generation and names one when it is
   saved; overtaken remembers, for the properties alone, that somebody else
   committed since the latter was read. *)

\* A form loaded from c of which the user changes at most one field.
Forms(c) ==
  LET form == [at |-> "loaded", rule |-> c.rule, limit |-> c.limit, keep |-> c.keep,
               changed |-> FALSE,
               loaded |-> c.generation, names |-> c.generation, overtaken |-> c # collection, preview |-> Nothing]
  IN {[form EXCEPT !.rule = "category", !.changed = c.rule # "category"], [form EXCEPT !.limit = Cardinality(Selectable)],
      [form EXCEPT !.keep = ~c.keep]}

Load(e) ==
  /\ editor[e].at = "idle" /\ onDisk.active
  /\ \E form \in Forms(onDisk) : editor' = [editor EXCEPT ![e] = form]
  /\ UNCHANGED <<collection, onDisk, resolving>>

\* The command keeps the generation it loaded; without a new rule it takes the
\* stored members.
PreviewByCommand ==
  /\ "cli" \in Editors /\ editor["cli"].at = "loaded"
  /\ LET e == editor["cli"]
     IN \E pages \in IF e.changed THEN Answers ELSE {onDisk.members} :
          editor' = [editor EXCEPT !["cli"] = [e EXCEPT !.at = "previewed", !.preview = Found(pages)]]
  /\ UNCHANGED <<collection, onDisk, resolving>>

\* The application takes the generation anew whenever it previews.
AskForPreview ==
  /\ "gui" \in Editors /\ editor["gui"].at \in {"loaded", "previewed"}
  /\ editor' = [editor EXCEPT !["gui"].at = "asking", !["gui"].names = onDisk.generation,
                              !["gui"].overtaken = onDisk # collection]
  /\ UNCHANGED <<collection, onDisk, resolving>>

PreviewInGui ==
  /\ "gui" \in Editors /\ editor["gui"].at = "asking"
  /\ \E pages \in Answers :
       editor' = [editor EXCEPT !["gui"].at = "previewed", !["gui"].preview = Found(pages)]
  /\ UNCHANGED <<collection, onDisk, resolving>>

\* The edits that are open while somebody commits.
Overtaken == [e \in Editors |-> IF editor[e].at = "idle" THEN editor[e] ELSE [editor[e] EXCEPT !.overtaken = TRUE]]

\* The lease, or the daemon's one thread, lets no resolution be under way.
Free == resolving = Nothing

Save(e) ==
  /\ editor[e].at = "previewed" /\ Free
  /\ Accepts(editor[e]) /\ collection.generation < MaxGeneration
  /\ collection' = Advanced(Replaced(editor[e]))
  /\ editor' = [Overtaken EXCEPT ![e] = [at |-> "idle"]]
  /\ UNCHANGED <<onDisk, resolving>>

\* A refused edit changes nothing: the command ends, the application keeps its form.
Refused(e) ==
  /\ editor[e].at = "previewed" /\ Free /\ ~Accepts(editor[e])
  /\ editor' = [editor EXCEPT ![e] = IF e = "gui" THEN @ ELSE [at |-> "idle"]]
  /\ UNCHANGED <<collection, onDisk, resolving>>

Discard(e) ==
  /\ editor[e].at \in {"loaded", "previewed"}
  /\ editor' = [editor EXCEPT ![e] = [at |-> "idle"]]
  /\ UNCHANGED <<collection, onDisk, resolving>>

-----------------------------------------------------------------------------
(* Everybody else. *)

Commit(c) ==
  /\ collection.generation < MaxGeneration
  /\ collection' = Advanced(c) /\ editor' = Overtaken

\* reconcile_dynamic_collection_membership resolves a category over the network ...
ResolveCategory ==
  /\ Free /\ collection.active /\ collection.rule = "category"
  /\ \E pages \in Answers : resolving' = Found(pages)
  /\ UNCHANGED <<collection, onDisk, editor>>

\* ... and commits what it found, or nothing at all. The lease may have been
\* given up in between only with the resolution itself.
CommitResolved ==
  /\ resolving.found
  /\ LET c == [collection EXCEPT !.members = Resolved(collection.keep, @, resolving.pages)]
     IN IF Cardinality(resolving.pages) <= collection.limit /\ WithinLimit(c)
          THEN Commit(c)
          ELSE UNCHANGED <<collection, editor>>
  /\ resolving' = Nothing /\ UNCHANGED onDisk

StopResolving == resolving.found /\ resolving' = Nothing /\ UNCHANGED <<collection, onDisk, editor>>

\* Names, image policies and missing titles: what no member depends on.
ChangeSetting ==
  /\ Free /\ collection.active /\ Commit(collection)
  /\ UNCHANGED <<onDisk, resolving>>

RemoveCollection ==
  /\ Free /\ collection.active /\ Commit([collection EXCEPT !.active = FALSE, !.members = {}])
  /\ UNCHANGED <<onDisk, resolving>>

\* A checkpoint of the write-ahead log.
Checkpoint ==
  /\ onDisk # collection /\ onDisk' = collection
  /\ UNCHANGED <<collection, editor, resolving>>

EditsNext ==
  \/ \E e \in Editors : Load(e) \/ Save(e) \/ Refused(e) \/ Discard(e)
  \/ PreviewByCommand \/ AskForPreview \/ PreviewInGui
  \/ ResolveCategory \/ CommitResolved \/ StopResolving \/ ChangeSetting \/ RemoveCollection
  \/ Checkpoint
EditsSpec == EditsInit /\ [][EditsNext]_editsVars

-----------------------------------------------------------------------------
EditsTypeOK ==
  /\ collection \in Collections /\ onDisk \in Collections
  /\ resolving \in [found : BOOLEAN, pages : SUBSET Selectable]
  /\ \A e \in Editors :
       \/ editor[e] = [at |-> "idle"]
       \/ editor[e] \in
            [at : {"loaded", "asking", "previewed"}, rule : Rules, limit : Limits, keep : BOOLEAN, changed : BOOLEAN,
             loaded : 1..MaxGeneration, names : 1..MaxGeneration, overtaken : BOOLEAN, preview : [found : BOOLEAN, pages : SUBSET Selectable]]

Saves(e) == editor[e].at = "previewed" /\ editor'[e].at = "idle" /\ collection' # collection

(* No preview overwrites what was committed since it was asked for, members that
   a synchronization resolved again and other settings included: an edit is
   saved only if nobody committed since the generation it names was read
   (StaleCollectionGeneration). And whoever commits, all members of the
   collection, those its removal policy keeps included, are within its limit. *)
SavesOverWhatWasSeen ==
  [][/\ \A e \in Editors : Saves(e) => ~editor[e].overtaken
     /\ WithinLimit(collection')]_editsVars

(* "The collection changed after this edit was loaded, so the stale preview was
   not applied" (gui main.rs 4269): an edit that is saved replaces the
   configuration its form was loaded from. *)
SavesOverWhatWasLoaded ==
  [][\A e \in Editors : Saves(e) => collection.generation = editor[e].loaded]_editsVars
=============================================================================
