---------------------------- MODULE WholeEdition ----------------------------
(***************************************************************************)
(* A whole edition: every article of a wiki, first streamed from a dump    *)
(* while the changes since the dump are discovered and later applied, then *)
(* kept current by windows of recent changes.  A gap too long for recent   *)
(* changes needs a new dump.  Any call may be killed or fail               *)
(* (crates/wikisync-sync/src/dump_bootstrap.rs, wikisync-store/src/lib.rs).*)
(***************************************************************************)
EXTENDS Integers, Sequences, FiniteSetsExt
CONSTANTS
  Order,       \* the articles in the order of the dump, one part each
  MaxGap,      \* the longest window an update may cover
  Retention,   \* how far back the wiki lists recent changes, and dumps reach
  Overlap,     \* how far an update looks back before its checkpoint
  MaxChanges, MaxHidden, MaxStops
ASSUME EditionAssumption ==
  /\ Order \in Seq(STRING) /\ Order # <<>>
  /\ MaxGap + Overlap <= Retention
  /\ {MaxGap, Retention, Overlap, MaxChanges, MaxHidden, MaxStops} \subseteq Nat

Articles == {Order[k] : k \in 1..Len(Order)}
VARIABLES
  log,      \* the wiki: every change so far; its position is its identity and time
  hidden,   \* edits whose text the wiki no longer shows
  dumpAt,   \* when the newest dump was taken
  local,    \* each article here: the edit shown, and whether it is live
  applied,  \* the changes recorded here as applied or ignored
  linked,   \* the changes this run's discovery has found
  committed,\* the checkpoint; 0 before the first bootstrap
  run,      \* the synchronization run of the edition
  import,   \* the dump import of a bootstrap run
  found,    \* the discovery of the run: its window and how far it has listed
  marker,   \* the long gap that must be closed, and whether this import took it
  at,       \* the engine
  result, stops,
  \* History, which no step reads: whether an import that nothing called for was
  \* given up, and the articles whose last change applied is older than another.
  givenUp, overtaken
historyVars == <<givenUp, overtaken>>
editionVars == <<log, hidden, dumpAt, local, applied, linked, committed, run, import, found,
                 marker, at, result, stops, historyVars>>
storeVars == <<local, applied, linked, committed, run, import, found, marker, historyVars>>

Now == Len(log)
Times == 0..(Len(Order) + MaxChanges)
(* The wiki's own view of an article at a time. *)
LastChange(a, n) == Max({0} \cup {i \in 1..n : log[i].article = a})
LastEdit(a, n) == Max({0} \cup {i \in 1..n : log[i] = [article |-> a, kind |-> "edit"]})
Live(a, n) == LastChange(a, n) # 0 /\ log[LastChange(a, n)].kind # "delete"
Gone(i) == \E j \in (i + 1)..Now : log[j] = [article |-> log[i].article, kind |-> "delete"]
(* A deletion removes an article's edits from the list of recent changes. *)
Listed == {i \in 1..Now : i > Now - Retention /\ ~(log[i].kind = "edit" /\ Gone(i))}
Readable(i) == i \notin hidden /\ Live(log[i].article, Now)

Idle == [phase |-> "idle", part |-> 0, from |-> 0, change |-> 0]
NoRun == [state |-> "none", kind |-> "none", since |-> 0, end |-> 0]
NoImport == [state |-> "none", marked |-> FALSE, whole |-> FALSE, boundary |-> 0, cursor |-> 0]
NotFound == [state |-> "none", marked |-> FALSE, listed |-> 0, exhausted |-> FALSE]
Phases == {"idle", "import", "claim", "discover", "scan", "record", "progress", "tail", "relist",
           "complete", "apply", "mark", "resolve", "finish"}
EditionTypeOK ==
  /\ log \in Seq([article : Articles, kind : {"edit", "delete", "restore"}])
  /\ Len(log) <= Len(Order) + MaxChanges /\ hidden \subseteq 1..Now /\ dumpAt \in 1..Now
  /\ local \in [Articles -> [edit : Times, live : BOOLEAN]]
  /\ applied \subseteq 1..Now /\ linked \subseteq 1..Now /\ committed \in 0..Now
  /\ run \in [state : {"none", "running", "succeeded", "cancelled"},
              kind : {"none", "bootstrap", "update"}, since : Times, end : Times]
  /\ import \in [state : {"none", "running", "failed", "succeeded"}, marked : BOOLEAN,
                 whole : BOOLEAN, boundary : Times, cursor : 0..Len(Order)]
  /\ found \in [state : {"none", "running", "failed", "succeeded"}, marked : BOOLEAN,
                listed : Times, exhausted : BOOLEAN]
  /\ marker \in [state : {"none", "required", "recovering"}, mine : BOOLEAN]
  /\ at \in [phase : Phases, part : 0..(Len(Order) + 1), from : Times, change : Times]
  /\ result \in {"none", "succeeded", "stopped", "source", "gap", "refused"}
  /\ stops \in 0..MaxStops /\ givenUp \in BOOLEAN /\ overtaken \subseteq Articles

EditionInit ==
  /\ log = [k \in 1..Len(Order) |-> [article |-> Order[k], kind |-> "edit"]]
  /\ hidden = {} /\ dumpAt = Len(Order)
  /\ local = [a \in Articles |-> [edit |-> 0, live |-> FALSE]]
  /\ applied = {} /\ linked = {} /\ committed = 0
  /\ run = NoRun /\ import = NoImport /\ found = NotFound
  /\ marker = [state |-> "none", mine |-> FALSE]
  /\ at = Idle /\ result = "none" /\ stops = 0 /\ givenUp = FALSE /\ overtaken = {}

(* The wiki lists every change of its window for as long as an update takes, and
   as a bootstrap takes with its resumptions. *)
Change(a, kind) ==
  /\ Len(log) < Len(Order) + MaxChanges
  /\ run.state = "running" /\ run.kind = "bootstrap" => Now < dumpAt + Retention
  /\ run.kind = "update" /\ at.phase # "idle" => Now < run.since + Retention
  /\ IF kind = "restore" THEN ~Live(a, Now) ELSE Live(a, Now)
  /\ log' = Append(log, [article |-> a, kind |-> kind])
  /\ UNCHANGED <<hidden, dumpAt, storeVars, at, result, stops>>
Hide(i) ==
  /\ log[i].kind = "edit" /\ i > Len(Order) /\ i # LastEdit(log[i].article, Now)
  /\ i \notin hidden /\ Cardinality(hidden) < MaxHidden
  /\ hidden' = hidden \cup {i}
  /\ UNCHANGED <<log, dumpAt, storeVars, at, result, stops>>
TakeDump ==
  /\ dumpAt < Now /\ ~(run.state = "running" /\ run.kind = "bootstrap")
  /\ dumpAt' = Now
  /\ UNCHANGED <<log, hidden, storeVars, at, result, stops>>

(* How a call ends.  A store error is never retried; an error that may not be
   retried cancels the run, one outside an import or a discovery leaves it. *)
EndCall(r) == at' = Idle /\ result' = r
Marked == marker.state # "none"
Uncalled == run.kind = "bootstrap" /\ committed # 0 /\ ~Marked
FailRun(retryable) ==
  /\ run' = IF retryable THEN run ELSE [run EXCEPT !.state = "cancelled"]
  /\ givenUp' = (givenUp \/ (~retryable /\ Uncalled))
FailFound(retryable) == found' = [found EXCEPT !.state = "failed"] /\ FailRun(retryable)
FailImport(retryable) ==
  IF import.state = "running"
    THEN import' = [import EXCEPT !.state = "failed"] /\ FailRun(retryable)
    ELSE UNCHANGED <<import, run, givenUp>>

NewRun(kind) ==
  /\ run' = [state |-> "running", kind |-> kind, since |-> Max({0, committed - Overlap}), end |-> Now]
  /\ import' = NoImport /\ found' = NotFound /\ linked' = {}
  /\ marker' = [marker EXCEPT !.mine = FALSE]

(* A dump is published longer after it was taken than an update looks back.  The
   user may import one at any time, whether or not anything calls for it. *)
Published == dumpAt + Overlap <= Now /\ Now < dumpAt + Retention
StartBootstrap ==
  /\ at.phase = "idle" /\ ~(run.state = "running" /\ run.kind = "update")
  /\ IF run.state = "running"
       THEN UNCHANGED <<run, import, found, linked, marker>>
       ELSE Published /\ NewRun("bootstrap")
  /\ at' = [Idle EXCEPT !.phase = "import"] /\ result' = "none"
  /\ UNCHANGED <<log, hidden, dumpAt, local, applied, committed, stops, historyVars>>

StartUpdateAnyGap ==
  /\ at.phase = "idle" /\ committed # 0 /\ ~(run.state = "running" /\ run.kind = "bootstrap")
  /\ IF run.state = "running" THEN UNCHANGED <<run, import, found, linked, marker>>
                              ELSE NewRun("update")
  /\ at' = [Idle EXCEPT !.phase = "claim"] /\ result' = "none"
  /\ UNCHANGED <<log, hidden, dumpAt, local, applied, committed, stops, historyVars>>

(* An update needs a bootstrap before it, and a window it may cover; a longer
   gap is marked, once, for a new dump to close. *)
MarkLongGap == marker' = IF marker.state = "none" THEN [marker EXCEPT !.state = "required"] ELSE marker
StartUpdate ==
  /\ at.phase = "idle" /\ committed # 0
  /\ IF Now - committed > MaxGap
       THEN /\ MarkLongGap /\ EndCall("gap") /\ UNCHANGED <<run, import, found, linked>>
       ELSE /\ ~(run.state = "running" /\ run.kind = "bootstrap")
            /\ IF run.state = "running" THEN UNCHANGED <<run, import, found, linked, marker>>
                                        ELSE NewRun("update")
            /\ at' = [Idle EXCEPT !.phase = "claim"] /\ result' = "none"
  /\ UNCHANGED <<log, hidden, dumpAt, local, applied, committed, stops, historyVars>>

(* An import is bound to its window's first end and to the gap it closes, and
   takes the gap unless another import has. *)
ClaimImport ==
  /\ at.phase = "import"
  /\ LET next == [at EXCEPT !.phase = "claim"] IN
     IF import.state # "none" /\ (import.boundary # run.end \/ (import.whole /\ import.marked # Marked))
       THEN EndCall("refused") /\ UNCHANGED <<import, marker>>
       ELSE LET state == IF import.state = "succeeded" THEN "succeeded" ELSE "running" IN
         \/ /\ import.whole
            /\ import' = [import EXCEPT !.state = state]
            /\ at' = next /\ UNCHANGED <<marker, result>>
         \/ /\ ~import.whole /\ marker.state # "recovering"
            /\ import' = [import EXCEPT !.state = state, !.boundary = run.end, !.whole = TRUE, !.marked = Marked]
            /\ marker' = IF Marked THEN [state |-> "recovering", mine |-> TRUE] ELSE marker
            /\ at' = next /\ UNCHANGED result
         \/ /\ ~import.whole /\ marker.state = "recovering"
            /\ import' = [import EXCEPT !.state = state, !.boundary = run.end]
            /\ EndCall("refused") /\ UNCHANGED marker
  /\ UNCHANGED <<log, hidden, dumpAt, local, applied, linked, committed, run, found, stops,
                 historyVars>>

ClaimDiscovery ==
  /\ at.phase = "claim"
  /\ IF (run.kind = "update" /\ Marked) \/ (found.state # "none" /\ found.marked # Marked)
       THEN EndCall("refused") /\ UNCHANGED found
       ELSE /\ found' = [found EXCEPT !.state = IF @ = "succeeded" THEN @ ELSE "running", !.marked = Marked]
            /\ at' = [at EXCEPT !.phase = "discover",
                                !.from = IF run.kind = "update" THEN run.since ELSE dumpAt]
            /\ UNCHANGED result
  /\ UNCHANGED <<log, hidden, dumpAt, local, applied, linked, committed, run, import, marker,
                 stops, historyVars>>

(* A batch of the window is recorded with where the next one continues. *)
ListBatch ==
  /\ at.phase \in {"discover", "relist"} /\ ~found.exhausted
  /\ \E upto \in (IF found.listed = 0 THEN at.from ELSE found.listed + 1)..run.end :
       LET first == IF found.listed = 0 THEN at.from ELSE found.listed + 1 IN
       /\ linked' = linked \cup (Listed \cap first..upto)
       /\ found' = [found EXCEPT !.listed = upto, !.exhausted = (upto = run.end)]
  /\ UNCHANGED <<log, hidden, dumpAt, local, applied, committed, run, import, marker, at,
                 result, stops, historyVars>>
EndListing ==
  /\ at.phase \in {"discover", "relist"} /\ found.exhausted
  /\ at' = IF at.phase = "relist" THEN [at EXCEPT !.phase = IF at.part > Len(Order) THEN "complete" ELSE "scan"]
           ELSE IF run.kind = "update" THEN [at EXCEPT !.phase = "apply"]
           ELSE [at EXCEPT !.phase = "scan", !.part = 1]
  /\ UNCHANGED <<log, hidden, dumpAt, storeVars, result, stops>>

(* A part is one article: read over when the cursor has passed it, else shown
   unless something newer is, indexed, and recorded. *)
ScanArticle ==
  /\ at.phase = "scan" /\ at.part <= Len(Order)
  /\ LET a == Order[at.part]
         capture == at.part > import.cursor /\ Live(a, dumpAt) IN
     /\ local' = IF capture /\ LastEdit(a, dumpAt) >= local[a].edit
                   THEN [local EXCEPT ![a] = [edit |-> LastEdit(a, dumpAt), live |-> TRUE]] ELSE local
     /\ at' = [at EXCEPT !.phase = IF capture THEN "record" ELSE "progress"]
  /\ UNCHANGED <<log, hidden, dumpAt, applied, linked, committed, run, import, found, marker,
                 result, stops, historyVars>>

Advance(phase) ==
  /\ IF import.state # "running" \/ at.part < import.cursor
       THEN FailImport(FALSE) /\ EndCall("refused")
       ELSE import' = [import EXCEPT !.cursor = at.part] /\ at' = [at EXCEPT !.phase = phase]
            /\ UNCHANGED <<run, result, givenUp>>
  /\ UNCHANGED <<log, hidden, dumpAt, local, applied, linked, committed, found, marker, stops,
                 overtaken>>
RecordArticle == at.phase = "record" /\ Advance("progress")
RecordPart == at.phase = "progress" /\ Advance("tail")

ExtendWindowUnlisted ==
  /\ at.phase = "tail"
  /\ run' = [run EXCEPT !.end = Now]
  /\ at' = [at EXCEPT !.part = @ + 1, !.phase = IF at.part = Len(Order) THEN "complete" ELSE "scan"]
  /\ UNCHANGED <<log, hidden, dumpAt, local, applied, linked, committed, import, found, marker,
                 result, stops, historyVars>>

(* After each part the window is extended to the wiki's time and listed on. *)
ExtendWindow ==
  /\ at.phase = "tail"
  /\ LET next == [at EXCEPT !.part = @ + 1] IN
     IF Now = run.end
       THEN /\ at' = [next EXCEPT !.phase = IF at.part = Len(Order) THEN "complete" ELSE "scan"]
            /\ UNCHANGED <<run, found>>
       ELSE /\ run' = [run EXCEPT !.end = Now]
            /\ found' = [found EXCEPT !.listed = 0, !.exhausted = FALSE]
            /\ at' = [next EXCEPT !.phase = "relist", !.from = run.end]
  /\ UNCHANGED <<log, hidden, dumpAt, local, applied, linked, committed, import, marker,
                 result, stops, historyVars>>

CompleteImport ==
  /\ at.phase = "complete"
  /\ import' = [import EXCEPT !.state = "succeeded"]
  /\ at' = [at EXCEPT !.phase = "apply"]
  /\ UNCHANGED <<log, hidden, dumpAt, local, applied, linked, committed, run, found, marker,
                 result, stops, historyVars>>

(* Changes are applied in order: an edit's own text, a deletion to an article
   that is here, a restoration by asking for the article as it is now. *)
PendingChanges == linked \ applied
Shown(a, edit) == local' = [local EXCEPT ![a] = [edit |-> edit, live |-> TRUE]]
ApplyChange ==
  /\ at.phase = "apply" /\ PendingChanges # {}
  /\ LET i == Min(PendingChanges)
         a == log[i].article IN
     /\ at' = [at EXCEPT !.phase = "mark", !.change = i]
     /\ overtaken' = IF \E k \in applied : k > i /\ log[k].article = a
                       THEN overtaken \cup {a} ELSE overtaken \ {a}
     /\ \/ /\ log[i].kind = "edit" /\ Readable(i)
           /\ Shown(a, i)
        \/ /\ log[i].kind = "delete" \/ (log[i].kind = "restore" /\ ~Live(a, Now))
           /\ local' = [local EXCEPT ![a].live = FALSE]
        \/ /\ log[i].kind = "restore" /\ Live(a, Now)
           /\ Shown(a, LastEdit(a, Now))
  /\ UNCHANGED <<log, hidden, dumpAt, applied, linked, committed, run, import, found, marker,
                 result, stops, givenUp>>
(* The text of an edit is no longer public: the discovery fails for good. *)
ApplyUnreadable ==
  /\ at.phase = "apply" /\ PendingChanges # {}
  /\ LET i == Min(PendingChanges) IN log[i].kind = "edit" /\ ~Readable(i)
  /\ IF found.state = "running" THEN FailFound(FALSE) ELSE UNCHANGED <<found, run, givenUp>>
  /\ EndCall("source")
  /\ UNCHANGED <<log, hidden, dumpAt, local, applied, linked, committed, import, marker, stops,
                 overtaken>>
MarkApplied ==
  /\ at.phase = "mark"
  /\ applied' = applied \cup {at.change}
  /\ at' = [at EXCEPT !.phase = "apply"]
  /\ UNCHANGED <<log, hidden, dumpAt, local, linked, committed, run, import, found, marker,
                 result, stops, historyVars>>

CompleteDiscovery ==
  /\ at.phase = "apply" /\ PendingChanges = {}
  /\ IF found.state = "running"
       THEN /\ found' = [found EXCEPT !.state = "succeeded"]
            /\ at' = [at EXCEPT !.phase = IF found.marked THEN "resolve" ELSE "finish"]
            /\ UNCHANGED result
       ELSE EndCall("refused") /\ UNCHANGED found
  /\ UNCHANGED <<log, hidden, dumpAt, local, applied, linked, committed, run, import, marker,
                 stops, historyVars>>
ResolveGap ==
  /\ at.phase = "resolve" /\ marker = [state |-> "recovering", mine |-> TRUE]
  /\ marker' = [state |-> "none", mine |-> FALSE]
  /\ at' = [at EXCEPT !.phase = "finish"]
  /\ UNCHANGED <<log, hidden, dumpAt, local, applied, linked, committed, run, import, found,
                 result, stops, historyVars>>
FinishRun ==
  /\ at.phase = "finish"
  /\ run' = [run EXCEPT !.state = "succeeded"] /\ committed' = run.end
  /\ EndCall("succeeded")
  /\ UNCHANGED <<log, hidden, dumpAt, local, applied, linked, import, found, marker, stops,
                 historyVars>>

(* A request fails while listing, downloading or reading, or for the text or an
   image of an edit that is applied. *)
Requests ==
  \/ at.phase = "discover" /\ ~found.exhausted
  \/ at.phase = "apply" /\ PendingChanges # {} /\ log[Min(PendingChanges)].kind # "delete"
  \/ at.phase = "mark" /\ log[at.change].kind # "delete"
SourceFails(retryable) ==
  /\ stops < MaxStops /\ stops' = stops + 1
  /\ \/ /\ Requests /\ found.state = "running"
        /\ FailFound(retryable) /\ UNCHANGED import
     \/ /\ at.phase \in {"scan", "tail", "relist"}
        /\ FailImport(retryable) /\ UNCHANGED found
  /\ EndCall("source")
  /\ UNCHANGED <<log, hidden, dumpAt, local, applied, linked, committed, marker, overtaken>>
KillEdition ==
  /\ at.phase # "idle" /\ stops < MaxStops /\ stops' = stops + 1
  /\ EndCall("stopped")
  /\ UNCHANGED <<log, hidden, dumpAt, storeVars>>

EditionNext ==
  \/ \E a \in Articles, kind \in {"edit", "delete", "restore"} : Change(a, kind)
  \/ \E i \in 1..Now : Hide(i)
  \/ \E r \in BOOLEAN : SourceFails(r)
  \/ TakeDump \/ StartBootstrap \/ StartUpdate \/ ClaimImport \/ ClaimDiscovery \/ ListBatch
  \/ EndListing \/ ScanArticle \/ RecordArticle \/ RecordPart \/ ExtendWindow \/ CompleteImport
  \/ ApplyChange \/ ApplyUnreadable \/ MarkApplied \/ CompleteDiscovery \/ ResolveGap \/ FinishRun
  \/ KillEdition
EditionSpec == EditionInit /\ [][EditionNext]_editionVars

(* What an article must be here that the wiki had at a time and has not deleted
   since: shown, and at least as new as it was then. *)
NoDelete(a, n) == \A j \in (n + 1)..Now : log[j] # [article |-> a, kind |-> "delete"]
UpToDate(a, n) == Live(a, n) /\ NoDelete(a, n) => local[a].live /\ local[a].edit >= LastEdit(a, n)

(* After a successful run the edition shows every article of the wiki as it was
   at the checkpoint, or newer. *)
CurrentAtCheckpoint == committed # 0 => \A a \in Articles : UpToDate(a, committed)

(* It is so of every article but those to which changes were applied out of
   their order, and that happens only after an import that nothing called for
   was given up. *)
CheckpointCovers ==
  /\ overtaken # {} => givenUp
  /\ committed # 0 => \A a \in Articles \ overtaken : UpToDate(a, committed)

(* An interrupted bootstrap or update can be resumed: only the wiki refuses. *)
InterruptedEditionResumes == result # "refused"
=============================================================================
