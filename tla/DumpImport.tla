----------------------------- MODULE DumpImport -----------------------------
(***************************************************************************)
(* A collection bootstrapped from an authenticated dump: the parts are     *)
(* streamed in order, the selected pages captured and indexed, a durable   *)
(* cursor kept, and then every member is compared with the live wiki       *)
(* before the run may succeed.  The process may be killed anywhere and a   *)
(* later call resumes the same run                                         *)
(* (crates/wikisync-sync/src/dump_bootstrap.rs, wikisync-store/src/lib.rs).*)
(***************************************************************************)
EXTENDS Naturals, Sequences, FiniteSets
CONSTANTS
  Parts,      \* how many pages each part of the dump has
  Selected,   \* the members: pages of the dump by position, or beyond its end
  MaxEdits, MaxDumpStops, MaxImports
ASSUME DumpAssumption == /\ Parts \in Seq(Nat \ {0}) /\ Parts # <<>>
                         /\ Selected \subseteq Nat \ {0}
                         /\ {MaxEdits, MaxDumpStops, MaxImports} \subseteq Nat

PartEnd[k \in 0..Len(Parts)] == IF k = 0 THEN 0 ELSE PartEnd[k - 1] + Parts[k]
Total == PartEnd[Len(Parts)]
NoRevision == 0   \* the dump has revision 1 of each page

VARIABLES
  live,      \* the wiki's current revision of each member
  shown,     \* the revision the library shows
  indexed,   \* the revision the search index has
  owner,     \* the synchronization run: its state and what it must cover
  dump,      \* its import: state, whether it may be retried, and the cursor
  ledger,    \* the pages recorded as imported
  jobs,      \* closure jobs
  engine,    \* the engine: what it does, in which part, and at which page
  outcome,   \* how the last call ended
  dumpStops, \* kills and failures so far
  imports    \* imports so far
dumpVars == <<live, shown, indexed, owner, dump, ledger, jobs, engine, outcome, dumpStops, imports>>

JobStates == {"none", "queued", "running", "failed", "succeeded"}
DumpPhases == {"idle", "claim", "verify", "scan", "index", "record", "enqueue", "close", "complete", "finish"}
DumpTypeOK ==
  /\ live \in [Selected -> 1..(1 + MaxEdits)]
  /\ shown \in [Selected -> 0..(1 + MaxEdits)]
  /\ indexed \in [Selected -> 0..(1 + MaxEdits)]
  /\ owner \in [state : {"none", "running", "succeeded", "cancelled"},
                since : [Selected -> 0..(1 + MaxEdits)]]
  /\ dump \in [state : {"none", "running", "failed", "succeeded"},
                 retryable : BOOLEAN, cursor : 0..Total]
  /\ ledger \subseteq Selected
  /\ jobs \in [Selected -> JobStates]
  /\ engine \in [phase : DumpPhases, part : 0..Len(Parts), page : 0..Total]
  /\ outcome \in {"none", "succeeded", "stopped", "source", "refused"}
  /\ dumpStops \in 0..MaxDumpStops /\ imports \in 0..MaxImports

Resting == [phase |-> "idle", part |-> 0, page |-> 0]
NoDumpImport == [state |-> "none", retryable |-> TRUE, cursor |-> 0]
DumpInit ==
  /\ live = [p \in Selected |-> 1]
  /\ shown = [p \in Selected |-> NoRevision]
  /\ indexed = [p \in Selected |-> NoRevision]
  /\ owner = [state |-> "none", since |-> [p \in Selected |-> 0]]
  /\ dump = NoDumpImport /\ ledger = {} /\ jobs = [p \in Selected |-> "none"]
  /\ engine = Resting /\ outcome = "none" /\ dumpStops = 0 /\ imports = 0

EditLive(p) ==
  /\ live[p] <= MaxEdits
  /\ live' = [live EXCEPT ![p] = @ + 1]
  /\ UNCHANGED <<shown, indexed, owner, dump, ledger, jobs, engine, outcome, dumpStops, imports>>

(* A new run must cover what the wiki has now; a resumed one requeues the jobs
   that were running or may be retried. *)
StartOrResumeRun ==
  IF owner.state = "running"
    THEN /\ jobs' = [p \in Selected |-> IF jobs[p] \in {"running", "failed"} THEN "queued" ELSE jobs[p]]
         /\ UNCHANGED <<owner, dump, ledger, imports>>
    ELSE /\ imports < MaxImports /\ imports' = imports + 1
         /\ owner' = [state |-> "running", since |-> live]
         /\ dump' = NoDumpImport /\ ledger' = {}
         /\ jobs' = [p \in Selected |-> "none"]

(* A call whose dump, source, policy and budget agree with the collection,
   which the preview of the import finds again; a dump imports no page for a
   collection without members. *)
PreviewDumpBootstrap == Selected # {}
StartImport ==
  /\ engine.phase = "idle" /\ PreviewDumpBootstrap /\ StartOrResumeRun
  /\ engine' = [Resting EXCEPT !.phase = "claim"]
  /\ UNCHANGED <<live, shown, indexed, outcome, dumpStops>>

(* The import of a run is bound to its dump once; when it has succeeded only
   the run is left to complete, if the dump is read again and is the same. *)
ClaimDumpImport ==
  /\ engine.phase = "claim"
  /\ IF dump.state = "succeeded"
       THEN engine' = [engine EXCEPT !.phase = "verify"] /\ UNCHANGED dump
       ELSE /\ dump' = [dump EXCEPT !.state = "running", !.retryable = TRUE]
            /\ engine' = [phase |-> "scan", part |-> 1, page |-> 0]
  /\ UNCHANGED <<live, shown, indexed, owner, ledger, jobs, outcome, dumpStops, imports>>

(* A failed call keeps the reason; one that may not be retried cancels the run. *)
Failed(retryable) ==
  /\ dump' = [dump EXCEPT !.state = "failed", !.retryable = retryable]
  /\ owner' = IF retryable THEN owner ELSE [owner EXCEPT !.state = "cancelled"]
  /\ engine' = Resting

(* Progress may not fall behind the cursor: a store error, which is never
   retryable. *)
AdvanceTo(n, next) ==
  IF n < dump.cursor
    THEN Failed(FALSE) /\ outcome' = "refused"
    ELSE /\ dump' = [dump EXCEPT !.cursor = n]
         /\ engine' = next /\ UNCHANGED <<owner, outcome>>

CancelRun == owner' = [owner EXCEPT !.state = "cancelled"] /\ engine' = Resting /\ outcome' = "refused"
VerifyCompletedDump ==
  /\ engine.phase = "verify"
  /\ \/ engine' = [engine EXCEPT !.phase = "finish"] /\ UNCHANGED <<owner, outcome, dumpStops>>
     \/ dumpStops < MaxDumpStops /\ dumpStops' = dumpStops + 1 /\ CancelRun
  /\ UNCHANGED <<live, shown, indexed, dump, ledger, jobs, imports>>

(* A page is captured as the dump has it, unless something newer is shown. *)
ImportDumpPage(n) == shown' = [shown EXCEPT ![n] = IF @ < 1 THEN 1 ELSE @]

ScanPageCursorFirst ==
  /\ engine.phase = "scan" /\ engine.page < PartEnd[engine.part]
  /\ LET n == engine.page + 1
         next == [engine EXCEPT !.page = n] IN
     \/ n <= dump.cursor /\ engine' = next /\ UNCHANGED <<shown, dump>>
     \/ /\ n > dump.cursor /\ n \notin Selected
        /\ dump' = [dump EXCEPT !.cursor = n] /\ engine' = next /\ UNCHANGED shown
     \/ /\ n > dump.cursor /\ n \in Selected
        /\ dump' = [dump EXCEPT !.cursor = n]
        /\ ImportDumpPage(n)
        /\ engine' = [next EXCEPT !.phase = "index"]
  /\ UNCHANGED <<live, indexed, owner, ledger, jobs, outcome, dumpStops, imports>>

(* Pages the cursor has passed are read over, pages nobody selected only move
   the cursor. *)
ScanPage ==
  /\ engine.phase = "scan" /\ engine.page < PartEnd[engine.part]
  /\ LET n == engine.page + 1
         next == [engine EXCEPT !.page = n] IN
     \/ /\ n <= dump.cursor
        /\ engine' = next /\ UNCHANGED <<shown, owner, dump, outcome>>
     \/ /\ n > dump.cursor /\ n \notin Selected
        /\ AdvanceTo(n, next) /\ UNCHANGED shown
     \/ /\ n > dump.cursor /\ n \in Selected
        /\ ImportDumpPage(n)
        /\ engine' = [next EXCEPT !.phase = "index"]
        /\ UNCHANGED <<owner, dump, outcome>>
  /\ UNCHANGED <<live, indexed, ledger, jobs, dumpStops, imports>>

(* What the dump has of a selected page is suppressed, of another format, or
   more than the budget allows: the run is cancelled. *)
RefusePage ==
  /\ engine.phase = "scan" /\ engine.page < PartEnd[engine.part]
  /\ engine.page + 1 > dump.cursor /\ engine.page + 1 \in Selected
  /\ dumpStops < MaxDumpStops /\ dumpStops' = dumpStops + 1
  /\ Failed(FALSE) /\ outcome' = "refused"
  /\ UNCHANGED <<live, shown, indexed, ledger, jobs, imports>>

IndexPage ==
  /\ engine.phase = "index"
  /\ indexed' = [indexed EXCEPT ![engine.page] = shown[engine.page]]
  /\ engine' = [engine EXCEPT !.phase = "record"]
  /\ UNCHANGED <<live, shown, owner, dump, ledger, jobs, outcome, dumpStops, imports>>

RecordPage ==
  /\ engine.phase = "record"
  /\ AdvanceTo(engine.page, [engine EXCEPT !.phase = "scan"])
  /\ ledger' = ledger \cup {engine.page}
  /\ UNCHANGED <<live, shown, indexed, jobs, dumpStops, imports>>

EndPartPastLast ==
  /\ engine.phase = "scan" /\ engine.page = PartEnd[engine.part]
  /\ AdvanceTo(engine.page, [engine EXCEPT !.part = @ + 1])
  /\ UNCHANGED <<live, shown, indexed, ledger, jobs, dumpStops, imports>>

(* The end of a part is recorded too, whether or not it was read over. *)
EndPart ==
  /\ engine.phase = "scan" /\ engine.page = PartEnd[engine.part]
  /\ AdvanceTo(engine.page, IF engine.part = Len(Parts) THEN [engine EXCEPT !.phase = "enqueue"]
                                               ELSE [engine EXCEPT !.part = @ + 1])
  /\ UNCHANGED <<live, shown, indexed, ledger, jobs, dumpStops, imports>>

EnqueueAbsent ==
  /\ engine.phase = "enqueue"
  /\ jobs' = [p \in Selected |-> IF jobs[p] = "none" /\ p \notin ledger THEN "queued" ELSE jobs[p]]
  /\ engine' = [engine EXCEPT !.phase = "close"]
  /\ UNCHANGED <<live, shown, indexed, owner, dump, ledger, outcome, dumpStops, imports>>
EnqueueClosure ==
  /\ engine.phase = "enqueue"
  /\ jobs' = [p \in Selected |-> IF jobs[p] = "none" THEN "queued" ELSE jobs[p]]
  /\ engine' = [engine EXCEPT !.phase = "close"]
  /\ UNCHANGED <<live, shown, indexed, owner, dump, ledger, outcome, dumpStops, imports>>

(* Each member once, against the wiki as it is when its job runs. *)
ClosePage(p) ==
  /\ engine.phase = "close" /\ jobs[p] = "queued" /\ \A q \in Selected : jobs[q] # "running"
  /\ shown' = [shown EXCEPT ![p] = live[p]]
  /\ indexed' = [indexed EXCEPT ![p] = live[p]]
  /\ jobs' = [jobs EXCEPT ![p] = "running"]
  /\ UNCHANGED <<live, owner, dump, ledger, engine, outcome, dumpStops, imports>>
CompleteClosure(p) ==
  /\ engine.phase = "close" /\ jobs[p] = "running"
  /\ jobs' = [jobs EXCEPT ![p] = "succeeded"]
  /\ UNCHANGED <<live, shown, indexed, owner, dump, ledger, engine, outcome, dumpStops, imports>>

(* A request fails: the job and the import fail with it. *)
ClosureFails(p, retryable) ==
  /\ engine.phase = "close" /\ jobs[p] = "queued" /\ \A q \in Selected : jobs[q] # "running"
  /\ dumpStops < MaxDumpStops /\ dumpStops' = dumpStops + 1
  /\ jobs' = [jobs EXCEPT ![p] = "failed"]
  /\ Failed(retryable) /\ outcome' = "source"
  /\ UNCHANGED <<live, shown, indexed, ledger, imports>>

CompleteDumpImport ==
  /\ engine.phase = "close" /\ \A p \in Selected : jobs[p] \notin {"queued", "running"}
  /\ dump' = [dump EXCEPT !.state = "succeeded", !.retryable = FALSE]
  /\ engine' = [engine EXCEPT !.phase = "finish"]
  /\ UNCHANGED <<live, shown, indexed, owner, ledger, jobs, outcome, dumpStops, imports>>

CompleteRun ==
  /\ engine.phase = "finish"
  /\ dump.state = "succeeded" /\ \A p \in Selected : jobs[p] \in {"none", "succeeded"}
  /\ owner' = [owner EXCEPT !.state = "succeeded"]
  /\ engine' = Resting /\ outcome' = "succeeded"
  /\ UNCHANGED <<live, shown, indexed, dump, ledger, jobs, dumpStops, imports>>

KillImport ==
  /\ engine.phase # "idle" /\ dumpStops < MaxDumpStops /\ dumpStops' = dumpStops + 1
  /\ engine' = Resting /\ outcome' = "stopped"
  /\ UNCHANGED <<live, shown, indexed, owner, dump, ledger, jobs, imports>>

DumpNext ==
  \/ \E p \in Selected : EditLive(p) \/ ClosePage(p) \/ CompleteClosure(p)
  \/ \E p \in Selected, r \in BOOLEAN : ClosureFails(p, r)
  \/ StartImport \/ ClaimDumpImport \/ VerifyCompletedDump \/ ScanPage \/ RefusePage \/ IndexPage \/ RecordPage \/ EndPart
  \/ EnqueueClosure \/ CompleteDumpImport \/ CompleteRun \/ KillImport
DumpSpec == DumpInit /\ [][DumpNext]_dumpVars

(* The cursor never passes a selected page that is not captured and
   searchable: a call killed in between reads the page again. *)
CursorBehindIndex ==
  \A p \in Selected : p <= dump.cursor /\ owner.state = "running"
                        => shown[p] # NoRevision /\ indexed[p] # NoRevision

(* A run that succeeded shows every member at least as it was when the run
   first started, however often it was resumed and whatever the dump lacked. *)
SuccessClosesRace ==
  owner.state = "succeeded" => \A p \in Selected : shown[p] >= owner.since[p]

(* An import misses nothing: neither where it was killed nor where it ended. *)
ImportMissesNothing == CursorBehindIndex /\ SuccessClosesRace
=============================================================================
