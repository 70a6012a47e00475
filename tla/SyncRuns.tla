------------------------------ MODULE SyncRuns ------------------------------
(***************************************************************************)
(* Synchronization runs of one collection: the durable run, job and        *)
(* checkpoint rows of the store, the engine that fills them                *)
(* (bootstrap_collection and reconcile_collection_heads), the membership   *)
(* rule that decides which pages they are about, and the wiki, which moves *)
(* between any two steps of the engine.                                    *)
(*                                                                         *)
(* One engine runs at a time, under the writer lease.  A page's revisions  *)
(* are named by the second they were made in; the revisions between two    *)
(* heads are the subject of PageHistory, budgets and images are left out.  *)
(***************************************************************************)
EXTENDS Naturals, Sequences, FiniteSetsExt

CONSTANTS
  Page,          \* page IDs
  Dynamic,       \* TRUE: a category rule, FALSE: a list of titles
  KeepTracking,  \* the removal policy: CollectionRemovalPolicy::KeepTracking
  DirectUpdate,  \* TRUE: the GUI also updates, holding the lease itself
  MaxClock,      \* bound: seconds
  MaxChanges,    \* bound: deletions, restorations and changes of selection
  MaxFailures,   \* bound: page jobs that fail
  MaxStops       \* bound: kills, shutdowns and other early returns

ASSUME SyncRunsAssumption ==
  /\ Page \subseteq Nat /\ IsFiniteSet(Page)
  /\ Dynamic \in BOOLEAN /\ KeepTracking \in BOOLEAN /\ DirectUpdate \in BOOLEAN
  /\ MaxClock \in Nat \ {0} /\ MaxChanges \in Nat
  /\ MaxFailures \in Nat /\ MaxStops \in Nat

VARIABLES
  clock,       \* the current second, of the wiki and of the host
  exists,      \* pages that resolve upstream
  listed,      \* pages of the category
  edits,       \* per page, the seconds of its revisions
  changes, failures, stops,  \* counted against the bounds

  member,      \* collection_resolved_members.membership_state
  tracked,     \* collection_pages
  durable,     \* newest row of revisions per page, 0 = never captured
  current,     \* pages.current_revision_id, 0 = no row
  gone,        \* pages whose pages.state is 'missing'

  run,         \* the collection's sync_runs row in state 'running'
  jobs,        \* its sync_jobs by job_id; those of ended runs are not read again
  checkpoint,  \* sync_checkpoints
  unmanifested,\* succeeded runs the manifest chain does not hold yet

  engine       \* the program counter and locals of sync_collection

world == <<clock, exists, listed, edits>>
catalog == <<member, tracked, durable, current, gone>>
rows == <<run, jobs, checkpoint, unmanifested>>
counted == <<changes, failures, stops>>
vars == <<world, counted, catalog, rows, engine>>

Second == 0 .. MaxClock
Kinds == {"bootstrap", "reconciliation"}
Run == [kind : Kinds, candidate : Second]
NoRun == [kind |-> "none", candidate |-> 0]
JobStates == {"queued", "running", "succeeded", "retryable", "failed"}
\* seen: the head the successful attempt found upstream, 0 = the page was missing.
Job == [page : Page, state : JobStates, seen : Second]

Steps == {"idle", "resolving", "starting", "enqueuing", "claiming", "looking",
          "capturing", "advancing", "completing", "cancelling", "finishing", "recording"}
Idle == [at |-> "idle", kind |-> "none", candidate |-> 0, job |-> 0, seen |-> 0]

TypeOK ==
  /\ clock \in Second \ {0}
  /\ exists \subseteq Page /\ listed \subseteq Page
  /\ edits \in [Page -> SUBSET Second]
  /\ changes \in 0 .. MaxChanges /\ failures \in 0 .. MaxFailures /\ stops \in 0 .. MaxStops
  /\ member \in [Page -> {"none", "active", "removed"}]
  /\ tracked \subseteq Page /\ gone \subseteq Page
  /\ durable \in [Page -> Second] /\ current \in [Page -> Second]
  /\ run \in Run \cup {NoRun}
  /\ jobs \in Seq(Job) /\ Len(jobs) <= Cardinality(Page)
  /\ checkpoint \in [committed : Second, hasRun : BOOLEAN]
  /\ unmanifested \in Nat
  /\ engine \in [at : Steps, kind : Kinds \cup {"none"}, candidate : Second,
                 job : 0 .. Cardinality(Page), seen : Second]

Members == {p \in Page : member[p] = "active"}
NewestEdit(p) == Max(edits[p])

\* A collection just created from a preview; nothing of it is captured.
Init ==
  /\ clock = 1
  /\ exists \in (SUBSET Page) \ {{}}
  /\ listed \in (SUBSET exists) \ {{}}
  /\ edits = [p \in Page |-> IF p \in exists THEN {1} ELSE {}]
  /\ changes = 0 /\ failures = 0 /\ stops = 0
  /\ member = [p \in Page |-> IF p \in listed THEN "active" ELSE "none"]
  /\ tracked = {} /\ gone = {}
  /\ durable = [p \in Page |-> 0] /\ current = [p \in Page |-> 0]
  /\ run = NoRun /\ jobs = <<>>
  /\ checkpoint = [committed |-> 0, hasRun |-> FALSE]
  /\ unmanifested = 0
  /\ engine = Idle

-----------------------------------------------------------------------------
(* The wiki.                                                               *)

Tick ==
  /\ clock < MaxClock
  /\ clock' = clock + 1
  /\ UNCHANGED <<exists, listed, edits, counted, catalog, rows, engine>>

EditPage(p) ==
  /\ p \in exists /\ clock \notin edits[p]
  /\ edits' = [edits EXCEPT ![p] = @ \cup {clock}]
  /\ UNCHANGED <<clock, exists, listed, counted, catalog, rows, engine>>

Changed ==
  /\ changes < MaxChanges
  /\ changes' = changes + 1
  /\ UNCHANGED <<failures, stops>>

\* A page that was never there is created, a deleted one comes back as it was.
Restore(p) ==
  /\ p \notin exists
  /\ Changed
  /\ exists' = exists \cup {p}
  /\ edits' = [edits EXCEPT ![p] = IF @ = {} THEN {clock} ELSE @]
  /\ UNCHANGED <<clock, listed, catalog, rows, engine>>

Delete(p) ==
  /\ p \in exists
  /\ Changed
  /\ exists' = exists \ {p}
  /\ listed' = listed \ {p}
  /\ UNCHANGED <<clock, edits, catalog, rows, engine>>

Recategorize(p) ==
  /\ Dynamic /\ p \in exists
  /\ Changed
  /\ listed' = IF p \in listed THEN listed \ {p} ELSE listed \cup {p}
  /\ UNCHANGED <<clock, exists, edits, catalog, rows, engine>>

-----------------------------------------------------------------------------
(* Membership.                                                             *)

\* Mutant: removed members keep their collection_pages rows.
KeepRows(selection) ==
  /\ member' = [p \in Page |->
                  IF p \in selection THEN "active"
                  ELSE IF member[p] = "active" /\ ~KeepTracking THEN "removed"
                  ELSE member[p]]
  /\ tracked' = tracked \cup {p \in selection : current[p] # 0}
  /\ UNCHANGED <<durable, current, gone>>

\* commit_resolved_membership, and the membership half of
\* commit_preview_transaction.  Only a page with a row becomes tracked.
CommitMembership(selection) ==
  /\ member' = [p \in Page |->
                  IF p \in selection THEN "active"
                  ELSE IF member[p] = "active" /\ ~KeepTracking THEN "removed"
                  ELSE member[p]]
  /\ tracked' = (IF KeepTracking THEN tracked ELSE {})
                   \cup {p \in selection : current[p] # 0}
  /\ UNCHANGED <<durable, current, gone>>

\* The user commits the preview of an edited collection between two calls of
\* the engine: another title list, or what the category holds now.
EditSelection(selection) ==
  /\ engine.at = "idle"
  /\ selection # {} /\ selection \subseteq exists
  /\ Dynamic => selection = listed
  /\ Changed
  /\ CommitMembership(selection)
  /\ UNCHANGED <<world, rows, engine>>

-----------------------------------------------------------------------------
(* The engine: sync_collection of the daemon, update_collection of the GUI. *)

Goto(step) == engine' = [engine EXCEPT !.at = step]

\* The daemon decides by the checkpoint whether this is a bootstrap.
StartSync ==
  /\ engine.at = "idle"
  /\ engine' = IF checkpoint.hasRun
                THEN [Idle EXCEPT !.at = "resolving", !.kind = "reconciliation",
                                  !.candidate = clock]
                ELSE [Idle EXCEPT !.at = "resolving", !.kind = "bootstrap"]
  /\ UNCHANGED <<world, counted, catalog, rows>>

\* The GUI always reconciles and does not resolve the rule again.
StartUpdate ==
  /\ DirectUpdate /\ engine.at = "idle"
  /\ engine' = [Idle EXCEPT !.at = "starting", !.candidate = clock,
                  !.kind = "reconciliation"]
  /\ UNCHANGED <<world, counted, catalog, rows>>

\* reconcile_dynamic_collection_membership.
Resolve ==
  /\ engine.at = "resolving"
  /\ IF Dynamic THEN CommitMembership(listed) ELSE UNCHANGED catalog
  /\ Goto("starting")
  /\ UNCHANGED <<world, counted, rows>>

\* repair_missing_sync_manifests, one manifest at a time.
RepairManifest ==
  /\ engine.at = "starting" /\ unmanifested > 0
  /\ unmanifested' = unmanifested - 1
  /\ UNCHANGED <<world, counted, catalog, run, jobs, checkpoint, engine>>

\* A bootstrap takes its checkpoint candidate when it starts its run, a
\* reconciliation was given one by its caller.
Candidate == IF engine.kind = "bootstrap" THEN clock ELSE engine.candidate

\* Mutant: a run starts before the manifests of earlier runs are repaired.
StartRunUnrepaired ==
  /\ engine.at = "starting"
  /\ run = NoRun
  /\ Candidate >= checkpoint.committed
  /\ run' = [kind |-> engine.kind, candidate |-> Candidate]
  /\ jobs' = <<>>
  /\ engine' = [engine EXCEPT !.at = "enqueuing", !.candidate = 0]
  /\ UNCHANGED <<world, counted, catalog, checkpoint, unmanifested>>

StartRun ==
  /\ engine.at = "starting" /\ unmanifested = 0
  /\ run = NoRun
  /\ Candidate >= checkpoint.committed
  /\ run' = [kind |-> engine.kind, candidate |-> Candidate]
  /\ jobs' = <<>>
  /\ engine' = [engine EXCEPT !.at = "enqueuing", !.candidate = 0]
  /\ UNCHANGED <<world, counted, catalog, checkpoint, unmanifested>>

\* Mutant: a resumed run commits the clock of the call that resumed it.
ResumeWithNewCandidate ==
  /\ engine.at = "starting" /\ unmanifested = 0
  /\ run.kind = engine.kind
  /\ run' = [run EXCEPT !.candidate = Candidate]
  /\ jobs' = [i \in DOMAIN jobs |->
                IF jobs[i].state \in {"running", "retryable"}
                THEN [jobs[i] EXCEPT !.state = "queued"] ELSE jobs[i]]
  /\ engine' = [engine EXCEPT !.at = "enqueuing", !.candidate = 0]
  /\ UNCHANGED <<world, counted, catalog, checkpoint, unmanifested>>

\* Mutant: the job a killed engine had claimed stays claimed.
ResumeFailedJobsOnly ==
  /\ engine.at = "starting" /\ unmanifested = 0
  /\ run.kind = engine.kind
  /\ jobs' = [i \in DOMAIN jobs |->
                IF jobs[i].state = "retryable"
                THEN [jobs[i] EXCEPT !.state = "queued"] ELSE jobs[i]]
  /\ engine' = [engine EXCEPT !.at = "enqueuing", !.candidate = 0]
  /\ UNCHANGED <<world, counted, catalog, run, checkpoint, unmanifested>>

\* An interrupted run of the same kind is resumed with its own candidate.
ResumeRun ==
  /\ engine.at = "starting" /\ unmanifested = 0
  /\ run.kind = engine.kind
  /\ jobs' = [i \in DOMAIN jobs |->
                IF jobs[i].state \in {"running", "retryable"}
                THEN [jobs[i] EXCEPT !.state = "queued"] ELSE jobs[i]]
  /\ engine' = [engine EXCEPT !.at = "enqueuing", !.candidate = 0]
  /\ UNCHANGED <<world, counted, catalog, run, checkpoint, unmanifested>>

\* SyncScopeBusy: a run of the other kind is unfinished.
RefuseRun ==
  /\ engine.at = "starting" /\ unmanifested = 0
  /\ run # NoRun /\ run.kind # engine.kind
  /\ engine' = Idle
  /\ UNCHANGED <<world, counted, catalog, rows>>

Selected == IF engine.kind = "bootstrap" THEN Members ELSE tracked
JobPages == {jobs[i].page : i \in DOMAIN jobs}

\* Mutant: a job that is there is enqueued once more.
EnqueueAgain ==
  /\ engine.at = "enqueuing"
  /\ Selected # {}
  /\ jobs' = Append(jobs, [page |-> Min(Selected), state |-> "queued", seen |-> 0])
  /\ UNCHANGED <<world, counted, catalog, run, checkpoint, unmanifested, engine>>

\* Jobs are enqueued in page order, each in a transaction of its own; one
\* that is there already is left alone.
Enqueue ==
  /\ engine.at = "enqueuing"
  /\ Selected \ JobPages # {}
  /\ jobs' = Append(jobs, [page |-> Min(Selected \ JobPages), state |-> "queued", seen |-> 0])
  /\ UNCHANGED <<world, counted, catalog, run, checkpoint, unmanifested, engine>>

\* Mutant: a resumed run trusts the jobs it finds.
EnqueueNewRunsOnly ==
  /\ engine.at = "enqueuing"
  /\ jobs # <<>> \/ Selected = {}
  /\ Goto("claiming")
  /\ UNCHANGED <<world, counted, catalog, rows>>

Enqueued ==
  /\ engine.at = "enqueuing"
  /\ Selected \subseteq JobPages
  /\ Goto("claiming")
  /\ UNCHANGED <<world, counted, catalog, rows>>

Queued == {i \in DOMAIN jobs : jobs[i].state = "queued"}

Claim ==
  /\ engine.at = "claiming"
  /\ Queued # {}
  /\ jobs' = [jobs EXCEPT ![Min(Queued)].state = "running"]
  /\ engine' = [engine EXCEPT !.at = "looking", !.job = Min(Queued), !.seen = 0]
  /\ UNCHANGED <<world, counted, catalog, run, checkpoint, unmanifested>>

NoMoreJobs ==
  /\ engine.at = "claiming"
  /\ Queued = {}
  /\ Goto("finishing")
  /\ UNCHANGED <<world, counted, catalog, rows>>

-----------------------------------------------------------------------------
(* One page job.                                                           *)

page == jobs[engine.job].page
Valid == engine.kind = "reconciliation" \/ page \in Members

\* resolve_page_head, the only moment the job looks at the wiki's head.
LookFound ==
  /\ engine.at = "looking" /\ Valid /\ page \in exists
  /\ engine' = [engine EXCEPT !.at = "capturing", !.seen = NewestEdit(page)]
  /\ UNCHANGED <<world, counted, catalog, rows>>

\* A bootstrap passes over a page that is missing, a reconciliation marks it.
LookMissing ==
  /\ engine.at = "looking" /\ Valid /\ page \notin exists
  /\ \/ engine.kind = "bootstrap" /\ UNCHANGED gone
     \/ engine.kind = "reconciliation" /\ page \in tracked /\ gone' = gone \cup {page}
  /\ Goto("completing")
  /\ UNCHANGED <<world, counted, member, tracked, durable, current, rows>>

\* capture_current_revision: content, head and selection in one transaction.
CaptureHead ==
  /\ engine.at = "capturing" /\ engine.kind = "bootstrap"
  /\ durable' = [durable EXCEPT ![page] = Max({@, engine.seen})]
  /\ current' = [current EXCEPT ![page] = Max({@, engine.seen})]
  /\ gone' = IF engine.seen >= current[page] THEN gone \ {page} ELSE gone
  /\ tracked' = tracked \cup {page}
  /\ Goto("completing")
  /\ UNCHANGED <<world, counted, member, rows>>

\* Mutant: the wiki's head is compared with the newest captured revision and
\* not with the stored head.
CaptureGapByTip ==
  /\ engine.at = "capturing" /\ engine.kind = "reconciliation"
  /\ durable' = [durable EXCEPT ![page] = Max({@, engine.seen})]
  /\ Goto(IF durable[page] = engine.seen THEN "completing" ELSE "advancing")
  /\ UNCHANGED <<world, counted, member, tracked, current, gone, rows>>

\* stream_forward_gap, to its end.
CaptureGap ==
  /\ engine.at = "capturing" /\ engine.kind = "reconciliation"
  /\ durable' = [durable EXCEPT ![page] = Max({@, engine.seen})]
  /\ Goto("advancing")
  /\ UNCHANGED <<world, counted, member, tracked, current, gone, rows>>

\* reconcile_current_revision.
AdvanceHead ==
  /\ engine.at = "advancing" /\ page \in tracked
  /\ current' = [current EXCEPT ![page] = engine.seen]
  /\ gone' = gone \ {page}
  /\ Goto("completing")
  /\ UNCHANGED <<world, counted, member, tracked, durable, rows>>

CompleteJob ==
  /\ engine.at = "completing"
  /\ jobs' = [jobs EXCEPT ![engine.job].state = "succeeded",
                         ![engine.job].seen = engine.seen]
  /\ engine' = [engine EXCEPT !.at = "claiming", !.job = 0, !.seen = 0]
  /\ UNCHANGED <<world, counted, catalog, run, checkpoint, unmanifested>>

\* fail_sync_job; a failure that is not retryable goes on to cancel the run,
\* in a transaction of its own.
FailJob(retryable) ==
  /\ jobs' = [jobs EXCEPT ![engine.job].state = IF retryable THEN "retryable" ELSE "failed"]
  /\ engine' = IF retryable THEN Idle ELSE [engine EXCEPT !.at = "cancelling"]
  /\ UNCHANGED <<world, catalog, run, checkpoint, unmanifested>>

\* The wiki, the network, the disk or the search index fails the job.
Fail(retryable) ==
  /\ engine.at \in {"looking", "capturing", "advancing", "completing"}
  /\ retryable \/ engine.at \in {"looking", "capturing"} \/ engine.kind = "bootstrap"
  /\ failures < MaxFailures
  /\ failures' = failures + 1
  /\ FailJob(retryable)
  /\ UNCHANGED <<changes, stops>>

\* InvalidBootstrapJob: the page left the selection since it was enqueued.
FailBootstrapOfRemoved ==
  /\ engine.at = "looking" /\ ~Valid
  /\ FailJob(FALSE)
  /\ UNCHANGED counted

\* PageNotFound, a store error and so retryable: the same, for mark_page_missing
\* and reconcile_current_revision.
FailReconciliationOfRemoved ==
  /\ engine.kind = "reconciliation"
  /\ \/ engine.at = "advancing" /\ page \notin tracked
     \/ engine.at = "looking" /\ page \notin tracked \cup exists
  /\ FailJob(TRUE)
  /\ UNCHANGED counted

-----------------------------------------------------------------------------
(* The end of a run.                                                       *)

CancelRun ==
  /\ engine.at = "cancelling"
  /\ run' = NoRun /\ jobs' = <<>>
  /\ engine' = Idle
  /\ UNCHANGED <<world, counted, catalog, checkpoint, unmanifested>>

AllSucceeded == \A i \in DOMAIN jobs : jobs[i].state = "succeeded"

\* complete_sync_run.
FinishRun ==
  /\ engine.at = "finishing" /\ AllSucceeded
  /\ checkpoint' = [committed |-> Max({checkpoint.committed, run.candidate}),
                    hasRun |-> TRUE]
  /\ run' = NoRun /\ jobs' = <<>>
  /\ unmanifested' = unmanifested + 1
  /\ engine' = [Idle EXCEPT !.at = "recording"]
  /\ UNCHANGED <<world, counted, catalog>>

\* IncompleteSyncRun.
RefuseFinish ==
  /\ engine.at = "finishing" /\ ~AllSucceeded
  /\ engine' = Idle
  /\ UNCHANGED <<world, counted, catalog, rows>>

AppendManifest ==
  /\ engine.at = "recording"
  /\ unmanifested' = unmanifested - 1
  /\ engine' = Idle
  /\ UNCHANGED <<world, counted, catalog, run, jobs, checkpoint>>

\* The process is killed, is asked to shut down, or fails outside a job.
Stop ==
  /\ engine.at # "idle"
  /\ stops < MaxStops
  /\ stops' = stops + 1
  /\ engine' = Idle
  /\ UNCHANGED <<world, changes, failures, catalog, rows>>

-----------------------------------------------------------------------------
World ==
  \/ Tick
  \/ \E p \in Page : EditPage(p) \/ Restore(p) \/ Delete(p) \/ Recategorize(p)
  \/ \E S \in SUBSET Page : EditSelection(S)

EngineStep ==
  \/ Resolve \/ RepairManifest \/ StartRun \/ ResumeRun \/ RefuseRun
  \/ Enqueue \/ Enqueued \/ Claim \/ NoMoreJobs
  \/ LookFound \/ LookMissing \/ CaptureHead \/ CaptureGap \/ AdvanceHead
  \/ CompleteJob \/ FailBootstrapOfRemoved \/ FailReconciliationOfRemoved
  \/ CancelRun \/ FinishRun \/ RefuseFinish \/ AppendManifest

Next ==
  \/ World \/ EngineStep \/ StartSync \/ StartUpdate
  \/ Stop \/ \E retryable \in BOOLEAN : Fail(retryable)

\* The daemon polls for ever: it resumes an unfinished reconciliation after a
\* delay and starts every due schedule; a call it started runs on.
Spec == Init /\ [][Next]_vars /\ WF_vars(EngineStep) /\ WF_vars(StartSync)
-----------------------------------------------------------------------------
(* Properties.                                                             *)

\* The head a reader is shown is a revision that was captured, and only pages
\* of the active selection that have a head are synchronized.  Head and
\* revisions are written by different transactions, selection and pages by
\* different calls, with a kill possible between any two of them.
ShownHeadsDurable ==
  /\ \A p \in Page : current[p] <= durable[p]
  /\ \A p \in tracked : current[p] # 0 /\ member[p] = "active"

\* A successful job of page p, whenever it ran and however often the run was
\* interrupted, saw every revision made before second t and left it captured.
Covers(job, t) ==
  \/ job.seen = 0
  \/ \A e \in edits[job.page] : e < t => e <= durable[job.page] /\ e <= current[job.page]

\* "A checkpoint never advances beyond durable source content": when a run
\* commits, every page it is about has a job that covers it up to the new
\* checkpoint (complete_sync_run, after any number of resumptions, moved
\* heads and changes of the selection).
CheckpointBehindContent ==
  [][checkpoint' # checkpoint =>
       \A p \in Selected : \E i \in DOMAIN jobs :
          /\ jobs[i].page = p /\ jobs[i].state = "succeeded"
          /\ Covers(jobs[i], checkpoint'.committed)]_vars

\* The manifest chain is at most one run behind the runs: a run that was
\* killed before its manifest is repaired before another run starts.
AtMostOneUnmanifested == unmanifested <= 1 /\ (run # NoRun => unmanifested = 0)

\* A job that left the run in a state no later call changes.
Stuck ==
  \/ \E i \in DOMAIN jobs : jobs[i].state = "failed" /\ engine.at # "cancelling"
  \/ run.kind = "reconciliation" /\ \E i \in DOMAIN jobs : jobs[i].page \notin tracked

\* Once requests stop failing and the engine stops being killed, an
\* interrupted run ends, except in the two cases of Stuck.
RunEndsUnlessStuck == (run # NoRun) ~> (run = NoRun \/ Stuck)

\* "Durable run/job records and checkpoints make interrupted work resumable"
\* (service-management.md): an unfinished run does not stay unfinished.
RunEnds == (run # NoRun) ~> (run = NoRun)

\* A tracked page that stops moving upstream is caught up with or marked
\* missing, whatever was interrupted on the way.
HeadsCatchUp ==
  \A p \in Page :
    (p \in tracked) ~> \/ p \notin tracked
                       \/ p \in gone
                       \/ Stuck
                       \/ p \in exists /\ current[p] = NewestEdit(p)

\* "Routine sync downloads content only for newly selected pages and missing
\* revisions of changed selected pages" (IMPLEMENTATION_PLAN.md): a run that
\* succeeds leaves no page of the selection that exists uncaptured.
SelectionCaptured ==
  engine.at = "recording" => \A p \in Members \cap exists : durable[p] # 0
=============================================================================
