---------------------------- MODULE PageHistory ----------------------------
(***************************************************************************)
(* The revisions of one page: what a bootstrap job and a reconciliation    *)
(* job of wikisync-sync request and capture while the page keeps being     *)
(* edited, for the collections that select it, each with its own           *)
(* HistoryPolicy.                                                          *)
(*                                                                         *)
(* Revision r of the page has parent r - 1, and revision numbers stand for *)
(* timestamps as well; the wiki deletes none.  Runs, checkpoints and the   *)
(* selection are in SyncRuns: here a collection has been bootstrapped or   *)
(* it has not, and an attempt at a job succeeds or is abandoned.           *)
(***************************************************************************)
EXTENDS Naturals

CONSTANTS
  Collection, NoCollection,
  Policies,     \* the HistoryPolicy values a collection may have
  RevisionLimit,   \* ReconciliationLimits::max_revisions_per_page
  MaxRevision,  \* bound: edits
  MaxStops      \* bound: abandoned attempts

Policy == [kind : {"current", "complete"}, n : {0}]
            \cup [kind : {"last", "since"}, n : Nat \ {0}]

ASSUME PageHistoryAssumption ==
  /\ NoCollection \notin Collection
  /\ Policies \subseteq Policy
  /\ RevisionLimit \in Nat \ {0}
  /\ MaxRevision \in Nat \ {0} /\ MaxStops \in Nat

VARIABLES
  upstream,  \* newest revision on the wiki
  policy,    \* per collection, collection_configuration.history_kind and value
  have,      \* rows of revisions
  current,   \* pages.current_revision_id, 0 = no row
  base,      \* per collection, the oldest revision its bootstrap selected, 0 =
             \* not bootstrapped
  job,       \* the attempt in progress: its program counter and locals
  stops

vars == <<upstream, policy, have, current, base, job, stops>>

Revision == 1 .. MaxRevision
Idle == [at |-> "idle", of |-> NoCollection, head |-> 0, top |-> 0, next |-> 0]
Steps == {"idle", "capturing", "listing", "filling", "completing", "streaming", "advancing"}

TypeOK ==
  /\ upstream \in Revision
  /\ policy \in [Collection -> Policies]
  /\ have \subseteq Revision
  /\ current \in 0 .. MaxRevision
  /\ base \in [Collection -> Nat]
  /\ job \in [at : Steps, of : Collection \cup {NoCollection}, head : 0 .. MaxRevision,
              top : 0 .. MaxRevision, next : 0 .. MaxRevision]
  /\ stops \in 0 .. MaxStops

Init ==
  /\ upstream = 1
  /\ policy \in [Collection -> Policies]
  /\ have = {} /\ current = 0
  /\ base = [c \in Collection |-> 0]
  /\ job = Idle
  /\ stops = 0

Edit ==
  /\ upstream < MaxRevision
  /\ upstream' = upstream + 1
  /\ UNCHANGED <<policy, have, current, base, job, stops>>

-----------------------------------------------------------------------------
(* The bootstrap job: the head first, then history, newest first.          *)

\* resolve_page_head.
StartBootstrap(c) ==
  /\ job = Idle /\ base[c] = 0
  /\ job' = [at |-> "capturing", of |-> c, head |-> upstream, top |-> 0, next |-> 0]
  /\ UNCHANGED <<upstream, policy, have, current, base, stops>>

\* capture_current_revision; an older head does not replace the stored one.
CaptureHead ==
  /\ job.at = "capturing"
  /\ have' = have \cup {job.head}
  /\ current' = IF job.head >= current THEN job.head ELSE current
  /\ job' = [job EXCEPT !.at = IF policy[job.of].kind = "current"
                               THEN "completing" ELSE "listing"]
  /\ UNCHANGED <<upstream, policy, base, stops>>

\* The first batch of revisions; what is below it no longer changes, so the
\* later batches are a matter of paging.
ListHistory ==
  /\ job.at = "listing"
  /\ job' = [job EXCEPT !.at = "filling", !.top = upstream, !.next = upstream]
  /\ UNCHANGED <<upstream, policy, have, current, base, stops>>

\* The filter of capture_revision_history_with_policy on the revision that is
\* next, top - next of them having been selected.
Included(p) ==
  \/ p.kind = "last" /\ job.top - job.next < p.n
  \/ p.kind = "since" /\ job.next >= p.n
  \/ p.kind = "complete"

\* Mutant: history stops at the first revision that is there already.
CaptureOlderUntilKnown ==
  /\ job.at = "filling"
  /\ job.next # 0 /\ Included(policy[job.of])
  /\ have' = have \cup {job.next}
  /\ job' = [job EXCEPT !.next = IF @ \in have /\ @ # job.head THEN 0 ELSE @ - 1]
  /\ UNCHANGED <<upstream, policy, current, base, stops>>

CaptureOlder ==
  /\ job.at = "filling"
  /\ job.next # 0 /\ Included(policy[job.of])
  /\ have' = have \cup {job.next}
  /\ job' = [job EXCEPT !.next = @ - 1]
  /\ UNCHANGED <<upstream, policy, current, base, stops>>

HistoryFilled ==
  /\ job.at = "filling"
  /\ job.next = 0 \/ ~Included(policy[job.of])
  /\ job' = [job EXCEPT !.at = "completing"]
  /\ UNCHANGED <<upstream, policy, have, current, base, stops>>

\* The oldest revision a policy promises, as HistoryPolicy describes it.
Oldest(p, head, top) ==
  CASE p.kind = "current" -> head
    [] p.kind = "last" -> IF p.n < top THEN top - p.n + 1 ELSE 1
    [] p.kind = "since" -> p.n
    [] p.kind = "complete" -> 1

CompleteBootstrap ==
  /\ job.at = "completing"
  /\ base' = [base EXCEPT ![job.of] = Oldest(policy[job.of], job.head, job.top)]
  /\ job' = Idle
  /\ UNCHANGED <<upstream, policy, have, current, stops>>

-----------------------------------------------------------------------------
(* The reconciliation job: forward from the newest captured revision.      *)

\* Mutant: history is continued from the stored head.
StoredHead == {t \in have : t = current}

\* newest_revision_for_page.
Tips == {t \in have : \A r \in have : r <= t}

\* resolve_page_head, and the anchor of stream_forward_gap when the head
\* differs from the stored one.
StartReconcile(c) ==
  /\ job = Idle /\ base[c] # 0
  /\ \E tip \in Tips :
       job' = [at |-> IF upstream \in {current, tip} THEN "advancing" ELSE "streaming",
               of |-> c, head |-> upstream, top |-> tip, next |-> tip]
  /\ UNCHANGED <<upstream, policy, have, current, base, stops>>

\* Each revision after the tip, oldest first; the limit counts those that
\* turn out to be there already.
CaptureNewer ==
  /\ job.at = "streaming"
  /\ job.next < job.head
  /\ job.next - job.top < RevisionLimit
  /\ have' = have \cup {job.next + 1}
  /\ job' = [job EXCEPT !.next = @ + 1,
                        !.at = IF job.next + 1 = job.head THEN "advancing" ELSE @]
  /\ UNCHANGED <<upstream, policy, current, base, stops>>

\* ReconciliationLimitExceeded ends the attempt and keeps what it captured.
ExceedLimit ==
  /\ job.at = "streaming"
  /\ job.next < job.head
  /\ job.next - job.top = RevisionLimit
  /\ job' = Idle
  /\ UNCHANGED <<upstream, policy, have, current, base, stops>>

\* reconcile_current_revision; the index and the job row follow.
AdvanceHead ==
  /\ job.at = "advancing"
  /\ current' = job.head
  /\ job' = Idle
  /\ UNCHANGED <<upstream, policy, have, base, stops>>

-----------------------------------------------------------------------------
\* A request fails, the process is killed or is asked to shut down.
Abandon ==
  /\ job # Idle
  /\ stops < MaxStops
  /\ stops' = stops + 1
  /\ job' = Idle
  /\ UNCHANGED <<upstream, policy, have, current, base>>

JobStep ==
  \/ CaptureHead \/ ListHistory \/ CaptureOlder \/ HistoryFilled \/ CompleteBootstrap
  \/ CaptureNewer \/ ExceedLimit \/ AdvanceHead

Next ==
  \/ Edit \/ JobStep \/ Abandon
  \/ \E c \in Collection : StartBootstrap(c) \/ StartReconcile(c)

\* The daemon starts every due synchronization and resumes unfinished ones.
Fairness ==
  /\ WF_vars(JobStep)
  /\ WF_vars(\E c \in Collection : StartBootstrap(c) \/ StartReconcile(c))

Spec == Init /\ [][Next]_vars /\ Fairness

-----------------------------------------------------------------------------
(* Properties.                                                             *)

\* "and every future revision" (HistoryPolicy): from the oldest revision a
\* collection's bootstrap selected up to the head it shows there is no gap,
\* whatever was edited between the requests, wherever attempts stopped, and
\* although a bootstrap captures the newest revision first.
NoGap ==
  \A c \in Collection : base[c] # 0 => \A r \in base[c] .. current : r \in have

\* Once edits and failures stop the newest revision is shown, although each
\* attempt may capture only RevisionLimit revisions.
CatchesUp == <>[](current = upstream)
=============================================================================
