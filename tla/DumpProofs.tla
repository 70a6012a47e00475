----------------------------- MODULE DumpProofs -----------------------------
(***************************************************************************)
(* Imports of dumps, the cache of their files, and whole editions, for any *)
(* dump, selection, number of edits, calls, kills and power failures.      *)
(*                                                                         *)
(* ImportInv adds to ImportMissesNothing how far the pages read over are   *)
(* captured in each step of the engine (ReadOver), and that a job which    *)
(* has looked at the wiki did so after the run began, with a job for every *)
(* member once the import is complete (ClosedSince).                       *)
(*                                                                         *)
(* PublishedIsWhole is not inductive: it is true of what a call has yet to *)
(* check.  CacheInv adds what a call knows of its file under the lock      *)
(* (Knows, OneHolder), that the published file is flushed and its name the *)
(* durable one or none is (PublishedFlushed), and that while calls are     *)
(* under way the published file is the edition they want, and before there *)
(* is one the part's name is the file they hold (UnderWay): the link is    *)
(* made from that name, not from the file that was checked.                *)
(*                                                                         *)
(* CheckpointCovers says what a checkpoint promises; EditionInv says why a *)
(* run may set it: nothing the wiki lists of the time before the old one   *)
(* is left to apply (Known), what is pending is newer than all that was    *)
(* applied (Ordered), also over runs that were given up (Closed), an       *)
(* article is here as it was at every change applied to it (ChangesShown)  *)
(* and, where nothing has changed it since the dump, as the dump has it    *)
(* (DumpShown).  Once an import that nothing called for has been given up, *)
(* what is pending may be older: ChangesShown then excepts the articles    *)
(* overtaken.                                                              *)
(***************************************************************************)
EXTENDS DumpImport, DumpCache, WholeEdition, WellFoundedInduction, TLAPS

Owners == [state : {"none", "running", "succeeded", "cancelled"}, since : [Selected -> Nat]]
Imports == [state : {"none", "running", "failed", "succeeded"}, retryable : BOOLEAN, cursor : Nat]
Engines == [phase : DumpPhases, part : Nat, page : Nat]
ImportTypes ==
  /\ live \in [Selected -> Nat \ {0}] /\ shown \in [Selected -> Nat] /\ indexed \in [Selected -> Nat]
  /\ owner \in Owners /\ dump \in Imports /\ engine \in Engines
  /\ jobs \in [Selected -> JobStates]
Reading == {"scan", "index", "record", "enqueue"}
Captured(p) == shown[p] # NoRevision /\ indexed[p] # NoRevision
\* The pages the engine has read over, also those an earlier call captured.
ReadOver ==
  /\ \A p \in Selected : p <= dump.cursor => Captured(p)
  /\ engine.phase \in {"scan", "record"} => \A p \in Selected : p <= engine.page => Captured(p)
  /\ engine.phase = "index" =>
       /\ engine.page \in Selected /\ shown[engine.page] # NoRevision
       /\ \A p \in Selected : p < engine.page => Captured(p)
  /\ engine.phase = "record" => engine.page \in Selected
\* A job that has compared its page with the wiki did so after the run began,
\* and an import that is complete had a job for every member.
ClosedSince ==
  /\ \A p \in Selected : shown[p] <= live[p] /\ owner.since[p] <= live[p]
  /\ \A p \in Selected : jobs[p] \in {"running", "succeeded"} => shown[p] >= owner.since[p]
  /\ engine.phase = "close" \/ dump.state = "succeeded" => \A p \in Selected : jobs[p] # "none"
  /\ engine.phase # "idle" => owner.state = "running"
  /\ engine.phase \in Reading => dump.state = "running"
ImportInv == ImportTypes /\ ReadOver /\ ClosedSince /\ SuccessClosesRace

LEMMA ImportInvInit == DumpInit => ImportInv
<1> SUFFICES ASSUME DumpInit PROVE ImportInv
  OBVIOUS
<1>1. ImportTypes
  BY DEF DumpInit, ImportTypes, Owners, Imports, Engines, NoDumpImport, Resting, DumpPhases, JobStates, NoRevision
<1>2. ReadOver
  BY DumpAssumption DEF DumpInit, ReadOver, NoDumpImport, Resting
<1>3. ClosedSince /\ SuccessClosesRace
  BY DEF DumpInit, ClosedSince, Reading, SuccessClosesRace, NoDumpImport, Resting, NoRevision
<1> QED
  BY <1>1, <1>2, <1>3 DEF ImportInv

\* What is captured stays captured, and is never shown older.
Forward == \A p \in Selected : shown'[p] >= shown[p] /\ (Captured(p) => Captured(p)')

LEMMA Unmoved ==
  ASSUME ImportInv, UNCHANGED <<shown, indexed>>
  PROVE  Forward /\ \A p \in Selected : shown'[p] <= live[p] /\ (Captured(p) <=> Captured(p)')
<1>1. \A p \in Selected : shown[p] \in Nat /\ shown[p] <= live[p]
  BY DEF ImportInv, ImportTypes, ClosedSince
<1> QED
  BY <1>1 DEF Forward, Captured

LEMMA EditLiveKeeps == ASSUME ImportInv, NEW p \in Selected, EditLive(p) PROVE ImportInv'
<1>1. ImportTypes'
  BY DEF ImportInv, ImportTypes, EditLive
<1>2. \A q \in Selected : live'[q] >= live[q]
  BY DEF ImportInv, ImportTypes, EditLive
<1>3. UNCHANGED <<shown, indexed, owner, dump, jobs, engine>>
  BY DEF EditLive
<1>4. ReadOver' /\ SuccessClosesRace'
  BY <1>3 DEF ImportInv, ReadOver, SuccessClosesRace, Captured
<1>5. ClosedSince'
  <2>1. \A q \in Selected : shown'[q] <= live'[q] /\ owner'.since[q] <= live'[q]
    BY <1>1, <1>2, <1>3 DEF ImportInv, ImportTypes, ClosedSince, Owners
  <2> QED
    BY <1>3, <2>1 DEF ImportInv, ClosedSince
<1> QED
  BY <1>1, <1>4, <1>5 DEF ImportInv

LEMMA StartImportKeeps == ASSUME ImportInv, StartImport PROVE ImportInv'
<1>1. ImportTypes /\ Resting.phase = "idle" /\ Resting.page = 0
      /\ engine' = [phase |-> "claim", part |-> 0, page |-> 0]
      /\ engine.phase = "idle" /\ UNCHANGED <<live, shown, indexed>>
  BY DEF StartImport, ImportInv, Resting
<1>2. CASE owner.state = "running"
  <2>1. /\ jobs' = [p \in Selected |-> IF jobs[p] \in {"running", "failed"} THEN "queued" ELSE jobs[p]]
        /\ UNCHANGED <<owner, dump>>
    BY <1>2 DEF StartImport, StartOrResumeRun
  <2>2. ImportTypes'
    BY <1>1, <2>1 DEF ImportTypes, Engines, DumpPhases, JobStates
  <2> QED
    BY <1>1, <1>2, <2>1, <2>2 DEF ImportInv, ReadOver, ClosedSince, SuccessClosesRace, Captured, Reading
<1>3. CASE owner.state # "running"
  <2>1. /\ owner' = [state |-> "running", since |-> live]
        /\ dump' = NoDumpImport /\ jobs' = [p \in Selected |-> "none"]
    BY <1>3 DEF StartImport, StartOrResumeRun
  <2>2. ImportTypes'
    BY <1>1, <2>1 DEF ImportTypes, Owners, Imports, NoDumpImport, Engines, DumpPhases, JobStates
  <2>3. owner'.state = "running" /\ owner'.since = live /\ dump'.cursor = 0 /\ dump'.state = "none"
        /\ engine'.phase = "claim" /\ engine'.phase \notin Reading
    BY <1>1, <2>1 DEF NoDumpImport, Reading
  <2>4. ReadOver'
    BY <2>3, DumpAssumption DEF ReadOver
  <2>5. ClosedSince'
    <3>1. \A p \in Selected : shown'[p] <= live'[p] /\ owner'.since[p] <= live'[p]
      BY <1>1, <2>3 DEF ImportInv, ImportTypes, ClosedSince
    <3> QED
      BY <2>1, <2>3, <3>1 DEF ClosedSince
  <2> QED
    BY <2>2, <2>3, <2>4, <2>5 DEF ImportInv, SuccessClosesRace
<1> QED
  BY <1>2, <1>3

\* Steps that move the engine, the cursor and the state of the run: what the
\* cursor passes is captured, and nothing is closed that was not.
LEMMA EngineMoves ==
  ASSUME ImportInv, engine.phase # "idle", ImportTypes', Forward,
         \A p \in Selected : shown'[p] <= live[p], UNCHANGED <<live, jobs>>, owner'.since = owner.since,
         owner'.state \in {"running", "cancelled"}, engine'.phase # "idle" => owner'.state = "running",
         \A p \in Selected : p <= dump'.cursor => Captured(p)',
         engine'.phase \in {"scan", "record"} => \A p \in Selected : p <= engine'.page => Captured(p)',
         engine'.phase = "index" => /\ engine'.page \in Selected /\ shown'[engine'.page] # NoRevision
                                    /\ \A p \in Selected : p < engine'.page => Captured(p)',
         engine'.phase = "record" => engine'.page \in Selected,
         engine'.phase = "close" \/ dump'.state = "succeeded" => engine.phase = "close" \/ dump.state = "succeeded",
         engine'.phase \in Reading => dump'.state = "running"
  PROVE  ImportInv'
<1>1. ReadOver'
  BY DEF ReadOver
<1>2. ClosedSince'
  <2>1. \A p \in Selected : shown'[p] <= live'[p] /\ owner'.since[p] <= live'[p]
    BY DEF ImportInv, ClosedSince
  <2>2. \A p \in Selected : jobs'[p] \in {"running", "succeeded"} => shown'[p] >= owner'.since[p]
    BY DEF ImportInv, ImportTypes, Owners, ClosedSince, Forward
  <2> QED
    BY <2>1, <2>2 DEF ImportInv, ClosedSince
<1> QED
  BY <1>1, <1>2 DEF ImportInv, SuccessClosesRace

\* Progress is recorded up to n, or is behind the cursor and fails the run.
LEMMA AdvanceKeeps ==
  ASSUME ImportInv, engine.phase # "idle", NEW n \in Nat, NEW next \in Engines, AdvanceTo(n, next),
         UNCHANGED <<live, shown, indexed, jobs>>,
         \A p \in Selected : p <= n => Captured(p),
         next.phase \in {"scan", "enqueue"}, next.phase = "scan" => next.page = n,
         dump.state = "running"
  PROVE  ImportInv'
<1>1. ImportTypes /\ dump \in Imports /\ owner \in Owners
  BY DEF ImportInv, ImportTypes
<1>2. Forward /\ \A p \in Selected : shown'[p] <= live[p] /\ (Captured(p) <=> Captured(p)')
  BY Unmoved
<1>3. CASE n < dump.cursor
  <2>1. /\ dump' = [dump EXCEPT !.state = "failed", !.retryable = FALSE]
        /\ owner' = [owner EXCEPT !.state = "cancelled"] /\ engine' = Resting
    BY <1>3 DEF AdvanceTo, Failed
  <2>2. /\ dump' \in Imports /\ dump'.cursor = dump.cursor /\ dump'.state = "failed"
        /\ owner' \in Owners /\ owner'.since = owner.since /\ owner'.state = "cancelled"
    BY <1>1, <2>1 DEF Imports, Owners
  <2>3. engine' \in Engines /\ engine'.phase = "idle" /\ engine'.phase \notin Reading
    BY <2>1 DEF Resting, Engines, DumpPhases, Reading
  <2>4. ImportTypes'
    BY <1>1, <2>2, <2>3 DEF ImportTypes
  <2>5. \A p \in Selected : p <= dump'.cursor => Captured(p)'
    BY <1>2, <2>2 DEF ImportInv, ReadOver
  <2> QED
    BY <1>2, <2>2, <2>3, <2>4, <2>5, EngineMoves
<1>4. CASE ~ (n < dump.cursor)
  <2>1. dump' = [dump EXCEPT !.cursor = n] /\ engine' = next /\ owner' = owner
    BY <1>4 DEF AdvanceTo
  <2>2. dump' \in Imports /\ dump'.cursor = n /\ dump'.state = dump.state
    BY <1>1, <2>1 DEF Imports
  <2>3. ImportTypes'
    BY <1>1, <2>1, <2>2 DEF ImportTypes
  <2>4. owner'.state = "running"
    BY <2>1 DEF ImportInv, ClosedSince
  <2> QED
    BY <1>2, <2>1, <2>2, <2>3, <2>4, EngineMoves
<1> QED
  BY <1>3, <1>4

LEMMA ClaimKeeps == ASSUME ImportInv, ClaimDumpImport PROVE ImportInv'
<1>1. ImportTypes /\ dump \in Imports /\ engine \in Engines /\ engine.phase = "claim"
      /\ UNCHANGED <<live, shown, indexed, owner, jobs>>
  BY DEF ImportInv, ImportTypes, ClaimDumpImport
<1>2. /\ Forward /\ owner'.state = "running"
      /\ \A p \in Selected : shown'[p] <= live[p] /\ (Captured(p) <=> Captured(p)')
  BY <1>1, Unmoved DEF ImportInv, ClosedSince
<1>3. CASE dump.state = "succeeded"
  <2>1. engine' = [engine EXCEPT !.phase = "verify"] /\ dump' = dump
    BY <1>3 DEF ClaimDumpImport
  <2>2. engine' \in Engines /\ engine'.phase = "verify" /\ engine'.phase \notin Reading
    BY <1>1, <2>1 DEF Engines, DumpPhases, Reading
  <2>3. ImportTypes'
    BY <1>1, <2>1, <2>2 DEF ImportTypes
  <2>4. \A p \in Selected : p <= dump'.cursor => Captured(p)'
    BY <1>2, <2>1 DEF ImportInv, ReadOver
  <2> QED
    BY <1>1, <1>2, <1>3, <2>1, <2>2, <2>3, <2>4, EngineMoves
<1>4. CASE dump.state # "succeeded"
  <2>1. /\ dump' = [dump EXCEPT !.state = "running", !.retryable = TRUE]
        /\ engine' = [phase |-> "scan", part |-> 1, page |-> 0]
    BY <1>4 DEF ClaimDumpImport
  <2>2. engine' \in Engines /\ engine'.phase = "scan" /\ engine'.page = 0
    BY <2>1 DEF Engines, DumpPhases
  <2>3. dump' \in Imports /\ dump'.state = "running" /\ dump'.cursor = dump.cursor
    BY <1>1, <2>1 DEF Imports
  <2>4. ImportTypes'
    BY <1>1, <2>2, <2>3 DEF ImportTypes
  <2>5. \A p \in Selected : p <= dump'.cursor => Captured(p)'
    BY <1>2, <2>3 DEF ImportInv, ReadOver
  <2>6. \A p \in Selected : ~ (p <= engine'.page)
    BY <2>2, DumpAssumption
  <2> QED
    BY <1>1, <1>2, <2>2, <2>3, <2>4, <2>5, <2>6, EngineMoves
<1> QED
  BY <1>3, <1>4

\* A call that ends leaves nothing under way.
LEMMA CallEndsKeeps ==
  ASSUME ImportInv, engine.phase # "idle", engine' = Resting, UNCHANGED <<live, shown, indexed, jobs>>,
         owner' = owner \/ owner' = [owner EXCEPT !.state = "cancelled"],
         dump' = dump \/ \E r \in BOOLEAN : dump' = [dump EXCEPT !.state = "failed", !.retryable = r]
  PROVE  ImportInv'
<1>1. ImportTypes /\ dump \in Imports /\ owner \in Owners
  BY DEF ImportInv, ImportTypes
<1>2. /\ Forward /\ owner.state = "running"
      /\ \A p \in Selected : shown'[p] <= live[p] /\ (Captured(p) <=> Captured(p)')
  BY Unmoved DEF ImportInv, ClosedSince
<1>3. engine' \in Engines /\ engine'.phase = "idle" /\ engine'.phase \notin Reading
  BY DEF Resting, Engines, DumpPhases, Reading
<1>4. owner' \in Owners /\ owner'.since = owner.since /\ owner'.state \in {"running", "cancelled"}
  BY <1>1, <1>2 DEF Owners
<1>5. dump' \in Imports /\ dump'.cursor = dump.cursor /\ dump'.state \in {dump.state, "failed"}
  BY <1>1 DEF Imports
<1>6. ImportTypes'
  BY <1>1, <1>3, <1>4, <1>5 DEF ImportTypes
<1>7. \A p \in Selected : p <= dump'.cursor => Captured(p)'
  BY <1>2, <1>5 DEF ImportInv, ReadOver
<1> QED
  BY <1>2, <1>3, <1>4, <1>5, <1>6, <1>7, EngineMoves

LEMMA VerifyCompletedKeeps == ASSUME ImportInv, VerifyCompletedDump PROVE ImportInv'
<1>1. engine.phase = "verify" /\ UNCHANGED <<live, shown, indexed, dump, jobs>>
  BY DEF VerifyCompletedDump
<1>2. CASE CancelRun
  BY <1>1, <1>2, CallEndsKeeps DEF CancelRun
<1>3. CASE engine' = [engine EXCEPT !.phase = "finish"] /\ owner' = owner
  <2>1. ImportTypes /\ engine \in Engines
    BY DEF ImportInv, ImportTypes
  <2>2. engine' \in Engines /\ engine'.phase = "finish" /\ engine'.phase \notin Reading
    BY <1>3, <2>1 DEF Engines, DumpPhases, Reading
  <2>3. ImportTypes'
    BY <1>1, <1>3, <2>1, <2>2 DEF ImportTypes
  <2>4. /\ Forward /\ owner'.state = "running"
        /\ \A p \in Selected : shown'[p] <= live[p] /\ (Captured(p) <=> Captured(p)')
    BY <1>1, <1>3, Unmoved DEF ImportInv, ClosedSince
  <2>5. \A p \in Selected : p <= dump'.cursor => Captured(p)'
    BY <1>1, <2>4 DEF ImportInv, ReadOver
  <2> QED
    BY <1>1, <1>3, <2>2, <2>3, <2>4, <2>5, EngineMoves
<1> QED
  BY <1>2, <1>3 DEF VerifyCompletedDump

LEMMA ScanPageKeeps == ASSUME ImportInv, ScanPage PROVE ImportInv'
<1> DEFINE n == engine.page + 1
           next == [engine EXCEPT !.page = n]
<1>1. /\ ImportTypes /\ engine \in Engines /\ engine.phase = "scan" /\ dump.state = "running"
      /\ owner.state = "running" /\ UNCHANGED <<live, indexed, jobs>>
      /\ \A p \in Selected : p <= engine.page => Captured(p)
  BY DEF ScanPage, ImportInv, ImportTypes, ClosedSince, ReadOver, Reading
<1>2. /\ n \in Nat /\ next \in Engines /\ next.phase = "scan" /\ next.page = n
      /\ \A p \in Selected : p \in Nat /\ (p <= n <=> p <= engine.page \/ p = n)
      /\ \A p \in Selected : p < n <=> p <= engine.page
  <2>1. engine.page \in Nat /\ \A p \in Selected : p \in Nat
    BY <1>1, DumpAssumption DEF Engines
  <2>2. n \in Nat /\ next \in Engines /\ next.phase = "scan" /\ next.page = n
    BY <1>1, <2>1 DEF Engines
  <2> QED
    BY <2>1, <2>2
<1>3. \/ n <= dump.cursor /\ engine' = next /\ UNCHANGED <<shown, owner, dump>>
      \/ n > dump.cursor /\ n \notin Selected /\ AdvanceTo(n, next) /\ UNCHANGED shown
      \/ n > dump.cursor /\ n \in Selected /\ ImportDumpPage(n)
           /\ engine' = [next EXCEPT !.phase = "index"] /\ UNCHANGED <<owner, dump>>
  BY DEF ScanPage
<1> HIDE DEF n, next
<1>4. CASE n <= dump.cursor /\ engine' = next /\ UNCHANGED <<shown, owner, dump>>
  <2>1. ImportTypes'
    BY <1>1, <1>2, <1>4 DEF ImportTypes
  <2>2. Forward /\ \A p \in Selected : shown'[p] <= live[p] /\ (Captured(p) <=> Captured(p)')
    BY <1>1, <1>4, Unmoved
  <2>3. \A p \in Selected : p <= dump.cursor => Captured(p)
    BY DEF ImportInv, ReadOver
  <2>4. \A p \in Selected : p <= n => Captured(p)
    BY <1>1, <1>2, <1>4, <2>3
  <2> QED
    BY <1>1, <1>2, <1>4, <2>1, <2>2, <2>3, <2>4, EngineMoves
<1>5. CASE n > dump.cursor /\ n \notin Selected /\ AdvanceTo(n, next) /\ UNCHANGED shown
  <2>1. \A p \in Selected : p <= n => Captured(p)
    BY <1>1, <1>2, <1>5
  <2> QED
    BY <1>1, <1>2, <1>5, <2>1, AdvanceKeeps
<1>6. CASE n > dump.cursor /\ n \in Selected /\ ImportDumpPage(n)
             /\ engine' = [next EXCEPT !.phase = "index"] /\ UNCHANGED <<owner, dump>>
  <2>1. shown' = [shown EXCEPT ![n] = IF shown[n] < 1 THEN 1 ELSE shown[n]]
    BY <1>6 DEF ImportDumpPage
  <2>2. shown' \in [Selected -> Nat] /\ shown'[n] # NoRevision
        /\ \A p \in Selected : shown'[p] >= shown[p] /\ shown'[p] <= live[p]
    BY <1>1, <1>6, <2>1 DEF ImportTypes, ImportInv, ClosedSince, NoRevision
  <2>3. Forward
    BY <1>1, <2>2 DEF Forward, Captured, ImportTypes, NoRevision
  <2>4. engine' \in Engines /\ engine'.phase = "index" /\ engine'.page = n
    BY <1>2, <1>6 DEF Engines, DumpPhases
  <2>5. ImportTypes'
    BY <1>1, <1>6, <2>2, <2>4 DEF ImportTypes
  <2>6. \A p \in Selected : p <= dump'.cursor => Captured(p)'
    BY <1>6, <2>3 DEF ImportInv, ReadOver, Forward
  <2>7. \A p \in Selected : p < n => Captured(p)'
    BY <1>1, <1>2, <2>3 DEF Forward
  <2> QED
    BY <1>1, <1>6, <2>2, <2>3, <2>4, <2>5, <2>6, <2>7, EngineMoves
<1> QED
  BY <1>3, <1>4, <1>5, <1>6

LEMMA RefusePageKeeps == ASSUME ImportInv, RefusePage PROVE ImportInv'
<1>1. /\ engine.phase = "scan" /\ engine' = Resting /\ UNCHANGED <<live, shown, indexed, jobs>>
      /\ owner' = [owner EXCEPT !.state = "cancelled"]
      /\ dump' = [dump EXCEPT !.state = "failed", !.retryable = FALSE]
  BY DEF RefusePage, Failed
<1> QED
  BY <1>1, CallEndsKeeps

LEMMA IndexPageKeeps == ASSUME ImportInv, IndexPage PROVE ImportInv'
<1>0. PICK n \in Selected : n = engine.page
  BY DEF IndexPage, ImportInv, ReadOver
<1>1. /\ ImportTypes /\ engine \in Engines /\ engine.phase = "index" /\ dump.state = "running"
      /\ owner.state = "running" /\ UNCHANGED <<live, shown, owner, dump, jobs>>
      /\ shown[n] # NoRevision /\ \A p \in Selected : p < n => Captured(p)
      /\ indexed' = [indexed EXCEPT ![n] = shown[n]] /\ engine' = [engine EXCEPT !.phase = "record"]
  BY <1>0 DEF IndexPage, ImportInv, ImportTypes, ClosedSince, ReadOver, Reading
<1>2. engine' \in Engines /\ engine'.phase = "record" /\ engine'.page = n
  BY <1>0, <1>1 DEF Engines, DumpPhases
<1>3. indexed' \in [Selected -> Nat] /\ Captured(n)' /\ \A p \in Selected : Captured(p) => Captured(p)'
  BY <1>1 DEF ImportTypes, Captured, NoRevision
<1>4. ImportTypes'
  BY <1>1, <1>2, <1>3 DEF ImportTypes
<1>5. Forward /\ \A p \in Selected : shown'[p] <= live[p]
  BY <1>1, <1>3 DEF Forward, ImportTypes, ImportInv, ClosedSince
<1>6. \A p \in Selected : p <= dump'.cursor => Captured(p)'
  BY <1>1, <1>3 DEF ImportInv, ReadOver
<1>7. \A p \in Selected : p <= n => Captured(p)'
  <2>1. \A p \in Selected : p <= n => p < n \/ p = n
    BY <1>1, DumpAssumption
  <2> QED
    BY <1>1, <1>3, <2>1
<1> QED
  BY <1>1, <1>2, <1>4, <1>5, <1>6, <1>7, EngineMoves

LEMMA RecordPageKeeps == ASSUME ImportInv, RecordPage PROVE ImportInv'
<1>1. /\ engine \in Engines /\ engine.phase = "record" /\ dump.state = "running" /\ engine.page \in Nat
      /\ \A p \in Selected : p <= engine.page => Captured(p)
      /\ AdvanceTo(engine.page, [engine EXCEPT !.phase = "scan"]) /\ UNCHANGED <<live, shown, indexed, jobs>>
  BY DEF RecordPage, ImportInv, ImportTypes, ClosedSince, ReadOver, Reading, Engines
<1>2. [engine EXCEPT !.phase = "scan"] \in Engines /\ [engine EXCEPT !.phase = "scan"].phase = "scan"
      /\ [engine EXCEPT !.phase = "scan"].page = engine.page
  BY <1>1 DEF Engines, DumpPhases
<1> QED
  BY <1>1, <1>2, AdvanceKeeps

LEMMA EndPartKeeps == ASSUME ImportInv, EndPart PROVE ImportInv'
<1> DEFINE next == IF engine.part = Len(Parts) THEN [engine EXCEPT !.phase = "enqueue"]
                                               ELSE [engine EXCEPT !.part = @ + 1]
<1>1. /\ engine \in Engines /\ engine.phase = "scan" /\ dump.state = "running" /\ engine.page \in Nat
      /\ \A p \in Selected : p <= engine.page => Captured(p)
      /\ AdvanceTo(engine.page, next) /\ UNCHANGED <<live, shown, indexed, jobs>>
  BY DEF EndPart, ImportInv, ImportTypes, ClosedSince, ReadOver, Reading, Engines
<1>2. next \in Engines /\ next.phase \in {"scan", "enqueue"} /\ next.page = engine.page
  BY <1>1 DEF Engines, DumpPhases
<1> QED
  BY <1>1, <1>2, AdvanceKeeps

LEMMA EnqueueClosureKeeps == ASSUME ImportInv, EnqueueClosure PROVE ImportInv'
<1>1. /\ ImportTypes /\ engine \in Engines /\ engine.phase = "enqueue" /\ dump.state = "running"
      /\ owner.state = "running" /\ UNCHANGED <<live, shown, indexed, owner, dump>>
      /\ jobs' = [p \in Selected |-> IF jobs[p] = "none" THEN "queued" ELSE jobs[p]]
      /\ engine' = [engine EXCEPT !.phase = "close"]
  BY DEF EnqueueClosure, ImportInv, ImportTypes, ClosedSince, Reading
<1>2. engine' \in Engines /\ engine'.phase = "close" /\ engine'.phase \notin Reading
  BY <1>1 DEF Engines, DumpPhases, Reading
<1>3. ImportTypes'
  BY <1>1, <1>2 DEF ImportTypes, JobStates
<1>4. ReadOver'
  BY <1>1, <1>2 DEF ImportInv, ReadOver, Captured
<1>5. ClosedSince'
  BY <1>1, <1>2 DEF ImportInv, ClosedSince
<1> QED
  BY <1>1, <1>3, <1>4, <1>5 DEF ImportInv, SuccessClosesRace

LEMMA ClosePageKeeps == ASSUME ImportInv, NEW p \in Selected, ClosePage(p) PROVE ImportInv'
<1>1. /\ ImportTypes /\ engine.phase = "close" /\ owner.state = "running"
      /\ shown' = [shown EXCEPT ![p] = live[p]] /\ indexed' = [indexed EXCEPT ![p] = live[p]]
      /\ jobs' = [jobs EXCEPT ![p] = "running"] /\ UNCHANGED <<live, owner, dump, engine>>
  BY DEF ClosePage, ImportInv, ClosedSince
<1>2. ImportTypes'
  BY <1>1 DEF ImportTypes, JobStates
<1>3. \A q \in Selected : Captured(q) => Captured(q)'
  BY <1>1 DEF ImportTypes, Captured, NoRevision
<1>4. ReadOver'
  BY <1>1, <1>3 DEF ImportInv, ReadOver
<1>5. ClosedSince'
  <2>1. \A q \in Selected : shown'[q] <= live'[q] /\ owner'.since[q] <= live'[q]
    BY <1>1 DEF ImportInv, ImportTypes, ClosedSince
  <2>2. \A q \in Selected : jobs'[q] \in {"running", "succeeded"} => shown'[q] >= owner'.since[q]
    BY <1>1 DEF ImportInv, ImportTypes, ClosedSince, Owners
  <2>3. \A q \in Selected : jobs'[q] # "none"
    BY <1>1 DEF ImportInv, ImportTypes, ClosedSince
  <2> QED
    BY <1>1, <2>1, <2>2, <2>3 DEF ImportInv, ClosedSince
<1> QED
  BY <1>1, <1>2, <1>4, <1>5 DEF ImportInv, SuccessClosesRace

LEMMA CompleteClosureKeeps == ASSUME ImportInv, NEW p \in Selected, CompleteClosure(p) PROVE ImportInv'
<1>1. /\ ImportTypes /\ engine.phase = "close" /\ owner.state = "running" /\ jobs[p] = "running"
      /\ jobs' = [jobs EXCEPT ![p] = "succeeded"] /\ UNCHANGED <<live, shown, indexed, owner, dump, engine>>
  BY DEF CompleteClosure, ImportInv, ClosedSince
<1>2. ImportTypes'
  BY <1>1 DEF ImportTypes, JobStates
<1>3. ReadOver'
  BY <1>1 DEF ImportInv, ReadOver, Captured
<1>4. ClosedSince'
  BY <1>1 DEF ImportInv, ImportTypes, ClosedSince
<1> QED
  BY <1>1, <1>2, <1>3, <1>4 DEF ImportInv, SuccessClosesRace

LEMMA ClosureFailsKeeps ==
  ASSUME ImportInv, NEW p \in Selected, NEW retryable \in BOOLEAN, ClosureFails(p, retryable)
  PROVE  ImportInv'
<1>1. /\ ImportTypes /\ engine.phase = "close" /\ owner.state = "running"
      /\ jobs' = [jobs EXCEPT ![p] = "failed"] /\ UNCHANGED <<live, shown, indexed>>
      /\ dump' = [dump EXCEPT !.state = "failed", !.retryable = retryable] /\ engine' = Resting
      /\ owner' = IF retryable THEN owner ELSE [owner EXCEPT !.state = "cancelled"]
  BY DEF ClosureFails, Failed, ImportInv, ClosedSince
<1>2. dump' \in Imports /\ dump'.cursor = dump.cursor /\ dump'.state = "failed"
  BY <1>1 DEF ImportTypes, Imports
<1>3. owner' \in Owners /\ owner'.since = owner.since /\ owner'.state # "succeeded"
  BY <1>1 DEF ImportTypes, Owners
<1>4. engine' \in Engines /\ engine'.phase = "idle" /\ engine'.phase \notin Reading
  BY <1>1 DEF Resting, Engines, DumpPhases, Reading
<1>5. ImportTypes'
  BY <1>1, <1>2, <1>3, <1>4 DEF ImportTypes, JobStates
<1>6. ReadOver'
  BY <1>1, <1>2, <1>4 DEF ImportInv, ReadOver, Captured
<1>7. ClosedSince'
  BY <1>1, <1>2, <1>3, <1>4 DEF ImportInv, ImportTypes, ClosedSince
<1> QED
  BY <1>3, <1>5, <1>6, <1>7 DEF ImportInv, SuccessClosesRace

LEMMA CompleteDumpImportKeeps == ASSUME ImportInv, CompleteDumpImport PROVE ImportInv'
<1>1. /\ ImportTypes /\ engine.phase = "close" /\ engine \in Engines /\ dump \in Imports
      /\ dump' = [dump EXCEPT !.state = "succeeded", !.retryable = FALSE]
      /\ engine' = [engine EXCEPT !.phase = "finish"] /\ UNCHANGED <<live, shown, indexed, owner, jobs>>
  BY DEF CompleteDumpImport, ImportInv, ImportTypes
<1>2. engine' \in Engines /\ engine'.phase = "finish" /\ engine'.phase \notin Reading
  BY <1>1 DEF Engines, DumpPhases, Reading
<1>3. dump' \in Imports /\ dump'.cursor = dump.cursor
  BY <1>1 DEF Imports
<1>4. ImportTypes'
  BY <1>1, <1>2, <1>3 DEF ImportTypes
<1>5. ReadOver'
  BY <1>1, <1>2, <1>3 DEF ImportInv, ReadOver, Captured
<1>6. ClosedSince'
  BY <1>1, <1>2 DEF ImportInv, ClosedSince
<1> QED
  BY <1>1, <1>4, <1>5, <1>6 DEF ImportInv, SuccessClosesRace

LEMMA CompleteRunKeeps == ASSUME ImportInv, CompleteRun PROVE ImportInv'
<1>1. /\ ImportTypes /\ dump.state = "succeeded" /\ \A p \in Selected : jobs[p] \in {"none", "succeeded"}
      /\ owner' = [owner EXCEPT !.state = "succeeded"] /\ engine' = Resting
      /\ UNCHANGED <<live, shown, indexed, dump, jobs>>
  BY DEF CompleteRun, ImportInv
<1>2. owner' \in Owners /\ owner'.since = owner.since
  BY <1>1 DEF ImportTypes, Owners
<1>3. engine' \in Engines /\ engine'.phase = "idle" /\ engine'.phase \notin Reading
  BY <1>1 DEF Resting, Engines, DumpPhases, Reading
<1>4. ImportTypes'
  BY <1>1, <1>2, <1>3 DEF ImportTypes
<1>5. ReadOver'
  BY <1>1, <1>3 DEF ImportInv, ReadOver, Captured
<1>6. ClosedSince'
  BY <1>1, <1>2, <1>3 DEF ImportInv, ClosedSince
<1>7. SuccessClosesRace'
  <2>1. \A p \in Selected : jobs[p] = "succeeded"
    BY <1>1 DEF ImportInv, ClosedSince
  <2> QED
    BY <1>1, <1>2, <2>1 DEF ImportInv, ClosedSince, SuccessClosesRace
<1> QED
  BY <1>4, <1>5, <1>6, <1>7 DEF ImportInv

LEMMA KillImportKeeps == ASSUME ImportInv, KillImport PROVE ImportInv'
  BY CallEndsKeeps DEF KillImport

-----------------------------------------------------------------------------
LEMMA ImportInvNext == ImportInv /\ [DumpNext]_dumpVars => ImportInv'
<1> SUFFICES ASSUME ImportInv, [DumpNext]_dumpVars PROVE ImportInv'
  OBVIOUS
<1>1. CASE DumpNext
  BY <1>1, EditLiveKeeps, StartImportKeeps, ClaimKeeps, VerifyCompletedKeeps, ScanPageKeeps, RefusePageKeeps,
     IndexPageKeeps, RecordPageKeeps, EndPartKeeps, EnqueueClosureKeeps, ClosePageKeeps, CompleteClosureKeeps,
     ClosureFailsKeeps, CompleteDumpImportKeeps, CompleteRunKeeps, KillImportKeeps DEF DumpNext
<1>2. CASE UNCHANGED dumpVars
  BY <1>2 DEF dumpVars, ImportInv, ImportTypes, ReadOver, ClosedSince, SuccessClosesRace, Captured
<1> QED
  BY <1>1, <1>2

\* Whatever is killed, refused or fails, and however the wiki moves on: an
\* import that is resumed has captured and indexed every member its cursor has
\* passed, and a run that succeeds shows each member as new as when it began
\* (import_dump_page, close_dump_race).
THEOREM ImportsMissNothing == DumpSpec => []ImportMissesNothing
<1>1. ImportInv => ImportMissesNothing
  BY DEF ImportInv, ReadOver, Captured, ImportMissesNothing, CursorBehindIndex
<1> QED
  BY <1>1, ImportInvInit, ImportInvNext, PTL DEF DumpSpec

-----------------------------------------------------------------------------
(* The cache.                                                              *)

Names == [final : 0..MaxFiles, part : 0..MaxFiles]
Calls == [step : Steps, file : 0..MaxFiles, hashed : Seq(Byte)]
CacheTypes ==
  /\ trusted \in Edition /\ files \in Nat
  /\ content \in [File -> Seq(Byte)] /\ flushed \in [File -> Seq(Byte)]
  /\ name \in Names /\ named \in Names /\ locked \subseteq File /\ call \in [Caller -> Calls]
\* What is published is whole, and a power failure leaves it so.
PublishedFlushed ==
  /\ name.final # NoFile =>
       \E e \in Edition : content[name.final] = Whole(e) /\ flushed[name.final] = Whole(e)
  /\ named.final \in {NoFile, name.final}
\* While calls are under way, what is published is what they are asked for;
\* and until something is, they all work on the file with the part's name.
UnderWay ==
  /\ name.final # NoFile /\ (\E c \in Caller : ~ At(c, "idle")) => Verifies(name.final)
  /\ name.final = NoFile => \A c \in Caller : call[c].file \in {NoFile, name.part}
\* What a call knows of its file while it holds the lock.
Knows(c) ==
  /\ call[c].file = NoFile <=> call[c].step \in {"idle", "open", "verified"}
  /\ Holds(c) => call[c].file \in locked /\ call[c].hashed = content[call[c].file]
  /\ call[c].step \in {"sync", "link"} => Matches(c)
  /\ call[c].step = "link" => flushed[call[c].file] = content[call[c].file]
  /\ call[c].step \in {"unlink", "syncdir", "verified"} => name.final # NoFile
OneHolder == \A c, d \in Caller : Holds(c) /\ Holds(d) /\ call[c].file = call[d].file => c = d
CacheInv ==
  /\ CacheTypes /\ PublishedFlushed /\ UnderWay /\ OneHolder
  /\ \A c \in Caller : Knows(c)

LEMMA WholeLength ==
  ASSUME NEW e \in Edition
  PROVE  Whole(e) \in Seq(Byte) /\ Len(Whole(e)) = Length[e] /\ Length[e] \in Nat \ {0}
<1>1. Length[e] \in Nat \ {0} /\ e \in Byte
  BY CacheAssumption DEF Edition, Byte
<1> QED
  BY <1>1 DEF Whole

LEMMA CacheInvInit == CacheInit => CacheInv
<1> SUFFICES ASSUME CacheInit PROVE CacheInv
  OBVIOUS
<1>1. CacheTypes
  BY CacheAssumption DEF CacheInit, CacheTypes, Edition, Names, Calls, Rest, Steps, NoFile
<1>2. PublishedFlushed /\ UnderWay
  BY DEF CacheInit, PublishedFlushed, UnderWay, Rest
<1>3. OneHolder /\ \A c \in Caller : Knows(c)
  BY DEF CacheInit, OneHolder, Knows, Holds, Rest
<1> QED
  BY <1>1, <1>2, <1>3 DEF CacheInv

-----------------------------------------------------------------------------
(* What a step of call c must do to keep the invariant.                    *)

\* Other calls, and the files they hold, are left alone.
OthersAlone(c) ==
  /\ trusted' = trusted /\ \A d \in Caller \ {c} : call'[d] = call[d]
  /\ \A f \in locked : f # call[c].file \/ ~ Holds(c) => content'[f] = content[f] /\ flushed'[f] = flushed[f]
                                                          /\ f \in locked'
  /\ Holds(c)' => (call'[c].file = call[c].file /\ Holds(c)) \/ call'[c].file \notin locked
\* What is published stays.
FinalKept ==
  /\ name'.final = name.final /\ named'.final \in {named.final, name.final}
  /\ name.final # NoFile => content'[name.final] = content[name.final]
                            /\ flushed'[name.final] \in {flushed[name.final], content[name.final]}
LEMMA CallStepKeeps ==
  ASSUME CacheInv, NEW c \in Caller, CacheTypes', OthersAlone(c), FinalKept, Knows(c)',
         ~ At(c, "idle")' /\ name.final # NoFile => Verifies(name.final),
         name.final = NoFile => /\ name'.part = name.part \/ name.part = NoFile
                                /\ call'[c].file \in {NoFile, name'.part}
  PROVE  CacheInv'
<1>1. PublishedFlushed'
  BY DEF CacheInv, PublishedFlushed, FinalKept
<1>2. UnderWay'
  <2>1. name'.final # NoFile /\ (\E d \in Caller : ~ At(d, "idle")') => Verifies(name.final)'
    <3> SUFFICES ASSUME name'.final # NoFile, NEW d \in Caller, ~ At(d, "idle")' PROVE Verifies(name.final)'
      OBVIOUS
    <3>1. Verifies(name.final)
      BY DEF CacheInv, UnderWay, At, OthersAlone, FinalKept
    <3> QED
      BY <3>1 DEF Verifies, FinalKept, OthersAlone
  <2>2. name'.final = NoFile => \A d \in Caller : call'[d].file \in {NoFile, name'.part}
    BY DEF CacheInv, UnderWay, OthersAlone, FinalKept
  <2> QED
    BY <2>1, <2>2 DEF UnderWay
<1>3. ASSUME NEW d \in Caller \ {c} PROVE Knows(d)' /\ (Holds(d)' <=> Holds(d)) /\ call'[d].file = call[d].file
  <2>1. call'[d] = call[d] /\ (Holds(d)' <=> Holds(d))
    BY DEF OthersAlone, Holds
  <2>2. Holds(d) => /\ call[d].file \in locked' /\ content'[call[d].file] = content[call[d].file]
                    /\ flushed'[call[d].file] = flushed[call[d].file]
    BY DEF CacheInv, Knows, OneHolder, OthersAlone
  <2>3. call[d].step = "link" => Holds(d)
    BY DEF Holds
  <2>4. Knows(d)
    BY DEF CacheInv
  <2> QED
    BY <2>1, <2>2, <2>3, <2>4 DEF Knows, Matches, FinalKept, OthersAlone
<1>4. OneHolder'
  <2> SUFFICES ASSUME NEW d \in Caller \ {c}, Holds(c)', Holds(d)', call'[c].file = call'[d].file PROVE FALSE
    BY <1>3 DEF CacheInv, OneHolder
  <2>1. Holds(d) /\ call[d].file \in locked /\ call'[d].file = call[d].file
    BY <1>3 DEF CacheInv, Knows
  <2> QED
    BY <2>1 DEF CacheInv, OneHolder, OthersAlone
<1> QED
  BY <1>1, <1>2, <1>3, <1>4 DEF CacheInv

LEMMA GotoTypes ==
  ASSUME CacheTypes, NEW c \in Caller, NEW step \in Steps, Goto(c, step)
  PROVE  /\ call' \in [Caller -> Calls] /\ call'[c].step = step /\ call'[c].file = call[c].file
         /\ call'[c].hashed = call[c].hashed /\ \A d \in Caller \ {c} : call'[d] = call[d]
<1>1. call[c] \in Calls
  BY DEF CacheTypes
<1>2. [call[c] EXCEPT !.step = step] \in Calls
  BY <1>1 DEF Calls
<1> QED
  BY <1>1, <1>2 DEF CacheTypes, Goto, Calls

\* A call that only moves from one step to another.
LEMMA GotoKeeps ==
  ASSUME CacheInv, NEW c \in Caller, NEW step \in Steps, Goto(c, step), ~ At(c, "idle"),
         UNCHANGED <<content, flushed, name, named, files, locked, trusted>>,
         step \notin {"idle", "open", "lock", "verified"}, Holds(c), Knows(c)'
  PROVE  CacheInv'
<1>1. CacheTypes /\ call' \in [Caller -> Calls] /\ call'[c].file = call[c].file
      /\ call'[c].step = step /\ \A d \in Caller \ {c} : call'[d] = call[d]
  BY GotoTypes DEF CacheInv
<1>2. CacheTypes'
  BY <1>1 DEF CacheTypes
<1>3. OthersAlone(c)
  BY <1>1 DEF OthersAlone
<1>4. FinalKept
  BY DEF FinalKept
<1>5. name.final # NoFile => Verifies(name.final)
  BY DEF CacheInv, UnderWay
<1>6. name.final = NoFile => call'[c].file \in {NoFile, name'.part}
  BY <1>1 DEF CacheInv, UnderWay
<1> QED
  BY <1>2, <1>3, <1>4, <1>5, <1>6, CallStepKeeps

\* A call that ends, wherever it is; it may leave something in the file it held.
LEMMA ReturnKeeps ==
  ASSUME CacheInv, NEW c \in Caller, ~ At(c, "idle"), Return(c), CacheTypes',
         UNCHANGED <<named, trusted>>, name'.final = name.final,
         name'.part = name.part \/ name.final # NoFile,
         \A f \in File : f # call[c].file \/ ~ Holds(c) => content'[f] = content[f] /\ flushed'[f] = flushed[f],
         name.final # NoFile => content'[name.final] = content[name.final]
                                /\ flushed'[name.final] \in {flushed[name.final], content[name.final]}
  PROVE  CacheInv'
<1>1. /\ call'[c] = Rest /\ \A d \in Caller \ {c} : call'[d] = call[d]
      /\ \A f \in locked : f # call[c].file \/ ~ Holds(c) => f \in locked' /\ f \in File
  BY DEF CacheInv, CacheTypes, Return
<1>2. call'[c].step = "idle" /\ call'[c].file = NoFile
  BY <1>1 DEF Rest
<1>3. ~ Holds(c)' /\ Knows(c)'
  BY <1>2 DEF Holds, Knows
<1>4. OthersAlone(c) /\ FinalKept
  BY <1>1, <1>3 DEF OthersAlone, FinalKept
<1>5. name.final # NoFile => Verifies(name.final)
  BY DEF CacheInv, UnderWay
<1> QED
  BY <1>2, <1>3, <1>4, <1>5, CallStepKeeps

LEMMA ReturnTypes ==
  ASSUME CacheTypes, NEW c \in Caller, Return(c)
  PROVE  call' \in [Caller -> Calls] /\ locked' \subseteq File
<1>1. Rest \in Calls
  BY CacheAssumption DEF Rest, Calls, Steps, NoFile
<1> QED
  BY <1>1 DEF CacheTypes, Return

-----------------------------------------------------------------------------
LEMMA TrustNextKeeps == ASSUME CacheInv, TrustNext PROVE CacheInv'
<1>1. CacheTypes /\ trusted' \in Edition
  BY CacheAssumption DEF CacheInv, CacheTypes, TrustNext, Edition
<1>2. UNCHANGED <<content, flushed, name, named, files, locked, call>> /\ \A c \in Caller : At(c, "idle")
  BY DEF TrustNext, disk
<1>3. CacheTypes' /\ PublishedFlushed' /\ OneHolder'
  BY <1>1, <1>2 DEF CacheInv, CacheTypes, PublishedFlushed, OneHolder, Holds
<1>4. UnderWay'
  BY <1>2 DEF CacheInv, UnderWay, At
<1>5. ASSUME NEW c \in Caller PROVE Knows(c)'
  BY <1>2 DEF CacheInv, Knows, At, Holds
<1> QED
  BY <1>3, <1>4, <1>5 DEF CacheInv

LEMMA LookKeeps == ASSUME CacheInv, NEW c \in Caller, Look(c) PROVE CacheInv'
<1>1. /\ At(c, "idle") /\ UNCHANGED <<content, flushed, name, named, files, locked, trusted>>
      /\ \/ name.final = NoFile /\ Goto(c, "open")
         \/ name.final # NoFile /\ Verifies(name.final) /\ Goto(c, "verified")
  BY DEF Look, disk, Bounds
<1>2. PICK step \in {"open", "verified"} :
         Goto(c, step) /\ (name.final # NoFile => Verifies(name.final))
                       /\ (step = "verified" => name.final # NoFile)
  BY <1>1
<1>3. /\ CacheTypes /\ call' \in [Caller -> Calls] /\ call'[c].file = call[c].file /\ call'[c].step = step
      /\ \A d \in Caller \ {c} : call'[d] = call[d]
  BY <1>2, GotoTypes DEF CacheInv, Steps
<1>4. CacheTypes'
  BY <1>1, <1>3 DEF CacheTypes
<1>5. call[c].file = NoFile
  BY <1>1 DEF CacheInv, Knows, At
<1>6. ~ Holds(c)' /\ Knows(c)'
  BY <1>1, <1>2, <1>3, <1>5 DEF Holds, Knows
<1>7. OthersAlone(c) /\ FinalKept
  BY <1>1, <1>3, <1>6 DEF OthersAlone, FinalKept
<1> QED
  BY <1>1, <1>2, <1>3, <1>4, <1>5, <1>6, <1>7, CallStepKeeps

LEMMA OpenPartialKeeps == ASSUME CacheInv, NEW c \in Caller, OpenPartial(c) PROVE CacheInv'
<1>1. CacheTypes /\ call[c].step = "open" /\ call[c] \in Calls /\ UNCHANGED <<content, flushed, named, locked, trusted>>
      /\ name \in Names
  BY DEF CacheInv, CacheTypes, OpenPartial, At, disk, Bounds
<1>2. PICK f \in File : /\ call' = [call EXCEPT ![c].step = "lock", ![c].file = f]
                        /\ f # NoFile /\ name'.final = name.final /\ name'.part = f /\ name' \in Names
                        /\ files' \in Nat /\ (name.part = f \/ name.part = NoFile)
  <2>1. CASE name.part # NoFile
    <3>1. name.part \in File
      BY <1>1, <2>1 DEF Names, File, NoFile
    <3> QED
      BY <1>1, <2>1, <3>1 DEF OpenPartial, disk, CacheTypes
  <2>2. CASE name.part = NoFile
    <3>1. files < MaxFiles /\ files' = files + 1 /\ name' = [name EXCEPT !.part = files + 1]
          /\ call' = [call EXCEPT ![c].step = "lock", ![c].file = files + 1]
      BY <2>2 DEF OpenPartial
    <3>2. files + 1 \in File /\ files + 1 # NoFile /\ files + 1 \in Nat /\ files + 1 \in 0..MaxFiles
      BY <1>1, <3>1, CacheAssumption DEF CacheTypes, File, NoFile
    <3>3. name'.final = name.final /\ name'.part = files + 1 /\ name' \in Names
      BY <1>1, <3>1, <3>2 DEF Names
    <3> QED
      BY <2>2, <3>1, <3>2, <3>3
  <2> QED
    BY <2>1, <2>2
<1>3. call' \in [Caller -> Calls] /\ call'[c].file = f /\ call'[c].step = "lock"
      /\ \A d \in Caller \ {c} : call'[d] = call[d]
  <2>1. call \in [Caller -> Calls] /\ f \in 0..MaxFiles /\ "lock" \in Steps
    BY <1>1 DEF CacheTypes, File, Steps
  <2>2. [call[c] EXCEPT !.step = "lock", !.file = f] \in Calls
    BY <1>1, <2>1 DEF Calls
  <2> QED
    BY <1>1, <1>2, <2>1, <2>2 DEF Calls
<1>4. CacheTypes'
  BY <1>1, <1>2, <1>3 DEF CacheTypes
<1>5. ~ Holds(c)' /\ Knows(c)'
  BY <1>2, <1>3 DEF Holds, Knows
<1>6. OthersAlone(c) /\ FinalKept
  BY <1>1, <1>2, <1>3, <1>5 DEF OthersAlone, FinalKept
<1>7. name.final # NoFile => Verifies(name.final)
  BY <1>1 DEF CacheInv, UnderWay, At
<1> QED
  BY <1>2, <1>3, <1>4, <1>5, <1>6, <1>7, CallStepKeeps

LEMMA LockKeeps == ASSUME CacheInv, NEW c \in Caller, Lock(c) PROVE CacheInv'
<1> DEFINE f == call[c].file
           existing == content[f]
<1>1. CacheTypes /\ call[c].step = "lock" /\ UNCHANGED <<content, flushed, name, named, files, trusted>>
  BY DEF CacheInv, CacheTypes, Lock, At, disk, Bounds
<1>2. f \in File /\ existing \in Seq(Byte)
  <2>1. f # NoFile
    BY <1>1 DEF CacheInv, Knows
  <2>2. call[c] \in Calls
    BY <1>1 DEF CacheTypes
  <2>3. f \in File
    BY <2>1, <2>2 DEF Calls, File, NoFile
  <2>4. content \in [File -> Seq(Byte)]
    BY <1>1 DEF CacheTypes
  <2> QED
    BY <2>3, <2>4
<1>3. CASE Return(c)
  <2>1. CacheTypes'
    BY <1>1, <1>3, ReturnTypes DEF CacheTypes
  <2> QED
    BY <1>1, <1>3, <2>1, ReturnKeeps DEF At
<1>4. CASE /\ f \notin locked /\ locked' = locked \cup {f}
           /\ call' = [call EXCEPT ![c].hashed = existing,
                         ![c].step = IF Len(existing) = Length[trusted] THEN "digest" ELSE "request"]
  <2>1. /\ call' \in [Caller -> Calls] /\ call'[c].file = f /\ call'[c].hashed = existing
        /\ call'[c].step \in {"digest", "request"} /\ \A d \in Caller \ {c} : call'[d] = call[d]
    BY <1>1, <1>2, <1>4 DEF CacheTypes, Calls, Steps
  <2>2. CacheTypes'
    BY <1>1, <1>2, <1>4, <2>1 DEF CacheTypes
  <2>3. f # NoFile
    BY <1>2 DEF File, NoFile
  <2>4. Knows(c)'
    <3>1. call'[c].file \in locked' /\ call'[c].hashed = content'[call'[c].file] /\ call'[c].file # NoFile
      BY <1>1, <1>4, <2>1, <2>3
    <3> QED
      BY <2>1, <3>1 DEF Knows, Holds
  <2>5. OthersAlone(c) /\ FinalKept
    BY <1>1, <1>4, <2>1 DEF OthersAlone, FinalKept
  <2>6. name.final # NoFile => Verifies(name.final)
    BY <1>1 DEF CacheInv, UnderWay, At
  <2>7. name.final = NoFile => call'[c].file \in {NoFile, name'.part}
    BY <1>1, <2>1 DEF CacheInv, UnderWay
  <2> QED
    BY <1>1, <2>2, <2>4, <2>5, <2>6, <2>7, CallStepKeeps
<1> QED
  BY <1>3, <1>4 DEF Lock

LEMMA RespondKeeps ==
  ASSUME CacheInv, NEW c \in Caller, AcceptResponse(c) \/ RejectResponse(c) \/ EndOfBody(c)
  PROVE  CacheInv'
<1>1. CacheTypes /\ call[c].step \in {"request", "body"} /\ UNCHANGED <<content, flushed, name, named, files, trusted>>
  BY DEF CacheInv, AcceptResponse, RejectResponse, EndOfBody, At, disk, Bounds
<1>2. Holds(c) /\ ~ At(c, "idle")
  BY <1>1 DEF Holds, At
<1>3. CASE RejectResponse(c)
  <2>1. CacheTypes' /\ Return(c)
    BY <1>1, <1>3, ReturnTypes DEF CacheTypes, RejectResponse
  <2> QED
    BY <1>1, <1>2, <2>1, ReturnKeeps
<1>4. CASE AcceptResponse(c) \/ EndOfBody(c)
  <2>1. PICK step \in {"body", "digest"} : Goto(c, step) /\ locked' = locked
    BY <1>4 DEF AcceptResponse, EndOfBody
  <2>2. call'[c].step = step /\ call'[c].file = call[c].file /\ call'[c].hashed = call[c].hashed
    BY <1>1, <2>1, GotoTypes DEF Steps
  <2>3. Knows(c)'
    BY <1>1, <1>2, <2>1, <2>2 DEF CacheInv, Knows, Holds
  <2>4. step \in Steps
    BY <2>1 DEF Steps
  <2> QED
    BY <1>1, <1>2, <2>1, <2>3, <2>4, GotoKeeps
<1> QED
  BY <1>3, <1>4

\* The published file is what every call under way is asked for, so that a call
\* that holds it has nothing to write and nothing to throw away.
LEMMA HeldFinal ==
  ASSUME CacheInv, NEW c \in Caller, Holds(c), name.final = call[c].file
  PROVE  /\ Matches(c) /\ Len(call[c].hashed) = Length[trusted]
         /\ content[name.final] = Whole(trusted) /\ flushed[name.final] = Whole(trusted)
<1>1. ~ At(c, "idle") /\ name.final # NoFile
  BY DEF CacheInv, Knows, Holds, At
<1>2. content[name.final] = Whole(trusted) /\ call[c].hashed = content[name.final] /\ trusted \in Edition
  BY <1>1 DEF CacheInv, UnderWay, Verifies, Knows, CacheTypes
<1>3. flushed[name.final] = content[name.final]
  BY <1>1 DEF CacheInv, PublishedFlushed
<1> QED
  BY <1>2, <1>3, WholeLength DEF Matches

\* What a call that holds its file knows of it.
LEMMA HeldFile ==
  ASSUME CacheInv, NEW c \in Caller, Holds(c)
  PROVE  /\ call[c] \in Calls /\ call[c].file \in File /\ call[c].file # NoFile /\ call[c].file \in locked
         /\ call[c].hashed = content[call[c].file] /\ content[call[c].file] \in Seq(Byte)
         /\ call[c].file = NoFile <=> FALSE
  BY DEF CacheInv, CacheTypes, Knows, Holds, Calls, File, NoFile

LEMMA WriteChunkKeeps ==
  ASSUME CacheInv, NEW c \in Caller, NEW byte \in {trusted, Wrong}, WriteChunk(c, byte)
  PROVE  CacheInv'
<1> DEFINE h == call[c].hashed
<1>0. PICK f \in File : f = call[c].file
  BY HeldFile DEF WriteChunk, At, Holds
<1>1. /\ CacheTypes /\ call[c].step = "body" /\ Len(h) < Length[trusted]
      /\ content' = [content EXCEPT ![f] = Append(@, byte)]
      /\ call' = [call EXCEPT ![c].hashed = Append(@, byte)]
      /\ UNCHANGED <<flushed, name, named, files, locked, trusted>>
  BY <1>0 DEF CacheInv, WriteChunk, At, Bounds
<1>2. Holds(c) /\ ~ At(c, "idle") /\ byte \in Byte /\ h = content[f] /\ h \in Seq(Byte) /\ call[c] \in Calls
      /\ f \in locked /\ f # NoFile
  <2>1. Holds(c) /\ ~ At(c, "idle")
    BY <1>1 DEF Holds, At
  <2>2. byte \in Byte
    BY <1>1 DEF CacheTypes, Byte
  <2> QED
    BY <1>0, <2>1, <2>2, HeldFile
<1>3. Append(h, byte) \in Seq(Byte)
  BY <1>2
<1>4. f # name.final
  <2> SUFFICES ASSUME name.final = f PROVE FALSE
    OBVIOUS
  <2>1. Len(h) = Length[trusted]
    BY <1>0, <1>2, HeldFinal
  <2>2. Len(h) \in Nat
    BY <1>2
  <2> QED
    BY <1>1, <2>1, <2>2
<1>5. /\ call' \in [Caller -> Calls] /\ call'[c].file = f /\ call'[c].hashed = Append(h, byte)
      /\ call'[c].step = "body" /\ \A d \in Caller \ {c} : call'[d] = call[d]
  BY <1>0, <1>1, <1>2, <1>3 DEF CacheTypes, Calls
<1>6. /\ content' \in [File -> Seq(Byte)] /\ content'[f] = Append(h, byte)
      /\ \A g \in File \ {f} : content'[g] = content[g]
  BY <1>1, <1>2, <1>3 DEF CacheTypes
<1>7. CacheTypes'
  BY <1>1, <1>5, <1>6 DEF CacheTypes
<1>8. Knows(c)'
  BY <1>1, <1>2, <1>5, <1>6 DEF Knows
<1>9. OthersAlone(c)
  BY <1>0, <1>1, <1>2, <1>5, <1>6 DEF OthersAlone, CacheTypes
<1>10. FinalKept
  <2>1. name.final # NoFile => name.final \in File
    BY <1>1 DEF CacheTypes, Names, File, NoFile
  <2> QED
    BY <1>1, <1>4, <1>6, <2>1 DEF FinalKept
<1>11. name.final # NoFile => Verifies(name.final)
  BY <1>2 DEF CacheInv, UnderWay
<1>12. name.final = NoFile => call'[c].file \in {NoFile, name'.part}
  BY <1>0, <1>1, <1>5 DEF CacheInv, UnderWay
<1> QED
  BY <1>1, <1>7, <1>8, <1>9, <1>10, <1>11, <1>12, CallStepKeeps

LEMMA CutBodyKeeps == ASSUME CacheInv, NEW c \in Caller, CutBody(c) PROVE CacheInv'
<1>0. PICK f \in File : f = call[c].file
  BY HeldFile DEF CutBody, At, Holds
<1>1. /\ CacheTypes /\ Return(c) /\ Holds(c) /\ ~ At(c, "idle") /\ UNCHANGED <<content, name, named, files, trusted>>
      /\ flushed' = flushed \/ flushed' = [flushed EXCEPT ![f] = content[f]]
  BY <1>0 DEF CacheInv, CutBody, At, Bounds, Holds
<1>2. flushed' \in [File -> Seq(Byte)] /\ \A g \in File : flushed'[g] \in {flushed[g], content[g]}
      /\ (g # f => flushed'[g] = flushed[g])
  BY <1>1 DEF CacheTypes
<1>3. CacheTypes'
  BY <1>1, <1>2, ReturnTypes DEF CacheTypes
<1>4. name.final # NoFile => name.final \in File
  BY <1>1 DEF CacheTypes, Names, File, NoFile
<1> QED
  BY <1>0, <1>1, <1>2, <1>3, <1>4, ReturnKeeps

LEMMA CheckDigestKeeps == ASSUME CacheInv, NEW c \in Caller, CheckDigest(c) PROVE CacheInv'
<1>0. PICK f \in File : f = call[c].file
  BY HeldFile DEF CheckDigest, At, Holds
<1>1. CacheTypes /\ Holds(c) /\ call[c].step = "digest" /\ ~ At(c, "idle") /\ UNCHANGED <<name, named, files, trusted>>
  BY <1>0 DEF CacheInv, CheckDigest, At, Bounds, Holds
<1>2. CASE Matches(c)
  <2>1. Goto(c, "sync") /\ UNCHANGED <<content, flushed, locked>>
    BY <1>2 DEF CheckDigest
  <2>2. call'[c].step = "sync" /\ call'[c].file = call[c].file /\ call'[c].hashed = call[c].hashed
    BY <1>1, <2>1, GotoTypes DEF Steps
  <2>3. Knows(c)'
    BY <1>1, <1>2, <2>1, <2>2 DEF CacheInv, Knows, Holds, Matches
  <2>4. "sync" \in Steps
    BY DEF Steps
  <2> QED
    BY <1>1, <2>1, <2>3, <2>4, GotoKeeps
<1>3. CASE ~ Matches(c)
  <2>1. /\ content' = [content EXCEPT ![f] = <<>>] /\ flushed' = [flushed EXCEPT ![f] = <<>>] /\ Return(c)
    BY <1>0, <1>3 DEF CheckDigest
  <2>2. /\ content' \in [File -> Seq(Byte)] /\ flushed' \in [File -> Seq(Byte)]
        /\ \A g \in File \ {f} : content'[g] = content[g] /\ flushed'[g] = flushed[g]
    BY <1>1, <2>1 DEF CacheTypes
  <2>3. f # name.final
    BY <1>0, <1>1, <1>3, HeldFinal
  <2>4. CacheTypes'
    BY <1>1, <2>1, <2>2, ReturnTypes DEF CacheTypes
  <2>5. name.final # NoFile => name.final \in File
    BY <1>1 DEF CacheTypes, Names, File, NoFile
  <2> QED
    BY <1>0, <1>1, <2>1, <2>2, <2>3, <2>4, <2>5, ReturnKeeps
<1> QED
  BY <1>2, <1>3

LEMMA SyncFileKeeps == ASSUME CacheInv, NEW c \in Caller, SyncFile(c) PROVE CacheInv'
<1>0. PICK f \in File : f = call[c].file
  BY HeldFile DEF SyncFile, At, Holds
<1>1. /\ CacheTypes /\ Holds(c) /\ call[c].step = "sync" /\ ~ At(c, "idle")
      /\ flushed' = [flushed EXCEPT ![f] = content[f]] /\ Goto(c, "link")
      /\ UNCHANGED <<content, name, named, files, locked, trusted>>
  BY <1>0 DEF CacheInv, SyncFile, At, Bounds, Holds
<1>2. /\ call' \in [Caller -> Calls] /\ call'[c].step = "link" /\ call'[c].file = f
      /\ call'[c].hashed = call[c].hashed /\ \A d \in Caller \ {c} : call'[d] = call[d]
  BY <1>0, <1>1, GotoTypes DEF Steps
<1>3. /\ flushed' \in [File -> Seq(Byte)] /\ flushed'[f] = content[f]
      /\ \A g \in File \ {f} : flushed'[g] = flushed[g]
  BY <1>1 DEF CacheTypes
<1>4. CacheTypes'
  BY <1>1, <1>2, <1>3 DEF CacheTypes
<1>5. Knows(c)'
  <2>1. Matches(c) /\ f \in locked /\ call[c].hashed = content[f] /\ f # NoFile
    BY <1>0, <1>1, HeldFile DEF CacheInv, Knows
  <2>2. call'[c].file \in locked' /\ call'[c].hashed = content'[call'[c].file] /\ Matches(c)'
    BY <1>1, <1>2, <2>1 DEF Matches, Whole
  <2> QED
    BY <1>1, <1>2, <1>3, <2>1, <2>2 DEF Knows
<1>6. OthersAlone(c)
  BY <1>0, <1>1, <1>2, <1>3 DEF OthersAlone, CacheTypes
<1>7. FinalKept
  <2>1. name.final # NoFile => name.final \in File
    BY <1>1 DEF CacheTypes, Names, File, NoFile
  <2> QED
    BY <1>1, <1>3, <2>1 DEF FinalKept
<1>8. name.final # NoFile => Verifies(name.final)
  BY <1>1 DEF CacheInv, UnderWay
<1>9. name.final = NoFile => call'[c].file \in {NoFile, name'.part}
  BY <1>0, <1>1, <1>2 DEF CacheInv, UnderWay
<1> QED
  BY <1>1, <1>4, <1>5, <1>6, <1>7, <1>8, <1>9, CallStepKeeps

LEMMA LinkKeeps == ASSUME CacheInv, NEW c \in Caller, Link(c) PROVE CacheInv'
<1>1. /\ CacheTypes /\ Holds(c) /\ call[c].step = "link" /\ ~ At(c, "idle")
      /\ UNCHANGED <<content, flushed, named, files, trusted>>
  BY DEF CacheInv, Link, At, Bounds, Holds
<1>2. CASE Return(c) /\ UNCHANGED name
  <2>1. CacheTypes'
    BY <1>1, <1>2, ReturnTypes DEF CacheTypes
  <2> QED
    BY <1>1, <1>2, <2>1, ReturnKeeps
<1>3. CASE Goto(c, "unlink") /\ locked' = locked /\ name.part # NoFile /\ name.final # NoFile /\ name' = name
  <2>1. call'[c].step = "unlink" /\ call'[c].file = call[c].file /\ call'[c].hashed = call[c].hashed
    BY <1>1, <1>3, GotoTypes DEF Steps
  <2>2. Knows(c)'
    BY <1>1, <1>3, <2>1 DEF CacheInv, Knows, Holds
  <2>3. "unlink" \in Steps
    BY DEF Steps
  <2> QED
    BY <1>1, <1>3, <2>2, <2>3, GotoKeeps
\* until something is published the part's name is that of the file c holds
<1>4. CASE /\ Goto(c, "unlink") /\ locked' = locked /\ name.part # NoFile /\ name.final = NoFile
           /\ name' = [name EXCEPT !.final = name.part]
  <2>0. PICK f \in File : f = call[c].file
    BY <1>1, HeldFile
  <2>1. f = name.part /\ content[f] = Whole(trusted) /\ flushed[f] = Whole(trusted) /\ f # NoFile
    BY <1>1, <1>4, <2>0, HeldFile DEF CacheInv, UnderWay, Knows, Matches
  <2>2. name'.final = f /\ name'.part = name.part /\ name' \in Names
    BY <1>1, <1>4, <2>1 DEF CacheTypes, Names, File
  <2>3. /\ call' \in [Caller -> Calls] /\ call'[c].step = "unlink" /\ call'[c].file = f
        /\ call'[c].hashed = call[c].hashed /\ \A d \in Caller \ {c} : call'[d] = call[d]
    BY <1>1, <1>4, <2>0, GotoTypes DEF Steps
  <2>4. CacheTypes'
    BY <1>1, <1>4, <2>2, <2>3 DEF CacheTypes
  <2>5. PublishedFlushed'
    <3>1. named'.final = NoFile
      BY <1>1, <1>4 DEF CacheInv, PublishedFlushed
    <3>2. content'[f] = Whole(trusted)' /\ flushed'[f] = Whole(trusted)' /\ trusted' \in Edition
      BY <1>1, <2>1 DEF CacheTypes, Whole
    <3> QED
      BY <2>2, <3>1, <3>2 DEF PublishedFlushed, Whole
  <2>6. UnderWay'
    BY <1>1, <2>1, <2>2 DEF UnderWay, Verifies, Whole
  <2>7. OneHolder'
    BY <1>1, <2>0, <2>3 DEF CacheInv, OneHolder, Holds
  <2>8. ASSUME NEW d \in Caller PROVE Knows(d)'
    <3>1. CASE d = c
      BY <1>1, <1>4, <2>0, <2>1, <2>2, <2>3, <3>1, HeldFile DEF Knows
    <3>2. CASE d # c
      <4>1. call'[d] = call[d] /\ Knows(d)
        BY <2>3, <3>2 DEF CacheInv
      <4> QED
        BY <1>1, <1>4, <2>1, <2>2, <4>1 DEF Knows, Holds, Matches
    <3> QED
      BY <3>1, <3>2
  <2> QED
    BY <2>4, <2>5, <2>6, <2>7, <2>8 DEF CacheInv
<1> QED
  BY <1>2, <1>3, <1>4 DEF Link

LEMMA UnlinkKeeps == ASSUME CacheInv, NEW c \in Caller, Unlink(c) PROVE CacheInv'
<1>1. /\ CacheTypes /\ Holds(c) /\ call[c].step = "unlink" /\ ~ At(c, "idle") /\ name.final # NoFile
      /\ UNCHANGED <<content, flushed, named, files, trusted>>
  BY DEF CacheInv, Knows, Unlink, At, Bounds, Holds
<1>2. CASE Return(c) /\ UNCHANGED name
  <2>1. CacheTypes'
    BY <1>1, <1>2, ReturnTypes DEF CacheTypes
  <2> QED
    BY <1>1, <1>2, <2>1, ReturnKeeps
<1>3. CASE Goto(c, "syncdir") /\ name' = [name EXCEPT !.part = NoFile] /\ locked' = locked
  <2>1. /\ call' \in [Caller -> Calls] /\ call'[c].step = "syncdir" /\ call'[c].file = call[c].file
        /\ call'[c].hashed = call[c].hashed /\ \A d \in Caller \ {c} : call'[d] = call[d]
    BY <1>1, <1>3, GotoTypes DEF Steps
  <2>2. name' \in Names /\ name'.final = name.final
    <3>1. NoFile \in 0..MaxFiles
      BY CacheAssumption DEF NoFile
    <3>2. name \in Names
      BY <1>1 DEF CacheTypes
    <3> QED
      BY <1>3, <3>1, <3>2 DEF Names
  <2>3. CacheTypes'
    BY <1>1, <1>3, <2>1, <2>2 DEF CacheTypes
  <2>4. Knows(c)'
    BY <1>1, <1>3, <2>1, <2>2, HeldFile DEF Knows
  <2>5. OthersAlone(c) /\ FinalKept
    BY <1>1, <1>3, <2>1, <2>2 DEF OthersAlone, FinalKept
  <2>6. Verifies(name.final)
    BY <1>1 DEF CacheInv, UnderWay
  <2> QED
    BY <1>1, <2>3, <2>4, <2>5, <2>6, CallStepKeeps
<1> QED
  BY <1>2, <1>3 DEF Unlink

LEMMA SyncDirectoryKeeps == ASSUME CacheInv, NEW c \in Caller, SyncDirectory(c) PROVE CacheInv'
<1>1. /\ CacheTypes /\ Holds(c) /\ call[c].step = "syncdir" /\ ~ At(c, "idle") /\ name.final # NoFile
      /\ named' = name /\ locked' = locked \ {call[c].file}
      /\ call' = [call EXCEPT ![c] = [Rest EXCEPT !.step = "verified"]]
      /\ UNCHANGED <<content, flushed, name, files, trusted>>
  BY DEF CacheInv, Knows, SyncDirectory, At, Bounds, Holds
<1>2. /\ call' \in [Caller -> Calls] /\ call'[c].step = "verified" /\ call'[c].file = NoFile
      /\ \A d \in Caller \ {c} : call'[d] = call[d]
  <2>1. [Rest EXCEPT !.step = "verified"] = [step |-> "verified", file |-> NoFile, hashed |-> <<>>]
    BY DEF Rest
  <2>2. [step |-> "verified", file |-> NoFile, hashed |-> <<>>] \in Calls
    BY CacheAssumption DEF Calls, Steps, NoFile
  <2> QED
    BY <1>1, <2>1, <2>2 DEF CacheTypes
<1>3. CacheTypes'
  BY <1>1, <1>2 DEF CacheTypes
<1>4. ~ Holds(c)' /\ Knows(c)'
  BY <1>1, <1>2 DEF Knows, Holds
<1>5. OthersAlone(c) /\ FinalKept
  BY <1>1, <1>2, <1>4 DEF OthersAlone, FinalKept
<1>6. Verifies(name.final)
  BY <1>1 DEF CacheInv, UnderWay
<1> QED
  BY <1>1, <1>3, <1>4, <1>5, <1>6, CallStepKeeps

LEMMA EndKeeps ==
  ASSUME CacheInv, NEW c \in Caller, Take(c) \/ Kill(c)
  PROVE  CacheInv'
<1>1. /\ CacheTypes /\ Return(c) /\ ~ At(c, "idle")
      /\ UNCHANGED <<content, flushed, name, named, files, trusted>>
  BY DEF CacheInv, Take, Kill, At, disk, Bounds
<1>2. CacheTypes'
  BY <1>1, ReturnTypes DEF CacheTypes
<1> QED
  BY <1>1, <1>2, ReturnKeeps

\* A power failure ends every call; what is published is flushed, and its name
\* is the old one or none.
LEMMA LosePowerKeeps == ASSUME CacheInv, LosePower PROVE CacheInv'
<1>1. CacheTypes
  BY DEF CacheInv
<1>2. PICK after \in [File -> Contents] :
        /\ \A f \in File : Survives(f, after[f])
        /\ content' = after /\ flushed' = after
  BY DEF LosePower
<1>3. PICK final \in {name.final, named.final}, part \in {name.part, named.part} :
        name' = [final |-> final, part |-> part] /\ named' = name'
  BY DEF LosePower
<1>4. locked' = {} /\ call' = [c \in Caller |-> Rest] /\ UNCHANGED <<trusted, files>>
  BY DEF LosePower
<1>5. after \in [File -> Seq(Byte)]
  BY <1>2 DEF Contents
<1>6. name' \in Names /\ name'.final = final /\ named'.final = final
  BY <1>1, <1>3 DEF CacheTypes, Names
<1>7. Rest \in Calls /\ Rest.step = "idle" /\ Rest.file = NoFile
  BY CacheAssumption DEF Rest, Calls, Steps, NoFile
<1>8. CacheTypes'
  BY <1>1, <1>2, <1>3, <1>4, <1>5, <1>6, <1>7 DEF CacheTypes
<1>9. PublishedFlushed'
  <2> SUFFICES ASSUME final # NoFile
               PROVE  \E e \in Edition : after[final] = Whole(e)
    BY <1>2, <1>6 DEF PublishedFlushed, Whole
  <2>1. final = name.final /\ final \in File
    BY <1>1, <1>3 DEF CacheInv, PublishedFlushed, CacheTypes, Names, File, NoFile
  <2>2. PICK e \in Edition : content[final] = Whole(e) /\ flushed[final] = Whole(e)
    BY <2>1 DEF CacheInv, PublishedFlushed
  <2>3. after[final] = Whole(e)
    <3> DEFINE a == after[final]
    <3>1. CASE a \in {content[final], flushed[final]}
      BY <2>2, <3>1
    <3>2. CASE /\ Len(Whole(e)) <= Len(a) /\ Len(a) <= Len(Whole(e))
               /\ \A i \in 1..Len(Whole(e)) : a[i] = Whole(e)[i]
      <4>1. a \in Seq(Byte) /\ Whole(e) \in Seq(Byte)
        BY <1>5, <2>1, WholeLength
      <4> HIDE DEF a
      <4>2. Len(a) = Len(Whole(e))
        BY <3>2, <4>1
      <4> QED
        BY <3>2, <4>1, <4>2 DEF a
    <3> QED
      BY <1>2, <2>1, <2>2, <3>1, <3>2 DEF Survives
  <2> QED
    BY <2>3
<1>10. \A c \in Caller : call'[c] = Rest
  BY <1>4
<1>11. UnderWay' /\ OneHolder' /\ \A c \in Caller : Knows(c)'
  BY <1>7, <1>10 DEF UnderWay, OneHolder, Knows, Holds, At
<1> QED
  BY <1>8, <1>9, <1>11 DEF CacheInv

-----------------------------------------------------------------------------
LEMMA CacheInvNext == CacheInv /\ [CacheNext]_cacheVars => CacheInv'
<1> SUFFICES ASSUME CacheInv, [CacheNext]_cacheVars PROVE CacheInv'
  OBVIOUS
<1>1. CASE TrustNext \/ LosePower
  BY <1>1, TrustNextKeeps, LosePowerKeeps
<1>2. ASSUME NEW c \in Caller,
             Look(c) \/ OpenPartial(c) \/ Lock(c) \/ AcceptResponse(c) \/ RejectResponse(c) \/ EndOfBody(c)
      PROVE  CacheInv'
  BY <1>2, LookKeeps, OpenPartialKeeps, LockKeeps, RespondKeeps
<1>3. ASSUME NEW c \in Caller, CutBody(c) \/ CheckDigest(c) \/ SyncFile(c) \/ Link(c)
      PROVE  CacheInv'
  BY <1>3, CutBodyKeeps, CheckDigestKeeps, SyncFileKeeps, LinkKeeps
<1>4. ASSUME NEW c \in Caller, Unlink(c) \/ SyncDirectory(c) \/ Take(c) \/ Kill(c)
      PROVE  CacheInv'
  BY <1>4, UnlinkKeeps, SyncDirectoryKeeps, EndKeeps
<1>5. ASSUME NEW c \in Caller, NEW byte \in {trusted, Wrong}, WriteChunk(c, byte)
      PROVE  CacheInv'
  BY <1>5, WriteChunkKeeps
<1>6. CASE UNCHANGED cacheVars
  <2>1. UNCHANGED <<trusted, content, flushed, name, named, locked, call, files>>
    BY <1>6 DEF cacheVars
  <2>2. CacheTypes' /\ PublishedFlushed'
    BY <2>1 DEF CacheInv, CacheTypes, PublishedFlushed
  <2>3. UnderWay'
    BY <2>1 DEF CacheInv, UnderWay, At, Verifies
  <2>4. OneHolder'
    BY <2>1 DEF CacheInv, OneHolder, Holds
  <2>5. \A c \in Caller : Knows(c)'
    BY <2>1 DEF CacheInv, Knows, Holds, Matches
  <2> QED
    BY <2>2, <2>3, <2>4, <2>5 DEF CacheInv
<1> QED
  BY <1>1, <1>2, <1>3, <1>4, <1>5, <1>6 DEF CacheNext

\* What the cache publishes under the final name is one whole edition
\* (publish_completed_partial), for any number of overlapping calls, files,
\* lengths, kills and power failures; and a call that says the file is there
\* says so of the edition it was asked for.
THEOREM PublishedIsAlwaysWhole == CacheSpec => []PublishedIsWhole
<1>1. CacheInv => PublishedIsWhole
  <2> SUFFICES ASSUME CacheInv PROVE PublishedIsWhole
    OBVIOUS
  <2>1. name.final # NoFile => \E e \in Edition : content[name.final] = Whole(e)
    BY DEF CacheInv, PublishedFlushed
  <2>2. ASSUME NEW c \in Caller, At(c, "verified") PROVE name.final # NoFile /\ Verifies(name.final)
    <3>1. name.final # NoFile /\ ~ At(c, "idle")
      BY <2>2 DEF CacheInv, Knows, At
    <3> QED
      BY <3>1 DEF CacheInv, UnderWay
  <2> QED
    BY <2>1, <2>2 DEF PublishedIsWhole
<1> QED
  BY <1>1, CacheInvInit, CacheInvNext, PTL DEF CacheSpec

-----------------------------------------------------------------------------
\* Whole editions.
Kinds == {"edit", "delete", "restore"}
Runs == [state : {"none", "running", "succeeded", "cancelled"},
         kind : {"none", "bootstrap", "update"}, since : Nat, end : Nat]
DumpImports == [state : {"none", "running", "failed", "succeeded"}, marked : BOOLEAN,
                whole : BOOLEAN, boundary : Nat, cursor : Nat]
Discoveries == [state : {"none", "running", "failed", "succeeded"}, marked : BOOLEAN,
                listed : Nat, exhausted : BOOLEAN]
Markers == [state : {"none", "required", "recovering"}, mine : BOOLEAN]
Positions == [phase : Phases, part : Nat, from : Nat, change : Nat]
Entries == [article : Articles, kind : Kinds]
EditionTypes ==
  /\ log \in Seq(Entries) /\ dumpAt \in Nat /\ committed \in Nat
  /\ local \in [Articles -> [edit : Nat, live : BOOLEAN]]
  /\ applied \subseteq Nat /\ linked \subseteq Nat
  /\ run \in Runs /\ import \in DumpImports /\ found \in Discoveries
  /\ marker \in Markers /\ at \in Positions /\ givenUp \in BOOLEAN

Reads == {"scan", "record", "progress", "tail", "relist", "complete"}
Closes == {"apply", "mark", "resolve", "finish"}
Bootstrapping == run.state = "running" /\ run.kind = "bootstrap"
Updating == run.state = "running" /\ run.kind = "update"
\* Where the engine is in which run, how far it has read, and what it applies.
EngineKeeps ==
  /\ at.phase # "idle" => run.state = "running"
  /\ run.state = "running" => run.kind \in {"bootstrap", "update"}
  /\ at.phase \in Reads \cup {"import"} => run.kind = "bootstrap"
  /\ at.phase \in {"scan", "record", "progress", "relist"} => at.part <= import.cursor + 1
  /\ at.phase \in {"scan", "relist"} => at.part >= 1
  /\ at.phase \in {"record", "progress", "tail"} => at.part \in 1..Len(Order)
  /\ at.phase = "tail" => import.cursor = at.part
  /\ at.phase = "complete" \/ (Bootstrapping /\ at.phase \in Closes) => import.cursor >= Len(Order)
  /\ import.whole => import.state # "none"
  /\ at.phase = "mark" => /\ at.change \in PendingChanges
                          /\ \A j \in PendingChanges : at.change <= j
  /\ at.phase \in {"resolve", "finish"} => PendingChanges = {}
\* The windows of runs: where they begin and end, and that the wiki lists them.
Start == IF run.kind = "update" THEN run.since ELSE dumpAt
Since == IF committed > Overlap THEN committed - Overlap ELSE 0
WindowsKept ==
  /\ committed <= run.end /\ run.end <= Now /\ dumpAt <= Now /\ dumpAt > 0
  /\ \A j \in linked \cup applied : j \in 1..run.end
  /\ run.state = "running" => \A j \in linked : j >= Start
  /\ Bootstrapping => dumpAt + Overlap <= run.end /\ Now <= dumpAt + Retention
  /\ Updating => committed # 0 /\ run.since = Since
  /\ Updating /\ at.phase # "idle" => Now <= run.since + Retention
\* An import works for the gap that is marked, if one is: no update runs then.
GapKept ==
  /\ Bootstrapping /\ at.phase \notin {"idle", "import", "finish"} =>
       import.state # "none" /\ import.whole /\ import.marked = Marked
  /\ at.phase \notin {"idle", "import", "claim", "finish"} => found.marked = Marked
  /\ Updating /\ at.phase \notin {"idle", "claim"} => ~Marked
\* Of what the wiki still lists, everything up to a time has been found.
FoundTo(u) == \A j \in Listed : j >= Start /\ j <= u => j \in linked
DiscoveryKept ==
  run.state = "running" =>
    /\ found.listed # 0 => found.listed >= Start /\ found.listed <= run.end /\ FoundTo(found.listed)
    /\ at.phase = "discover" => at.from = Start
    /\ at.phase = "relist" /\ found.listed = 0 =>
         at.from >= Start /\ at.from <= run.end /\ FoundTo(at.from)
    /\ found.exhausted => found.listed = run.end
    /\ at.phase \in (Reads \ {"relist"}) \cup Closes => found.exhausted
\* Nothing the wiki lists of the time before the checkpoint is left to apply.
Known ==
  /\ \A j \in Listed : j <= committed /\ (j >= dumpAt \/ j >= Since) => j \in applied
  /\ \A j \in linked : j <= committed => j \in applied
\* Changes are applied in their order, also over runs that are given up, unless
\* nothing called for the import that was.
Ordered == ~givenUp => \A k \in applied, j \in PendingChanges : k < j
FromDump == committed = 0 \/ Marked \/ Bootstrapping
Closed ==
  ~givenUp => \A k \in applied, j \in Listed :
    committed < j /\ j < k /\ (FromDump => j >= dumpAt) => j \in applied
ChangesShown ==
  /\ \A k \in applied : log[k].article \notin overtaken => UpToDate(log[k].article, k)
  /\ at.phase = "mark" => UpToDate(log[at.change].article, at.change)
EditsShown ==
  /\ \A a \in Articles : local[a].edit # 0 =>
       local[a].edit \in 1..Now /\ log[local[a].edit] = [article |-> a, kind |-> "edit"]
  /\ Bootstrapping /\ import.cursor < Len(Order) => \A a \in Articles : local[a].edit <= run.end
ReadOverTo(p) == p <= import.cursor \/ (at.phase \in {"record", "progress"} /\ p = at.part)
Quiet(a) == \A j \in (dumpAt + 1)..run.end : log[j].article # a
DumpShown ==
  Bootstrapping => \A p \in 1..Len(Order) : ReadOverTo(p) /\ Quiet(Order[p]) => UpToDate(Order[p], dumpAt)
EditionInv ==
  /\ EditionTypes /\ EngineKeeps /\ WindowsKept /\ GapKept /\ DiscoveryKept /\ Known /\ Ordered /\ Closed
  /\ ChangesShown /\ EditsShown /\ DumpShown /\ CheckpointCovers

-----------------------------------------------------------------------------
LEMMA LeastOf ==
  ASSUME NEW T \in SUBSET Nat, T # {}
  PROVE  Min(T) \in T /\ \A y \in T : Min(T) <= y
<1>1. PICK x \in T : \A y \in T : ~ (<<y, x>> \in OpToRel(<, Nat))
  BY NatLessThanWellFounded, WFMin
<1>2. \A y \in T : ~ (y < x)
  BY <1>1 DEF OpToRel
<1>3. \E z \in T : \A y \in T : z <= y
  BY <1>2
<1> QED
  BY <1>3 DEF Min

LEMMA GreatestOf ==
  ASSUME NEW n \in Nat, NEW T \in SUBSET (0 .. n), T # {}
  PROVE  Max(T) \in T /\ \A y \in T : y <= Max(T)
<1> DEFINE U == {n - y : y \in T}
<1>1. \A y \in T : y \in Nat /\ n - y \in Nat
  OBVIOUS
<1>2. U \in SUBSET Nat /\ U # {}
  BY <1>1
<1>3. PICK u \in U : \A y \in U : u <= y
  <2>1. Min(U) \in U /\ \A y \in U : Min(U) <= y
    BY <1>2, LeastOf
  <2> HIDE DEF U
  <2> QED
    BY <2>1
<1>4. PICK x \in T : u = n - x
  BY <1>3
<1>5. \A y \in T : y <= x
  BY <1>1, <1>3, <1>4
<1>6. \E z \in T : \A y \in T : z >= y
  BY <1>1, <1>5
<1> HIDE DEF U
<1> QED
  BY <1>1, <1>6 DEF Max

\* What the last change and the last edit of an article are.
LEMMA LastOnes ==
  ASSUME NEW a, NEW n \in Nat
  PROVE  /\ LastChange(a, n) \in 0..n
         /\ LastChange(a, n) # 0 => log[LastChange(a, n)].article = a
         /\ \A i \in 1..n : log[i].article = a => i <= LastChange(a, n)
         /\ LastEdit(a, n) \in 0..n
         /\ LastEdit(a, n) # 0 => log[LastEdit(a, n)] = [article |-> a, kind |-> "edit"]
         /\ \A i \in 1..n : log[i] = [article |-> a, kind |-> "edit"] => i <= LastEdit(a, n)
<1> DEFINE T == {0} \cup {i \in 1..n : log[i].article = a}
           U == {0} \cup {i \in 1..n : log[i] = [article |-> a, kind |-> "edit"]}
<1>1. T \in SUBSET (0..n) /\ T # {} /\ U \in SUBSET (0..n) /\ U # {}
  OBVIOUS
<1>2. Max(T) \in T /\ \A y \in T : y <= Max(T)
  BY <1>1, GreatestOf
<1>3. Max(U) \in U /\ \A y \in U : y <= Max(U)
  BY <1>1, GreatestOf
<1>4. LastChange(a, n) = Max(T) /\ LastEdit(a, n) = Max(U)
  BY DEF LastChange, LastEdit
<1> QED
  BY <1>2, <1>3, <1>4

LEMMA EntryOf == ASSUME NEW S, NEW s \in Seq(S), NEW i \in 1..Len(s) PROVE s[i] \in S
  OBVIOUS

LEMMA LogEntries ==
  ASSUME EditionTypes
  PROVE  /\ Now \in Nat
         /\ \A i \in 1..Now : log[i] \in Entries
         /\ \A i \in 1..Now : log[i].article \in Articles /\ log[i].kind \in Kinds
         /\ \A i \in 1..Now : log[i] = [article |-> log[i].article, kind |-> log[i].kind]
<1>1. log \in Seq(Entries)
  BY DEF EditionTypes
<1>2. Now \in Nat /\ \A i \in 1..Now : log[i] \in Entries
  BY <1>1, EntryOf DEF Now
<1> QED
  BY <1>2 DEF Entries

LEMMA LiveStays ==
  ASSUME EditionTypes, NEW a, NEW n \in 0..Now, NEW m \in n..Now, Live(a, n), NoDelete(a, n)
  PROVE  Live(a, m) /\ LastEdit(a, n) <= LastEdit(a, m)
<1>1. n \in Nat /\ m \in Nat /\ Now \in Nat /\ log \in Seq(Entries)
  BY DEF Now, EditionTypes
<1> DEFINE l == LastChange(a, n)
           r == LastChange(a, m)
<1>a. l \in 0..n /\ (l # 0 => log[l].article = a) /\ \A i \in 1..n : log[i].article = a => i <= l
  BY <1>1, LastOnes
<1>b. r \in 0..m /\ (r # 0 => log[r].article = a) /\ \A i \in 1..m : log[i].article = a => i <= r
  BY <1>1, LastOnes
<1>c. l # 0 /\ log[l].kind # "delete"
  BY DEF Live
<1>d. Live(a, m) <=> r # 0 /\ log[r].kind # "delete"
  BY DEF Live
<1> HIDE DEF l, r
<1>2. l \in 1..n /\ log[l].article = a /\ log[l].kind # "delete"
  BY <1>1, <1>a, <1>c
<1>3. r \in l..m /\ log[r].article = a /\ \A i \in 1..n : log[i].article = a => i <= l
  BY <1>1, <1>2, <1>a, <1>b
<1>4. log[r] \in Entries
  <2>1. r \in 1..Now
    BY <1>1, <1>2, <1>3
  <2> QED
    BY <2>1, LogEntries
<1>5. log[r].kind # "delete"
  <2>1. CASE r <= n
    <3>1. r = l
      BY <1>1, <1>2, <1>3, <2>1
    <3> QED
      BY <1>2, <3>1
  <2>2. CASE r > n
    <3>1. log[r] # [article |-> a, kind |-> "delete"]
      BY <1>1, <1>2, <1>3, <2>2 DEF NoDelete
    <3> QED
      BY <1>3, <1>4, <3>1 DEF Entries
  <2> QED
    BY <1>1, <1>3, <2>1, <2>2
<1>6. LastEdit(a, n) <= LastEdit(a, m)
  <2> DEFINE f == LastEdit(a, n)
             g == LastEdit(a, m)
             e == [article |-> a, kind |-> "edit"]
  <2>1. f \in 0..n /\ (f # 0 => log[f] = e)
    BY <1>1, LastOnes
  <2>2. g \in 0..m /\ \A i \in 1..m : log[i] = e => i <= g
    BY <1>1, LastOnes
  <2>3. CASE f # 0
    <3>1. f \in 1..m /\ log[f] = e
      BY <1>1, <2>1, <2>3
    <3>2. f <= g
      <4> HIDE DEF f, g, e
      <4> QED
        BY <2>2, <3>1
    <3> QED
      BY <3>2
  <2> QED
    BY <1>1, <2>1, <2>2, <2>3
<1> QED
  BY <1>1, <1>2, <1>3, <1>5, <1>6, <1>d

\* Where the engine goes on.
LEMMA Moves ==
  ASSUME at \in Positions, NEW p \in Phases, NEW x \in Nat
  PROVE  /\ [at EXCEPT !.phase = p] \in Positions
         /\ [at EXCEPT !.phase = p, !.from = x] \in Positions
         /\ [at EXCEPT !.phase = p, !.part = x] \in Positions
         /\ [at EXCEPT !.phase = p, !.change = x] \in Positions
<1>1. at = [phase |-> at.phase, part |-> at.part, from |-> at.from, change |-> at.change]
      /\ at.phase \in Phases /\ at.part \in Nat /\ at.from \in Nat /\ at.change \in Nat
  BY DEF Positions
<1> QED
  BY <1>1 DEF Positions
LEMMA NextPart ==
  ASSUME at \in Positions, NEW p \in Phases, NEW x \in Nat
  PROVE  /\ [at EXCEPT !.part = @ + 1, !.phase = p] \in Positions
         /\ [[at EXCEPT !.part = @ + 1] EXCEPT !.phase = p] \in Positions
         /\ [[at EXCEPT !.part = @ + 1] EXCEPT !.phase = p, !.from = x] \in Positions
<1>1. at.part + 1 \in Nat
  BY DEF Positions
<1>2. [at EXCEPT !.part = @ + 1] \in Positions
  BY <1>1 DEF Positions
<1> DEFINE next == [at EXCEPT !.part = @ + 1]
<1> HIDE DEF next
<1>3. next \in Positions => [next EXCEPT !.phase = p] \in Positions /\ [next EXCEPT !.phase = p, !.from = x] \in Positions
  BY DEF Positions
<1> QED
  BY <1>2, <1>3 DEF next

LEMMA IdleIs ==
  /\ Idle \in Positions
  /\ \A p \in Phases : [Idle EXCEPT !.phase = p] \in Positions
  /\ Idle.phase = "idle"
  BY DEF Idle, Positions, Phases

LEMMA NewRunTypes ==
  ASSUME EditionTypes, NEW kind \in {"bootstrap", "update"}, NewRun(kind)
  PROVE  /\ run' \in Runs /\ import' \in DumpImports /\ found' \in Discoveries
         /\ linked' \subseteq Nat /\ marker' \in Markers
         /\ run' = [state |-> "running", kind |-> kind, since |-> Since, end |-> Now]
<1>1. Now \in Nat /\ Overlap \in Nat /\ committed \in Nat /\ marker \in Markers
  BY EditionAssumption, LogEntries DEF EditionTypes
<1>2. Max({0, committed - Overlap}) = Since
  <2> DEFINE d == committed - Overlap
  <2>1. d \in Int
    BY <1>1
  <2>2. Max({0, d}) = IF d > 0 THEN d ELSE 0
    <3>1. \E x \in {0, d} : \A y \in {0, d} : x >= y
      BY <2>1
    <3>2. Max({0, d}) \in {0, d} /\ \A y \in {0, d} : Max({0, d}) >= y
      BY <3>1 DEF Max
    <3> HIDE DEF d
    <3> QED
      BY <2>1, <3>2
  <2> QED
    BY <1>1, <2>2 DEF Since
<1>3. Since \in Nat
  BY <1>1 DEF Since
<1> QED
  BY <1>1, <1>2, <1>3 DEF NewRun, Runs, DumpImports, Discoveries, Markers, NoImport, NotFound

LEMMA TypesNext == EditionTypes /\ [EditionNext]_editionVars => EditionTypes'
<1> SUFFICES ASSUME EditionTypes, [EditionNext]_editionVars PROVE EditionTypes'
  OBVIOUS
<1>t. /\ log \in Seq(Entries) /\ dumpAt \in Nat /\ committed \in Nat
      /\ local \in [Articles -> [edit : Nat, live : BOOLEAN]] /\ applied \subseteq Nat /\ linked \subseteq Nat
      /\ givenUp \in BOOLEAN
  BY DEF EditionTypes
<1>r. run \in Runs /\ run.end \in Nat
  BY DEF EditionTypes, Runs
<1>i. import \in DumpImports
  BY DEF EditionTypes
<1>f. found \in Discoveries
  BY DEF EditionTypes
<1>m. marker \in Markers
  BY DEF EditionTypes
<1>e. at \in Positions /\ at.part \in Nat /\ at.from \in Nat /\ at.change \in Nat
  BY DEF EditionTypes, Positions
<1>0. Now \in Nat /\ Overlap \in Nat /\ Len(Order) \in Nat /\ Marked \in BOOLEAN
  BY LogEntries, EditionAssumption DEF Marked
<1>p. /\ \A p \in Phases : [at EXCEPT !.phase = p] \in Positions
      /\ \A p \in Phases, x \in Nat :
           /\ [at EXCEPT !.phase = p, !.from = x] \in Positions
           /\ [at EXCEPT !.phase = p, !.part = x] \in Positions
           /\ [at EXCEPT !.phase = p, !.change = x] \in Positions
  BY <1>e, Moves
<1>1. ASSUME NEW a \in Articles, NEW kind \in Kinds, Change(a, kind) PROVE EditionTypes'
  <2>1. log' \in Seq(Entries)
    BY <1>t, <1>1 DEF Change, Entries
  <2> QED
    BY <1>t, <1>r, <1>i, <1>f, <1>m, <1>e, <1>0, <1>1, <2>1 DEF Change, storeVars, historyVars, EditionTypes
<1>2. CASE UNCHANGED <<log, dumpAt, storeVars, at>>
  BY <1>t, <1>r, <1>i, <1>f, <1>m, <1>e, <1>0, <1>2 DEF storeVars, historyVars, EditionTypes
<1>3. CASE TakeDump
  BY <1>t, <1>r, <1>i, <1>f, <1>m, <1>e, <1>0, <1>3 DEF TakeDump, storeVars, historyVars, EditionTypes
<1>5. CASE StartBootstrap
  <2>1. at' \in Positions
    BY <1>5, IdleIs DEF StartBootstrap, Phases
  <2>2. CASE UNCHANGED <<run, import, found, linked, marker>>
    BY <1>t, <1>r, <1>i, <1>f, <1>m, <1>e, <1>0, <1>5, <2>1, <2>2 DEF StartBootstrap, historyVars, EditionTypes
  <2>3. CASE NewRun("bootstrap")
    BY <1>t, <1>r, <1>i, <1>f, <1>m, <1>e, <1>0, <1>5, <2>1, <2>3, NewRunTypes DEF StartBootstrap, historyVars, EditionTypes
  <2> QED
    BY <1>5, <2>2, <2>3 DEF StartBootstrap
<1>6. CASE StartUpdate
  <2>1. at' \in Positions
    BY <1>6, IdleIs DEF StartUpdate, EndCall, Phases
  <2>2. CASE MarkLongGap /\ EndCall("gap") /\ UNCHANGED <<run, import, found, linked>>
    <3>1. marker' = marker \/ marker' = [marker EXCEPT !.state = "required"]
      BY <2>2 DEF MarkLongGap
    <3>2. [marker EXCEPT !.state = "required"] \in Markers
      BY <1>m DEF Markers
    <3>3. marker' \in Markers
      BY <1>m, <3>1, <3>2
    <3> QED
      BY <1>t, <1>r, <1>i, <1>f, <1>m, <1>e, <1>0, <1>6, <2>1, <2>2, <3>3 DEF StartUpdate, historyVars, EditionTypes
  <2>3. CASE UNCHANGED <<run, import, found, linked, marker>>
    BY <1>t, <1>r, <1>i, <1>f, <1>m, <1>e, <1>0, <1>6, <2>1, <2>3 DEF StartUpdate, historyVars, EditionTypes
  <2>4. CASE NewRun("update")
    BY <1>t, <1>r, <1>i, <1>f, <1>m, <1>e, <1>0, <1>6, <2>1, <2>4, NewRunTypes DEF StartUpdate, historyVars, EditionTypes
  <2> QED
    BY <1>6, <2>2, <2>3, <2>4 DEF StartUpdate
<1>7. CASE ClaimImport
  <2> DEFINE state == IF import.state = "succeeded" THEN "succeeded" ELSE "running"
  <2>1. at' \in Positions
    <3>1. at' = Idle \/ at' = [at EXCEPT !.phase = "claim"]
      BY <1>7 DEF ClaimImport, EndCall
    <3> QED
      BY <1>e, <3>1, IdleIs, Moves DEF Phases
  <2>2. marker' \in Markers
    <3>1. marker' = marker \/ marker' = [state |-> "recovering", mine |-> TRUE]
      BY <1>7 DEF ClaimImport
    <3>2. [state |-> "recovering", mine |-> TRUE] \in Markers
      BY DEF Markers
    <3> QED
      BY <1>m, <3>1, <3>2
  <2>3. import' \in DumpImports
    <3>1. \/ import' = import
          \/ import' = [import EXCEPT !.state = state]
          \/ import' = [import EXCEPT !.state = state, !.boundary = run.end, !.whole = TRUE, !.marked = Marked]
          \/ import' = [import EXCEPT !.state = state, !.boundary = run.end]
      BY <1>7 DEF ClaimImport
    <3>2. state \in {"none", "running", "failed", "succeeded"}
      OBVIOUS
    <3> HIDE DEF state
    <3> QED
      BY <1>i, <1>r, <1>0, <3>1, <3>2 DEF DumpImports
  <2> QED
    BY <1>t, <1>r, <1>i, <1>f, <1>m, <1>e, <1>0, <1>7, <2>1, <2>2, <2>3 DEF ClaimImport, historyVars, EditionTypes
<1>8. CASE ClaimDiscovery
  <2>1. at' \in Positions
    <3>1. run.since \in Nat
      BY <1>r DEF Runs
    <3>2. at' = Idle \/ \E x \in Nat : at' = [at EXCEPT !.phase = "discover", !.from = x]
      BY <1>8, <1>t, <3>1 DEF ClaimDiscovery, EndCall
    <3>3. "discover" \in Phases
      BY DEF Phases
    <3> QED
      BY <1>p, <3>2, <3>3, IdleIs
  <2>2. found' \in Discoveries
    <3> DEFINE state == IF found.state = "succeeded" THEN "succeeded" ELSE "running"
    <3>1. found' = found \/ found' = [found EXCEPT !.state = state, !.marked = Marked]
      BY <1>8 DEF ClaimDiscovery
    <3>2. state \in {"none", "running", "failed", "succeeded"}
      OBVIOUS
    <3> HIDE DEF state
    <3> QED
      BY <1>f, <1>0, <3>1, <3>2 DEF Discoveries
  <2> QED
    BY <1>t, <1>r, <1>i, <1>f, <1>m, <1>e, <1>0, <1>8, <2>1, <2>2 DEF ClaimDiscovery, historyVars, EditionTypes
<1>9. CASE ListBatch
  <2>1. PICK upto \in (IF found.listed = 0 THEN at.from ELSE found.listed + 1)..run.end :
          LET first == IF found.listed = 0 THEN at.from ELSE found.listed + 1 IN
          /\ linked' = linked \cup (Listed \cap first..upto)
          /\ found' = [found EXCEPT !.listed = upto, !.exhausted = (upto = run.end)]
    BY <1>9 DEF ListBatch
  <2>2. upto \in Nat
    BY <1>f, <1>e, <1>r DEF Discoveries
  <2>3. Listed \subseteq Nat
    BY DEF Listed
  <2>4. found' \in Discoveries
    BY <1>f, <2>1, <2>2 DEF Discoveries
  <2> QED
    BY <1>t, <1>r, <1>i, <1>f, <1>m, <1>e, <1>0, <1>9, <2>1, <2>3, <2>4 DEF ListBatch, historyVars, EditionTypes
<1>10. CASE EndListing
  <2>1. \E p \in Phases : at' = [at EXCEPT !.phase = p] \/ at' = [at EXCEPT !.phase = p, !.part = 1]
    BY <1>10 DEF EndListing, Phases
  <2> QED
    BY <1>e, <1>t, <1>r, <1>i, <1>f, <1>m, <1>0, <1>10, <2>1, Moves DEF EndListing, storeVars, historyVars, EditionTypes
<1>11. CASE ScanArticle
  <2> DEFINE n == LastEdit(Order[at.part], dumpAt)
  <2>1. n \in 0..dumpAt
    BY <1>t, <1>0, LastOnes
  <2>2. local' = local \/ local' = [local EXCEPT ![Order[at.part]] = [edit |-> n, live |-> TRUE]]
    BY <1>11 DEF ScanArticle
  <2>3. \E p \in Phases : at' = [at EXCEPT !.phase = p]
    BY <1>11 DEF ScanArticle, Phases
  <2>4. at' \in Positions
    BY <1>e, <2>3, Moves
  <2> HIDE DEF n
  <2>6. n \in Nat
    BY <1>t, <2>1
  <2>7. [edit |-> n, live |-> TRUE] \in [edit : Nat, live : BOOLEAN]
    BY <2>6
  <2>5. local' \in [Articles -> [edit : Nat, live : BOOLEAN]]
    BY <1>t, <2>2, <2>7
  <2> QED
    BY <1>t, <1>r, <1>i, <1>f, <1>m, <1>e, <1>0, <1>11, <2>4, <2>5 DEF ScanArticle, historyVars, EditionTypes
<1>12. CASE RecordArticle \/ RecordPart
  <2>1. at' = Idle \/ \E p \in Phases : at' = [at EXCEPT !.phase = p]
    BY <1>12 DEF RecordArticle, RecordPart, Advance, EndCall, Phases
  <2>2. at' \in Positions
    BY <1>e, <2>1, IdleIs, Moves
  <2>3. run' = run \/ run' = [run EXCEPT !.state = "cancelled"]
    BY <1>12 DEF RecordArticle, RecordPart, Advance, FailImport, FailRun
  <2>4. run' \in Runs
    BY <1>r, <2>3 DEF Runs
  <2>5. import' = import \/ import' = [import EXCEPT !.state = "failed"] \/ import' = [import EXCEPT !.cursor = at.part]
    BY <1>12 DEF RecordArticle, RecordPart, Advance, FailImport
  <2>7. givenUp' \in BOOLEAN
    BY <1>t, <1>12 DEF RecordArticle, RecordPart, Advance, FailImport, FailRun
  <2>6. import' \in DumpImports
    BY <1>i, <1>e, <2>5 DEF DumpImports
  <2> QED
    BY <1>t, <1>r, <1>i, <1>f, <1>m, <1>e, <1>0, <1>12, <2>2, <2>4, <2>6, <2>7 DEF RecordArticle, RecordPart, Advance, historyVars, EditionTypes
<1>13. CASE ExtendWindow
  <2>1. \/ at' = [[at EXCEPT !.part = @ + 1] EXCEPT !.phase = "relist", !.from = run.end]
        \/ \E p \in Phases : at' = [[at EXCEPT !.part = @ + 1] EXCEPT !.phase = p]
    BY <1>13 DEF ExtendWindow, Phases
  <2>2. at' \in Positions
    <3>1. "relist" \in Phases
      BY DEF Phases
    <3> QED
      BY <1>e, <1>r, <2>1, <3>1, NextPart
  <2>3. (run' = run /\ found' = found) \/ (run' = [run EXCEPT !.end = Now] /\ found' = [found EXCEPT !.listed = 0, !.exhausted = FALSE])
    BY <1>13 DEF ExtendWindow
  <2>6. [run EXCEPT !.end = Now] \in Runs /\ [found EXCEPT !.listed = 0, !.exhausted = FALSE] \in Discoveries
    BY <1>r, <1>f, <1>0 DEF Runs, Discoveries
  <2>4. run' \in Runs
    BY <1>r, <2>3, <2>6
  <2>5. found' \in Discoveries
    BY <1>f, <2>3, <2>6
  <2> QED
    BY <1>t, <1>r, <1>i, <1>f, <1>m, <1>e, <1>0, <1>13, <2>2, <2>4, <2>5 DEF ExtendWindow, historyVars, EditionTypes
<1>14. CASE CompleteImport
  <2>1. import' \in DumpImports /\ at' \in Positions
    BY <1>i, <1>r, <1>0, <1>e, <1>14, Moves DEF CompleteImport, Phases, DumpImports
  <2> QED
    BY <1>t, <1>r, <1>i, <1>f, <1>m, <1>e, <1>0, <1>14, <2>1 DEF CompleteImport, historyVars, EditionTypes
<1>15. CASE ApplyChange
  <2> DEFINE i == Min(PendingChanges)
             b == log[Min(PendingChanges)].article
  <2>1. PendingChanges # {} /\ PendingChanges \in SUBSET Nat
    BY <1>t, <1>15 DEF ApplyChange, PendingChanges
  <2>2. i \in Nat
    BY <2>1, LeastOf
  <2>3. LastEdit(b, Now) \in 0..Now
    BY <1>t, <1>0, LastOnes
  <2>4. at' \in Positions
    BY <1>e, <1>15, <2>2, Moves DEF ApplyChange, Phases
  <2>5. \/ local' = [local EXCEPT ![b] = [edit |-> i, live |-> TRUE]]
        \/ local' = [local EXCEPT ![b].live = FALSE]
        \/ local' = [local EXCEPT ![b] = [edit |-> LastEdit(b, Now), live |-> TRUE]]
    BY <1>15 DEF ApplyChange, Shown
  <2> HIDE DEF i, b
  <2>7. /\ [edit |-> i, live |-> TRUE] \in [edit : Nat, live : BOOLEAN]
        /\ [edit |-> LastEdit(b, Now), live |-> TRUE] \in [edit : Nat, live : BOOLEAN]
    BY <1>0, <2>2, <2>3
  <2>8. [local EXCEPT ![b].live = FALSE] \in [Articles -> [edit : Nat, live : BOOLEAN]]
    BY <1>t
  <2>6. local' \in [Articles -> [edit : Nat, live : BOOLEAN]]
    BY <1>t, <2>5, <2>7, <2>8
  <2> QED
    BY <1>t, <1>r, <1>i, <1>f, <1>m, <1>e, <1>0, <1>15, <2>4, <2>6 DEF ApplyChange, historyVars, EditionTypes
<1>16. CASE ApplyUnreadable
  <2>1. run' \in Runs
    BY <1>r, <1>16 DEF ApplyUnreadable, FailFound, FailRun, Runs
  <2>3. givenUp' \in BOOLEAN
    BY <1>t, <1>16 DEF ApplyUnreadable, FailFound, FailRun
  <2>2. found' \in Discoveries
    BY <1>f, <1>16 DEF ApplyUnreadable, FailFound, Discoveries
  <2> QED
    BY <1>t, <1>r, <1>i, <1>f, <1>m, <1>e, <1>0, <1>16, <2>1, <2>2, <2>3, IdleIs DEF ApplyUnreadable, EndCall, historyVars, EditionTypes
<1>17. CASE MarkApplied
  BY <1>e, <1>t, <1>r, <1>i, <1>f, <1>m, <1>0, <1>17, Moves DEF MarkApplied, Phases, historyVars, EditionTypes
<1>18. CASE CompleteDiscovery
  <2>1. at' = Idle \/ \E p \in Phases : at' = [at EXCEPT !.phase = p]
    BY <1>18 DEF CompleteDiscovery, EndCall, Phases
  <2>2. found' \in Discoveries
    BY <1>f, <1>18 DEF CompleteDiscovery, Discoveries
  <2> QED
    BY <1>e, <1>t, <1>r, <1>i, <1>f, <1>m, <1>0, <1>18, <2>1, <2>2, IdleIs, Moves DEF CompleteDiscovery, historyVars, EditionTypes
<1>19. CASE ResolveGap
  <2>1. at' \in Positions /\ marker' \in Markers
    BY <1>m, <1>e, <1>19, Moves DEF ResolveGap, Phases, Markers
  <2> QED
    BY <1>t, <1>r, <1>i, <1>f, <1>m, <1>e, <1>0, <1>19, <2>1 DEF ResolveGap, historyVars, EditionTypes
<1>20. CASE FinishRun
  <2>1. run' \in Runs
    BY <1>r, <1>20 DEF FinishRun, Runs
  <2> QED
    BY <1>t, <1>r, <1>i, <1>f, <1>m, <1>e, <1>0, <1>20, <2>1, IdleIs DEF FinishRun, EndCall, historyVars, EditionTypes
<1>21. ASSUME NEW r \in BOOLEAN, SourceFails(r) PROVE EditionTypes'
  <2>1. /\ run' = run \/ run' = [run EXCEPT !.state = "cancelled"]
        /\ found' = found \/ found' = [found EXCEPT !.state = "failed"]
        /\ import' = import \/ import' = [import EXCEPT !.state = "failed"]
    BY <1>21 DEF SourceFails, FailFound, FailImport, FailRun
  <2>5. givenUp' \in BOOLEAN
    BY <1>t, <1>21 DEF SourceFails, FailFound, FailImport, FailRun
  <2>2. run' \in Runs
    BY <1>r, <2>1 DEF Runs
  <2>3. found' \in Discoveries
    BY <1>f, <2>1 DEF Discoveries
  <2>4. import' \in DumpImports
    BY <1>i, <1>r, <1>0, <2>1 DEF DumpImports
  <2> QED
    BY <1>t, <1>r, <1>i, <1>f, <1>m, <1>e, <1>0, <1>21, <2>2, <2>3, <2>4, <2>5, IdleIs DEF SourceFails, EndCall, historyVars, EditionTypes
<1>22. CASE KillEdition
  BY <1>t, <1>r, <1>i, <1>f, <1>m, <1>e, <1>0, <1>22, IdleIs DEF KillEdition, EndCall, storeVars, historyVars, EditionTypes
<1>23. ASSUME NEW i \in 1..Now, Hide(i) PROVE EditionTypes'
  BY <1>2, <1>23 DEF Hide
<1> QED
  BY <1>1, <1>2, <1>3, <1>5, <1>6, <1>7, <1>8, <1>9, <1>10, <1>11, <1>12, <1>13, <1>14, <1>15, <1>16,
     <1>17, <1>18, <1>19, <1>20, <1>21, <1>22, <1>23 DEF EditionNext, editionVars, storeVars, historyVars, Kinds

-----------------------------------------------------------------------------
Grows == log' = log \/ \E e \in Entries : log' = Append(log, e)
LEMMA LastOnesNext ==
  ASSUME NEW a, NEW n \in Nat
  PROVE  /\ LastChange(a, n)' \in 0..n
         /\ LastChange(a, n)' # 0 => log'[LastChange(a, n)'].article = a
         /\ \A i \in 1..n : log'[i].article = a => i <= LastChange(a, n)'
         /\ LastEdit(a, n)' \in 0..n
         /\ LastEdit(a, n)' # 0 => log'[LastEdit(a, n)'] = [article |-> a, kind |-> "edit"]
         /\ \A i \in 1..n : log'[i] = [article |-> a, kind |-> "edit"] => i <= LastEdit(a, n)'
<1> DEFINE T == {0} \cup {i \in 1..n : log'[i].article = a}
           U == {0} \cup {i \in 1..n : log'[i] = [article |-> a, kind |-> "edit"]}
<1>1. T \in SUBSET (0..n) /\ T # {} /\ U \in SUBSET (0..n) /\ U # {}
  OBVIOUS
<1>2. Max(T) \in T /\ \A y \in T : y <= Max(T)
  BY <1>1, GreatestOf
<1>3. Max(U) \in U /\ \A y \in U : y <= Max(U)
  BY <1>1, GreatestOf
<1>4. LastChange(a, n)' = Max(T) /\ LastEdit(a, n)' = Max(U)
  BY DEF LastChange, LastEdit
<1> QED
  BY <1>2, <1>3, <1>4

\* The wiki only adds to its log, and lists less and less of what was in it.
LEMMA Past ==
  ASSUME EditionTypes, EditionTypes', Grows
  PROVE  /\ Now \in Nat /\ Now' \in Nat /\ Now <= Now'
         /\ \A i \in 1..Now : log'[i] = log[i]
         /\ \A j \in Listed' : j \in 1..Now' /\ (j <= Now => j \in Listed)
<1>1. log \in Seq(Entries) /\ log' \in Seq(Entries) /\ Retention \in Nat
  BY EditionAssumption DEF EditionTypes
<1>2. Now \in Nat /\ Now' \in Nat /\ Now <= Now' /\ \A i \in 1..Now : log'[i] = log[i]
  BY <1>1 DEF Grows, Now
<1>3. ASSUME NEW j \in 1..Now, Gone(j) PROVE Gone(j)'
  <2>1. PICK k \in (j + 1)..Now : log[k] = [article |-> log[j].article, kind |-> "delete"]
    BY <1>3 DEF Gone
  <2>2. k \in 1..Now /\ k \in (j + 1)..Now' /\ log'[k] = log[k] /\ log'[j] = log[j]
    BY <1>2, <2>1
  <2> QED
    BY <2>1, <2>2 DEF Gone
<1>4. ASSUME NEW j \in Listed' PROVE j \in 1..Now' /\ (j <= Now => j \in Listed)
  <2>1. j \in 1..Now' /\ j > Now' - Retention /\ ~(log'[j].kind = "edit" /\ Gone(j)')
    BY <1>4 DEF Listed
  <2>2. CASE j <= Now
    <3>1. j \in 1..Now /\ j > Now - Retention /\ log'[j] = log[j]
      BY <1>1, <1>2, <2>1, <2>2
    <3>2. ~(log[j].kind = "edit" /\ Gone(j))
      BY <1>3, <2>1, <3>1
    <3> QED
      BY <2>1, <3>1, <3>2 DEF Listed
  <2> QED
    BY <2>1, <2>2
<1> QED
  BY <1>2, <1>4

LEMMA PastSame ==
  ASSUME EditionTypes, EditionTypes', Grows, NEW a, NEW m \in 0..Now
  PROVE  /\ LastChange(a, m)' = LastChange(a, m) /\ LastEdit(a, m)' = LastEdit(a, m)
         /\ Live(a, m)' <=> Live(a, m)
         /\ NoDelete(a, m)' => NoDelete(a, m)
<1>1. Now \in Nat /\ Now' \in Nat /\ m \in Nat /\ Now <= Now' /\ m <= Now /\ \A i \in 1..Now : log'[i] = log[i]
  BY Past
<1>2. \A i \in 1..m : log'[i] = log[i]
  BY <1>1
<1> DEFINE c == LastChange(a, m)
           d == LastChange(a, m)'
           e == LastEdit(a, m)
           f == LastEdit(a, m)'
           t == [article |-> a, kind |-> "edit"]
<1>3. /\ c \in 0..m /\ (c # 0 => log[c].article = a) /\ \A i \in 1..m : log[i].article = a => i <= c
      /\ e \in 0..m /\ (e # 0 => log[e] = t) /\ \A i \in 1..m : log[i] = t => i <= e
  BY <1>1, LastOnes
<1>4. /\ d \in 0..m /\ (d # 0 => log'[d].article = a) /\ \A i \in 1..m : log'[i].article = a => i <= d
      /\ f \in 0..m /\ (f # 0 => log'[f] = t) /\ \A i \in 1..m : log'[i] = t => i <= f
  BY <1>1, LastOnesNext
<1>5. c = d /\ e = f
  <2> HIDE DEF c, d, e, f, t
  <2>1. (c # 0 => c <= d) /\ (e # 0 => e <= f)
    BY <1>1, <1>2, <1>3, <1>4
  <2>2. (d # 0 => d <= c) /\ (f # 0 => f <= e)
    BY <1>1, <1>2, <1>3, <1>4
  <2> QED
    BY <1>1, <1>3, <1>4, <2>1, <2>2
<1>6. Live(a, m)' <=> Live(a, m)
  <2>1. c # 0 => log'[c] = log[c]
    <3> HIDE DEF c
    <3> QED
      BY <1>1, <1>2, <1>3
  <2> QED
    BY <1>5, <2>1 DEF Live
<1>7. NoDelete(a, m)' => NoDelete(a, m)
  BY <1>1 DEF NoDelete
<1> QED
  BY <1>5, <1>6, <1>7

LEMMA CoveredStays ==
  ASSUME EditionTypes, EditionTypes', Grows, NEW a, NEW m \in 0..Now, UpToDate(a, m),
         local[a].live => local'[a].live, local[a].edit <= local'[a].edit, a \in Articles
  PROVE  UpToDate(a, m)'
<1>1. LastEdit(a, m)' = LastEdit(a, m) /\ (Live(a, m)' <=> Live(a, m)) /\ (NoDelete(a, m)' => NoDelete(a, m))
  BY PastSame
<1>3. local[a].edit \in Nat /\ local'[a].edit \in Nat /\ m \in Nat
  <2>1. local \in [Articles -> [edit : Nat, live : BOOLEAN]] /\ local' \in [Articles -> [edit : Nat, live : BOOLEAN]]
    BY DEF EditionTypes
  <2>2. Now \in Nat
    BY Past
  <2>3. m \in Nat
    BY <2>2
  <2>4. local[a] \in [edit : Nat, live : BOOLEAN] /\ local'[a] \in [edit : Nat, live : BOOLEAN]
    BY <2>1
  <2>5. local[a].edit \in Nat /\ local'[a].edit \in Nat
    BY <2>4
  <2> QED
    BY <2>3, <2>5
<1>4. m \in Nat
  BY <1>3
<1>5. LastEdit(a, m) \in 0..m
  BY ONLY <1>4, LastOnes
<1>2. LastEdit(a, m) \in Nat
  BY <1>4, <1>5
<1> QED
  BY <1>1, <1>2, <1>3 DEF UpToDate

LEMMA FieldTypes ==
  ASSUME EditionTypes
  PROVE  /\ Now \in Nat /\ dumpAt \in Nat /\ committed \in Nat /\ Len(Order) \in Nat
         /\ run.since \in Nat /\ run.end \in Nat /\ import.cursor \in Nat /\ found.listed \in Nat
         /\ at.part \in Nat /\ at.from \in Nat /\ at.change \in Nat
         /\ Overlap \in Nat /\ Retention \in Nat /\ MaxGap \in Nat
         /\ \A a \in Articles : local[a].edit \in Nat
<1>1. Now \in Nat /\ Len(Order) \in Nat /\ Overlap \in Nat /\ Retention \in Nat /\ MaxGap \in Nat
  BY LogEntries, EditionAssumption
<1>2. run \in Runs /\ import \in DumpImports /\ found \in Discoveries /\ at \in Positions
  BY DEF EditionTypes
<1>3. run.since \in Nat /\ run.end \in Nat /\ import.cursor \in Nat /\ found.listed \in Nat
  BY <1>2 DEF Runs, DumpImports, Discoveries
<1>4. at.part \in Nat /\ at.from \in Nat /\ at.change \in Nat
  BY <1>2 DEF Positions
<1>5. \A a \in Articles : local[a].edit \in Nat
  <2>1. local \in [Articles -> [edit : Nat, live : BOOLEAN]]
    BY DEF EditionTypes
  <2>2. \A a \in Articles : local[a] \in [edit : Nat, live : BOOLEAN]
    BY <2>1
  <2> QED
    BY <2>2
<1> QED
  BY <1>1, <1>3, <1>4, <1>5 DEF EditionTypes

LocalGrows == \A a \in Articles : (local[a].live => local'[a].live) /\ local[a].edit <= local'[a].edit

\* What was shown at a time stays shown.
LEMMA PastShown ==
  ASSUME EditionInv, EditionTypes', Grows, LocalGrows
  PROVE  /\ \A a \in Articles : \A m \in 0..Now : UpToDate(a, m) => UpToDate(a, m)'
         /\ \A k \in 1..Now : UpToDate(log[k].article, k) => UpToDate(log[k].article, k)'
<1>0. EditionTypes
  BY DEF EditionInv
<1>1. Now \in Nat /\ \A i \in 1..Now : log'[i] = log[i] /\ log[i].article \in Articles
  BY <1>0, Past, LogEntries
<1>2. ASSUME NEW a \in Articles, NEW m \in 0..Now, UpToDate(a, m) PROVE UpToDate(a, m)'
  BY <1>0, <1>2, CoveredStays DEF LocalGrows
<1>3. ASSUME NEW k \in 1..Now, UpToDate(log[k].article, k) PROVE UpToDate(log[k].article, k)'
  <2>1. PICK a \in Articles : a = log[k].article
    BY <1>1
  <2>2. k \in 0..Now /\ UpToDate(a, k)
    BY <1>1, <1>3, <2>1
  <2>3. UpToDate(a, k)'
    BY <1>2, <2>2
  <2>4. log'[k] = log[k]
    BY <1>1
  <2> QED
    BY <2>1, <2>3, <2>4 DEF UpToDate
<1> QED
  BY <1>2, <1>3

\* What was shown of changes stays shown; the change being marked was shown.
LEMMA ChangesStay ==
  ASSUME EditionInv, EditionTypes', Grows, LocalGrows, overtaken' = overtaken,
         \A k \in applied' : k \in applied \/ (at.phase = "mark" /\ k = at.change),
         at'.phase = "mark" => at.phase = "mark" /\ at'.change = at.change
  PROVE  ChangesShown'
<1>0. EditionTypes /\ ChangesShown /\ WindowsKept /\ EngineKeeps
  BY DEF EditionInv
<1>1. \A j \in linked \cup applied : j \in 1..Now
  BY <1>0, FieldTypes DEF WindowsKept
<1>2. \A k \in 1..Now : UpToDate(log[k].article, k) => UpToDate(log[k].article, k)'
  BY PastShown
<1>3. at.phase = "mark" => at.change \in 1..Now /\ UpToDate(log[at.change].article, at.change)
  BY <1>0, <1>1 DEF ChangesShown, EngineKeeps, PendingChanges
<1>4. ASSUME NEW k \in applied', log'[k].article \notin overtaken PROVE UpToDate(log[k].article, k)'
  <2>1. k \in 1..Now
    BY <1>1, <1>3
  <2>2. log'[k] = log[k]
    BY <1>0, <2>1, Past
  <2>3. UpToDate(log[k].article, k)
    BY <1>0, <1>3, <1>4, <2>2 DEF ChangesShown
  <2> QED
    BY <1>2, <2>1, <2>3
<1>5. ASSUME at'.phase = "mark" PROVE UpToDate(log[at.change].article, at.change)'
  <2>1. PICK k : k = at.change
    OBVIOUS
  <2>2. k \in 1..Now /\ UpToDate(log[k].article, k) /\ at'.change = k
    BY <1>3, <1>5, <2>1
  <2>3. UpToDate(log[k].article, k)'
    BY <1>2, <2>2
  <2> QED
    BY <2>2, <2>3 DEF UpToDate
<1> QED
  BY <1>4, <1>5 DEF ChangesShown

LEMMA CheckpointStays ==
  ASSUME EditionInv, EditionTypes', Grows, LocalGrows, committed' = committed,
         overtaken' = overtaken, givenUp => givenUp'
  PROVE  CheckpointCovers'
<1>1. Now \in Nat /\ committed \in Nat /\ committed <= Now /\ CheckpointCovers
  BY FieldTypes DEF EditionInv, WindowsKept
<1>2. PICK c : c = committed
  OBVIOUS
<1>3. c # 0 => \A a \in Articles \ overtaken : UpToDate(a, c)
  BY <1>1, <1>2 DEF CheckpointCovers, UpToDate, NoDelete
<1>4. c # 0 => \A a \in Articles \ overtaken : UpToDate(a, c)'
  BY <1>1, <1>2, <1>3, PastShown
<1> QED
  BY <1>1, <1>2, <1>4 DEF CheckpointCovers, UpToDate, NoDelete

\* What the parts of the dump that have been read over show stays shown.
LEMMA DumpStays ==
  ASSUME EditionInv, EditionTypes', Grows, LocalGrows, dumpAt' = dumpAt,
         Bootstrapping' => Bootstrapping /\ run.end <= run'.end,
         \A p \in 1..Len(Order) :
           ReadOverTo(p)' => ReadOverTo(p) \/ (Quiet(Order[p]) => UpToDate(Order[p], dumpAt)')
  PROVE  DumpShown'
<1>0. EditionTypes /\ WindowsKept /\ DumpShown
  BY DEF EditionInv
<1>1. Now \in Nat /\ dumpAt \in Nat /\ dumpAt <= Now /\ run.end \in Nat /\ run'.end \in Nat /\ run.end <= Now
  BY <1>0, FieldTypes DEF WindowsKept, EditionTypes, Runs
<1>2. \A i \in 1..Now : log'[i] = log[i]
  BY <1>0, Past
<1>3. PICK d : d = dumpAt
  OBVIOUS
<1>4. SUFFICES ASSUME Bootstrapping', NEW p \in 1..Len(Order), ReadOverTo(p)', Quiet(Order[p])'
               PROVE  UpToDate(Order[p], dumpAt)'
  BY DEF DumpShown
<1>5. Order[p] \in Articles
  BY DEF Articles
<1>6. PICK a \in Articles : a = Order[p]
  BY <1>5
<1>7. Quiet(Order[p])
  <2>1. SUFFICES ASSUME NEW j \in (dumpAt + 1)..run.end PROVE log[j].article # Order[p]
    BY DEF Quiet
  <2>2. j \in 1..Now /\ j \in (dumpAt' + 1)..run'.end
    BY <1>1, <1>4
  <2>3. log'[j].article # Order[p]
    BY <1>4, <2>2 DEF Quiet
  <2> QED
    BY <1>2, <2>2, <2>3
<1>8. CASE ReadOverTo(p)
  <2>1. UpToDate(a, d)
    BY <1>0, <1>3, <1>4, <1>6, <1>7, <1>8 DEF DumpShown
  <2>2. d \in 0..Now
    BY <1>1, <1>3
  <2>3. UpToDate(a, d)'
    BY <1>0, <2>1, <2>2, CoveredStays DEF LocalGrows
  <2> QED
    BY <1>3, <1>6, <2>3 DEF UpToDate
<1> QED
  BY <1>4, <1>7, <1>8

\* What has been found and applied stays as complete as it was.
LEMMA SetsStay ==
  ASSUME EditionInv, EditionTypes', Grows, applied' = applied, linked' \subseteq linked,
         committed' = committed, dumpAt' >= dumpAt, givenUp => givenUp', ~givenUp' => (FromDump => FromDump')
  PROVE  Known' /\ Ordered' /\ Closed'
<1>0. EditionTypes /\ WindowsKept /\ Known /\ Ordered /\ Closed
  BY DEF EditionInv
<1>a. Now \in Nat /\ committed \in Nat /\ run.end \in Nat /\ dumpAt \in Nat
  BY <1>0, FieldTypes
<1>b. dumpAt' \in Nat
  BY DEF EditionTypes
<1>1. Now \in Nat /\ dumpAt \in Nat /\ dumpAt' \in Nat /\ committed \in Nat /\ committed <= Now /\ run.end <= Now /\ run.end \in Nat
  BY <1>0, <1>a, <1>b DEF WindowsKept
<1>2. \A j \in Listed' : j \in Nat /\ (j <= Now => j \in Listed)
  BY <1>0, Past
<1>3. Known'
  BY <1>0, <1>1, <1>2 DEF Known, Since
<1>4. Ordered'
  BY <1>0 DEF Ordered, PendingChanges
<1>5. \A k \in applied : k \in Nat /\ k <= Now
  BY <1>0, <1>1 DEF WindowsKept
<1>6. Closed'
  BY <1>0, <1>1, <1>2, <1>5 DEF Closed
<1> QED
  BY <1>3, <1>4, <1>6

\* What is here are edits of the wiki, none of them newer than the window that is read.
LEMMA EditsStay ==
  ASSUME EditionInv, EditionTypes', Grows, local' = local,
         Bootstrapping' /\ import'.cursor < Len(Order) =>
           run'.end = Now \/ (Bootstrapping /\ import.cursor < Len(Order) /\ run.end <= run'.end)
  PROVE  EditsShown'
<1>0. EditionTypes /\ EditsShown
  BY DEF EditionInv
<1>1. Now \in Nat /\ Now' \in Nat /\ Now <= Now' /\ \A i \in 1..Now : log'[i] = log[i]
  BY <1>0, Past
<1>2. \A a \in Articles : local[a].edit # 0 =>
        local[a].edit \in 1..Now /\ log[local[a].edit] = [article |-> a, kind |-> "edit"]
  BY <1>0 DEF EditsShown
<1>3. \A a \in Articles : local[a].edit # 0 =>
        local[a].edit \in 1..Now' /\ log'[local[a].edit] = [article |-> a, kind |-> "edit"]
  BY <1>1, <1>2
<1>a. \A a \in Articles : local[a].edit \in Nat
  BY <1>0, FieldTypes
<1>b. run \in Runs /\ run' \in Runs
  BY <1>0 DEF EditionTypes
<1>4. run.end \in Nat /\ run'.end \in Nat /\ \A a \in Articles : local[a].edit \in Nat
  BY <1>a, <1>b DEF Runs
<1>5. \A a \in Articles : local[a].edit <= Now
  <2> TAKE a \in Articles
  <2>1. local[a].edit = 0 \/ local[a].edit \in 1..Now
    BY <1>2
  <2> QED
    BY <1>1, <2>1
<1>6. ASSUME Bootstrapping', import'.cursor < Len(Order) PROVE \A a \in Articles : local[a].edit <= run'.end
  BY <1>0, <1>1, <1>4, <1>5, <1>6 DEF EditsShown
<1> QED
  BY <1>3, <1>6 DEF EditsShown

\* A step that neither shows, applies, finds nor commits anything.
Calm ==
  /\ Grows /\ local' = local /\ dumpAt' = dumpAt /\ committed' = committed
  /\ applied' = applied /\ linked' = linked
  /\ at'.phase = "mark" => at.phase = "mark" /\ at'.change = at.change
  /\ Bootstrapping' => Bootstrapping /\ run.end <= run'.end /\ import.cursor <= import'.cursor
  /\ Bootstrapping' => \A p \in 1..Len(Order) : ReadOverTo(p)' => ReadOverTo(p)
  /\ overtaken' = overtaken /\ (givenUp => givenUp') /\ (~givenUp' => (FromDump => FromDump'))
LEMMA CalmStep ==
  ASSUME EditionInv, EditionTypes', Calm
  PROVE  Known' /\ Ordered' /\ Closed' /\ ChangesShown' /\ EditsShown' /\ DumpShown' /\ CheckpointCovers'
<1>0. EditionTypes
  BY DEF EditionInv
<1>1. \A a \in Articles : local[a].edit \in Nat /\ dumpAt \in Nat /\ import.cursor \in Nat /\ Len(Order) \in Nat
  BY <1>0, FieldTypes
<1>2. LocalGrows
  BY <1>1 DEF LocalGrows, Calm
<1>3. ChangesShown' /\ CheckpointCovers'
  BY <1>2, ChangesStay, CheckpointStays DEF Calm
<1>4. Known' /\ Ordered' /\ Closed'
  <2>1. dumpAt' >= dumpAt
    BY <1>0, FieldTypes DEF Calm
  <2> QED
    BY <2>1, SetsStay DEF Calm
<1>5. EditsShown'
  <2>1. import.cursor \in Nat /\ Len(Order) \in Nat /\ import'.cursor \in Nat
    BY <1>0, FieldTypes DEF EditionTypes, DumpImports
  <2>2. Bootstrapping' /\ import'.cursor < Len(Order) =>
          Bootstrapping /\ import.cursor < Len(Order) /\ run.end <= run'.end
    BY <2>1 DEF Calm
  <2> QED
    BY <2>2, EditsStay DEF Calm
<1>6. DumpShown'
  <2>1. CASE Bootstrapping'
    BY <1>2, <2>1, DumpStays DEF Calm
  <2>2. CASE ~Bootstrapping'
    BY <2>2 DEF DumpShown
  <2> QED
    BY <2>1, <2>2
<1> QED
  BY <1>3, <1>4, <1>5, <1>6

-----------------------------------------------------------------------------
\* The parts of the invariant that a step needs most.
LEMMA EditionHas ==
  ASSUME EditionInv
  PROVE  /\ EditionTypes /\ EngineKeeps /\ WindowsKept /\ GapKept /\ DiscoveryKept /\ Known /\ Ordered /\ Closed
         /\ ChangesShown /\ EditsShown /\ DumpShown /\ CheckpointCovers
         /\ Now \in Nat /\ dumpAt \in Nat /\ committed \in Nat /\ Len(Order) \in Nat
         /\ run.since \in Nat /\ run.end \in Nat /\ import.cursor \in Nat /\ found.listed \in Nat
         /\ at.part \in Nat /\ at.from \in Nat /\ Overlap \in Nat /\ Retention \in Nat
         /\ run \in Runs /\ import \in DumpImports /\ found \in Discoveries /\ at \in Positions /\ marker \in Markers
         /\ linked \subseteq Nat /\ applied \subseteq Nat
<1>1. EditionTypes
  BY DEF EditionInv
<1> QED
  BY <1>1, FieldTypes DEF EditionInv, EditionTypes

\* The wiki, a kill, and a step that changes nothing.
OutsideStep ==
  /\ Grows /\ UNCHANGED storeVars /\ UNCHANGED dumpAt
  /\ at' = Idle \/ at' = at
  /\ Bootstrapping => Now' <= dumpAt + Retention
  /\ Updating /\ at'.phase # "idle" => Now' <= run.since + Retention
LEMMA OutsideKeeps == ASSUME EditionInv, EditionTypes', OutsideStep PROVE EditionInv'
<1>0. EditionTypes /\ EngineKeeps /\ WindowsKept /\ GapKept /\ DiscoveryKept
  BY EditionHas
<1>t. /\ Now \in Nat /\ dumpAt \in Nat /\ committed \in Nat /\ run.since \in Nat /\ run.end \in Nat
      /\ import.cursor \in Nat /\ found.listed \in Nat /\ at.part \in Nat
      /\ Retention \in Nat /\ linked \subseteq Nat /\ applied \subseteq Nat
  BY EditionHas
<1>g. Now' \in Nat /\ Now <= Now' /\ \A j \in Listed' : j \in Nat /\ (j <= Now => j \in Listed)
  BY <1>0, Past DEF OutsideStep
<1>s. /\ run' = run /\ import' = import /\ found' = found /\ marker' = marker /\ local' = local /\ dumpAt' = dumpAt
      /\ linked' = linked /\ applied' = applied /\ committed' = committed
      /\ at' = at \/ (at' = Idle /\ at'.phase = "idle")
      /\ givenUp' = givenUp /\ overtaken' = overtaken
  BY IdleIs DEF OutsideStep, storeVars, historyVars
<1>1. EngineKeeps'
  BY <1>0, <1>s DEF EngineKeeps, PendingChanges, Bootstrapping, Reads, Closes
<1>2. WindowsKept'
  BY <1>0, <1>s, <1>t, <1>g DEF WindowsKept, Start, Since, Bootstrapping, Updating, OutsideStep
<1>3. GapKept'
  BY <1>0, <1>s DEF GapKept, Bootstrapping, Updating, Marked
<1>4. DiscoveryKept'
  <2>1. SUFFICES ASSUME run.state = "running" PROVE DiscoveryKept'
    BY <1>s DEF DiscoveryKept
  <2>2. found.listed # 0 => found.listed >= Start /\ found.listed <= run.end /\ FoundTo(found.listed)
    BY <1>0, <2>1 DEF DiscoveryKept
  <2>3. run.end <= Now /\ Start' = Start
    BY <1>0, <1>s DEF WindowsKept, Start
  <2>4. found'.listed # 0 => found'.listed >= Start' /\ found'.listed <= run'.end /\ FoundTo(found.listed)'
    BY <1>s, <1>t, <1>g, <2>2, <2>3 DEF FoundTo
  <2>5. CASE at' = at
    <3>1. at.phase = "relist" /\ found.listed = 0 => at.from >= Start /\ at.from <= run.end /\ FoundTo(at.from)
      BY <1>0, <2>1 DEF DiscoveryKept
    <3>2. at.from \in Nat
      BY EditionHas
    <3>3. at'.phase = "relist" /\ found'.listed = 0 => at'.from >= Start' /\ at'.from <= run'.end /\ FoundTo(at.from)'
      BY <1>s, <1>t, <1>g, <2>3, <2>5, <3>1, <3>2 DEF FoundTo
    <3> QED
      BY <1>0, <1>s, <2>1, <2>3, <2>4, <2>5, <3>3 DEF DiscoveryKept
  <2>6. CASE at'.phase = "idle"
    BY <1>0, <1>s, <2>1, <2>4, <2>6 DEF DiscoveryKept, Reads, Closes
  <2> QED
    BY <1>s, <2>5, <2>6
<1>5. Calm
  BY <1>s, <1>t DEF Calm, OutsideStep, Bootstrapping, ReadOverTo, FromDump, Marked
<1> QED
  BY <1>1, <1>2, <1>3, <1>4, <1>5, CalmStep DEF EditionInv

LEMMA ChangeKeeps ==
  ASSUME EditionInv, EditionTypes', NEW a \in Articles, NEW kind \in Kinds, Change(a, kind)
  PROVE  EditionInv'
<1>1. /\ Now \in Nat /\ dumpAt \in Nat /\ run.since \in Nat /\ Retention \in Nat /\ EngineKeeps /\ log \in Seq(Entries)
  BY EditionHas DEF EditionTypes
<1>2. [article |-> a, kind |-> kind] \in Entries
  BY DEF Entries
<1>3. Grows
  BY <1>2 DEF Grows, Change
<1>4. Now' = Now + 1
  BY <1>1, <1>2 DEF Now, Change
<1>5. OutsideStep
  BY <1>1, <1>3, <1>4 DEF OutsideStep, Change, Bootstrapping, Updating
<1> QED
  BY <1>5, OutsideKeeps

LEMMA StillKeeps ==
  ASSUME EditionInv, EditionTypes', UNCHANGED <<log, dumpAt, storeVars>>, at' = at \/ at' = Idle
  PROVE  EditionInv'
<1>1. WindowsKept
  BY EditionHas
<1>2. OutsideStep
  BY <1>1, IdleIs DEF OutsideStep, Grows, WindowsKept, Now, Bootstrapping, Updating
<1> QED
  BY <1>2, OutsideKeeps

LEMMA TakeDumpKeeps == ASSUME EditionInv, EditionTypes', TakeDump PROVE EditionInv'
<1>0. EditionTypes /\ EngineKeeps /\ WindowsKept /\ GapKept /\ DiscoveryKept
  BY EditionHas
<1>t. /\ Now \in Nat /\ dumpAt \in Nat /\ committed \in Nat /\ run.since \in Nat /\ run.end \in Nat
      /\ import.cursor \in Nat /\ found.listed \in Nat /\ at.part \in Nat
      /\ Retention \in Nat /\ linked \subseteq Nat /\ applied \subseteq Nat
  BY EditionHas
<1>s. /\ run' = run /\ import' = import /\ found' = found /\ marker' = marker /\ local' = local /\ log' = log
      /\ linked' = linked /\ applied' = applied /\ committed' = committed /\ at' = at /\ dumpAt' = Now
      /\ ~Bootstrapping /\ ~Bootstrapping' /\ dumpAt < Now /\ Grows
      /\ givenUp' = givenUp /\ overtaken' = overtaken
  BY DEF TakeDump, storeVars, historyVars, Bootstrapping, Grows
<1>g. Now' = Now /\ \A j \in Listed' : j \in Listed /\ j \in Nat
  <2>1. Now' = Now
    BY <1>s DEF Now
  <2> QED
    BY <1>0, <1>s, <1>t, <2>1, Past
<1>1. EngineKeeps'
  BY <1>0, <1>s DEF EngineKeeps, PendingChanges, Bootstrapping, Reads, Closes
<1>2. WindowsKept'
  BY <1>0, <1>s, <1>t, <1>g DEF EngineKeeps, WindowsKept, Start, Since, Bootstrapping, Updating
<1>3. GapKept'
  BY <1>0, <1>s DEF GapKept, Bootstrapping, Updating, Marked
<1>4. DiscoveryKept'
  BY <1>0, <1>s, <1>t, <1>g DEF EngineKeeps, DiscoveryKept, WindowsKept, FoundTo, Start, Bootstrapping, Reads, Closes
<1>5. Known' /\ Ordered' /\ Closed'
  BY <1>s, <1>t, SetsStay DEF FromDump, Marked
<1>6. ChangesShown' /\ CheckpointCovers'
  <2>1. \A a \in Articles : local[a].edit \in Nat
    BY <1>0, FieldTypes
  <2>2. LocalGrows
    BY <1>s, <2>1 DEF LocalGrows
  <2> QED
    BY <1>s, <2>2, ChangesStay, CheckpointStays
<1>7. EditsShown' /\ DumpShown'
  BY <1>s, EditsStay DEF DumpShown
<1> QED
  BY <1>1, <1>2, <1>3, <1>4, <1>5, <1>6, <1>7 DEF EditionInv

SameSets ==
  /\ log' = log /\ dumpAt' = dumpAt /\ committed' = committed
  /\ applied' = applied /\ linked' = linked
SameHistory == overtaken' = overtaken /\ (givenUp => givenUp')
SameData == SameSets /\ local' = local /\ SameHistory
LEMMA SamePast ==
  ASSUME EditionInv, EditionTypes', log' = log
  PROVE  Grows /\ Now' = Now /\ \A j \in Listed' : j \in Listed /\ j \in 1..Now
<1>1. EditionTypes /\ Grows /\ Now' = Now
  BY EditionHas DEF Grows, Now
<1>2. \A j \in Listed' : j \in 1..Now' /\ (j <= Now => j \in Listed)
  BY <1>1, Past
<1> QED
  BY <1>1, <1>2, EditionHas

LEMMA WindowsStay ==
  ASSUME EditionInv, EditionTypes', SameSets,
         run'.kind = run.kind /\ run'.since = run.since /\ (run'.end = run.end \/ run'.end = Now),
         run'.state = "running" => run.state = "running",
         at'.phase # "idle" => at.phase # "idle"
  PROVE  WindowsKept'
<1>0. WindowsKept
  BY EditionHas
<1>t. /\ Now \in Nat /\ dumpAt \in Nat /\ committed \in Nat /\ run.since \in Nat /\ run.end \in Nat
      /\ Overlap \in Nat /\ linked \subseteq Nat /\ applied \subseteq Nat /\ Now' = Now
  BY EditionHas, SamePast DEF SameSets
<1>1. run.end <= run'.end /\ run'.end <= Now /\ run'.end \in Nat
  BY <1>0, <1>t DEF WindowsKept
<1>2. \A j \in linked \cup applied : j \in 1..run'.end
  BY <1>0, <1>t, <1>1 DEF WindowsKept
<1>3. Start' = Start /\ Since' = Since
  BY DEF Start, Since, SameSets
<1> QED
  BY <1>0, <1>t, <1>1, <1>2, <1>3 DEF WindowsKept, SameSets, Bootstrapping, Updating

LEMMA DiscoveryStays ==
  ASSUME EditionInv, EditionTypes', SameSets, run' = run,
         found'.listed = found.listed /\ found'.exhausted = found.exhausted,
         at'.phase = "discover" => at'.from = Start \/ (at.phase = "discover" /\ at'.from = at.from),
         at'.phase = "relist" => at.phase = "relist" /\ at'.from = at.from,
         at'.phase \in (Reads \ {"relist"}) \cup Closes => found.exhausted
  PROVE  DiscoveryKept'
<1>1. SUFFICES ASSUME run.state = "running" PROVE DiscoveryKept'
  BY DEF DiscoveryKept
<1>2. DiscoveryKept
  BY EditionHas
<1>3. (\A j \in Listed' : j \in Listed) /\ Start' = Start /\ linked' = linked
  BY SamePast DEF SameSets, Start
<1>4. found.listed # 0 => found.listed >= Start /\ found.listed <= run.end /\ FoundTo(found.listed)'
  BY <1>1, <1>2, <1>3 DEF DiscoveryKept, FoundTo
<1>5. at'.phase = "relist" /\ found.listed = 0 => at.from >= Start /\ at.from <= run.end /\ FoundTo(at.from)'
  BY <1>1, <1>2, <1>3 DEF DiscoveryKept, FoundTo
<1> QED
  BY <1>1, <1>2, <1>3, <1>4, <1>5 DEF DiscoveryKept

LEMMA FailKeeps ==
  ASSUME EditionInv, EditionTypes', SameData, at' = Idle, marker' = marker,
         run' = run \/ run' = [run EXCEPT !.state = "cancelled"],
         import' = import \/ import' = [import EXCEPT !.state = "failed"],
         found' = found \/ found' = [found EXCEPT !.state = "failed"],
         run' = run \/ givenUp' \/ ~Uncalled
  PROVE  EditionInv'
<1>0. EditionTypes /\ EngineKeeps /\ WindowsKept /\ GapKept /\ DiscoveryKept
  BY EditionHas
<1>r. /\ run'.kind = run.kind /\ run'.since = run.since /\ run'.end = run.end
      /\ run'.state = "running" => run' = run
  <2>1. run \in Runs
    BY EditionHas
  <2> QED
    BY <2>1 DEF Runs
<1>i. /\ import'.whole = import.whole /\ import'.marked = import.marked /\ import'.cursor = import.cursor
      /\ import'.state # "none" <=> import.state # "none" \/ import' # import
  <2>1. import \in DumpImports
    BY EditionHas
  <2> QED
    BY <2>1 DEF DumpImports
<1>f. found'.listed = found.listed /\ found'.exhausted = found.exhausted /\ found'.marked = found.marked
  <2>1. found \in Discoveries
    BY EditionHas
  <2> QED
    BY <2>1 DEF Discoveries
<1>a. at'.phase = "idle"
  BY IdleIs
<1>1. EngineKeeps'
  BY <1>0, <1>r, <1>i, <1>a DEF EngineKeeps, PendingChanges, Bootstrapping, Reads, Closes, SameData, SameSets, SameHistory
<1>2. WindowsKept'
  BY <1>r, <1>a, WindowsStay DEF SameData
<1>3. GapKept'
  BY <1>0, <1>r, <1>i, <1>f, <1>a DEF GapKept, Bootstrapping, Updating, Marked, SameData, SameSets, SameHistory
<1>4. DiscoveryKept'
  <2>1. CASE run'.state = "running"
    BY <1>r, <1>f, <1>a, <2>1, DiscoveryStays DEF Reads, Closes, SameData
  <2>2. CASE run'.state # "running"
    BY <2>2 DEF DiscoveryKept
  <2> QED
    BY <2>1, <2>2
<1>5. Calm
  <2>1. ~givenUp' => (FromDump => FromDump')
    BY DEF FromDump, Uncalled, Bootstrapping, Marked, SameData, SameSets
  <2>2. Grows /\ run.end \in Nat /\ import.cursor \in Nat
    BY EditionHas, SamePast DEF SameData, SameSets, SameHistory
  <2> QED
    BY <1>r, <1>i, <1>a, <2>1, <2>2 DEF Calm, SameData, SameSets, SameHistory, Bootstrapping, ReadOverTo
<1> QED
  BY <1>1, <1>2, <1>3, <1>4, <1>5, CalmStep DEF EditionInv

LEMMA SourceFailsKeeps == ASSUME EditionInv, EditionTypes', NEW r \in BOOLEAN, SourceFails(r) PROVE EditionInv'
<1>1. /\ SameData /\ at' = Idle /\ marker' = marker
      /\ run' = run \/ run' = [run EXCEPT !.state = "cancelled"]
      /\ import' = import \/ import' = [import EXCEPT !.state = "failed"]
      /\ found' = found \/ found' = [found EXCEPT !.state = "failed"]
      /\ run' = run \/ givenUp' \/ ~Uncalled
  <2>1. givenUp \in BOOLEAN
    BY DEF EditionInv, EditionTypes
  <2> QED
    BY <2>1 DEF SourceFails, FailFound, FailImport, FailRun, EndCall, SameData, SameSets, SameHistory
<1> QED
  BY <1>1, FailKeeps
LEMMA ApplyUnreadableKeeps == ASSUME EditionInv, EditionTypes', ApplyUnreadable PROVE EditionInv'
<1>1. /\ SameData /\ at' = Idle /\ marker' = marker
      /\ run' = run \/ run' = [run EXCEPT !.state = "cancelled"]
      /\ import' = import
      /\ found' = found \/ found' = [found EXCEPT !.state = "failed"]
      /\ run' = run \/ givenUp' \/ ~Uncalled
  <2>1. givenUp \in BOOLEAN
    BY DEF EditionInv, EditionTypes
  <2> QED
    BY <2>1 DEF ApplyUnreadable, FailFound, FailRun, EndCall, SameData, SameSets, SameHistory
<1> QED
  BY <1>1, FailKeeps

\* A step of the engine to a phase that needs the same of its run, found and import.
LEMMA CompleteDiscoveryKeeps == ASSUME EditionInv, EditionTypes', CompleteDiscovery PROVE EditionInv'
<1>0. EditionTypes /\ EngineKeeps /\ WindowsKept /\ GapKept /\ DiscoveryKept
  BY EditionHas
<1>s. /\ SameData /\ run' = run /\ import' = import /\ marker' = marker /\ UNCHANGED historyVars
      /\ at.phase = "apply" /\ PendingChanges = {}
  BY DEF CompleteDiscovery, SameData, SameSets, SameHistory, historyVars
<1>1. CASE at' = Idle /\ found' = found
  BY <1>s, <1>1, StillKeeps DEF SameData, SameSets, storeVars
<1>2. CASE /\ found' = [found EXCEPT !.state = "succeeded"]
           /\ at' = [at EXCEPT !.phase = IF found.marked THEN "resolve" ELSE "finish"]
  <2>f. found'.listed = found.listed /\ found'.exhausted = found.exhausted /\ found'.marked = found.marked
    <3>1. found \in Discoveries
      BY EditionHas
    <3> QED
      BY <1>2, <3>1 DEF Discoveries
  <2>a. at'.phase \in {"resolve", "finish"}
    <3>1. at \in Positions
      BY EditionHas
    <3> QED
      BY <1>2, <3>1 DEF Positions
  <2>1. EngineKeeps'
    BY <1>0, <1>s, <2>a DEF EngineKeeps, PendingChanges, Bootstrapping, Reads, Closes, SameData, SameSets, SameHistory
  <2>2. WindowsKept'
    BY <1>s, WindowsStay DEF SameData
  <2>3. GapKept'
    BY <1>0, <1>s, <2>f, <2>a DEF GapKept, Bootstrapping, Updating, Marked, SameData, SameSets, SameHistory
  <2>4. DiscoveryKept'
    <3>1. CASE run.state = "running"
      <4>1. found.exhausted
        BY <1>0, <1>s, <3>1 DEF DiscoveryKept, Closes
      <4> QED
        BY <1>s, <2>f, <2>a, <4>1, DiscoveryStays DEF SameData
    <3>2. CASE run.state # "running"
      BY <1>s, <3>2 DEF DiscoveryKept
    <3> QED
      BY <3>1, <3>2
  <2>5. Calm
    <3>1. Grows /\ run.end \in Nat /\ import.cursor \in Nat
      BY <1>s, EditionHas, SamePast DEF SameData, SameSets, SameHistory
    <3> QED
      BY <1>s, <2>a, <3>1 DEF Calm, SameData, SameSets, SameHistory, Bootstrapping, ReadOverTo, FromDump, Marked
  <2> QED
    BY <2>1, <2>2, <2>3, <2>4, <2>5, CalmStep DEF EditionInv
<1> QED
  BY <1>1, <1>2 DEF CompleteDiscovery, EndCall

LEMMA ResolveGapKeeps == ASSUME EditionInv, EditionTypes', ResolveGap PROVE EditionInv'
<1>0. EditionTypes /\ EngineKeeps /\ WindowsKept /\ GapKept /\ DiscoveryKept
  BY EditionHas
<1>s. /\ SameData /\ run' = run /\ import' = import /\ found' = found
      /\ at.phase = "resolve" /\ Marked /\ ~Marked'
  BY DEF ResolveGap, SameData, SameSets, SameHistory, historyVars, Marked
<1>b. Bootstrapping
  BY <1>0, <1>s DEF EngineKeeps, GapKept, Bootstrapping, Updating
<1>a. at'.phase = "finish"
  <2>1. at \in Positions
    BY EditionHas
  <2> QED
    BY <2>1 DEF Positions, ResolveGap
<1>1. EngineKeeps'
  BY <1>0, <1>s, <1>a DEF EngineKeeps, PendingChanges, Bootstrapping, Reads, Closes, SameData, SameSets, SameHistory
<1>2. WindowsKept'
  BY <1>s, WindowsStay DEF SameData
<1>3. GapKept'
  BY <1>0, <1>s, <1>a, <1>b DEF GapKept, Bootstrapping, Updating
<1>4. DiscoveryKept'
  <2>1. found.exhausted
    BY <1>0, <1>s, <1>b DEF DiscoveryKept, Closes, Bootstrapping
  <2> QED
    BY <1>s, <1>a, <2>1, DiscoveryStays DEF SameData
<1>5. Calm
  <2>1. Grows /\ run.end \in Nat /\ import.cursor \in Nat
    BY <1>s, EditionHas, SamePast DEF SameData, SameSets, SameHistory
  <2> QED
    BY <1>s, <1>a, <1>b, <2>1 DEF Calm, SameData, SameSets, SameHistory, Bootstrapping, ReadOverTo, FromDump
<1> QED
  BY <1>1, <1>2, <1>3, <1>4, <1>5, CalmStep DEF EditionInv

LEMMA CompleteImportKeeps == ASSUME EditionInv, EditionTypes', CompleteImport PROVE EditionInv'
<1>0. EditionTypes /\ EngineKeeps /\ WindowsKept /\ GapKept /\ DiscoveryKept
  BY EditionHas
<1>s. /\ SameData /\ run' = run /\ found' = found /\ marker' = marker /\ at.phase = "complete"
  BY DEF CompleteImport, SameData, SameSets, SameHistory, historyVars
<1>i. /\ import'.whole = import.whole /\ import'.marked = import.marked /\ import'.cursor = import.cursor
      /\ import'.state # "none"
  <2>1. import \in DumpImports
    BY EditionHas
  <2> QED
    BY <2>1 DEF DumpImports, CompleteImport
<1>a. at'.phase = "apply"
  <2>1. at \in Positions
    BY EditionHas
  <2> QED
    BY <2>1 DEF Positions, CompleteImport
<1>1. EngineKeeps'
  BY <1>0, <1>s, <1>i, <1>a DEF EngineKeeps, PendingChanges, Bootstrapping, Reads, Closes, SameData, SameSets, SameHistory
<1>2. WindowsKept'
  BY <1>s, WindowsStay DEF SameData
<1>3. GapKept'
  BY <1>0, <1>s, <1>i, <1>a DEF GapKept, Bootstrapping, Updating, Marked, SameData, SameSets, SameHistory
<1>4. DiscoveryKept'
  <2>1. found.exhausted
    BY <1>0, <1>s DEF DiscoveryKept, EngineKeeps, Reads
  <2> QED
    BY <1>s, <1>a, <2>1, DiscoveryStays DEF SameData
<1>5. Calm
  <2>1. Grows /\ run.end \in Nat /\ import.cursor \in Nat
    BY <1>s, EditionHas, SamePast DEF SameData, SameSets, SameHistory
  <2> QED
    BY <1>s, <1>i, <1>a, <2>1 DEF Calm, SameData, SameSets, SameHistory, Bootstrapping, ReadOverTo, FromDump, Marked
<1> QED
  BY <1>1, <1>2, <1>3, <1>4, <1>5, CalmStep DEF EditionInv

LEMMA EndListingKeeps == ASSUME EditionInv, EditionTypes', EndListing PROVE EditionInv'
<1>0. EditionTypes /\ EngineKeeps /\ WindowsKept /\ GapKept /\ DiscoveryKept
  BY EditionHas
<1>t. at.part \in Nat /\ import.cursor \in Nat /\ Len(Order) \in Nat
  BY EditionHas
<1>s. /\ SameData /\ run' = run /\ found' = found /\ marker' = marker /\ import' = import
      /\ found.exhausted /\ at.phase \in {"discover", "relist"}
  BY DEF EndListing, SameData, SameSets, SameHistory, storeVars, historyVars
<1>a. \/ at.phase = "relist" /\ at.part > Len(Order) /\ at'.phase = "complete"
      \/ at.phase = "relist" /\ at.part <= Len(Order) /\ at'.phase = "scan" /\ at'.part = at.part
      \/ run.kind = "update" /\ at'.phase = "apply"
      \/ run.kind # "update" /\ at'.phase = "scan" /\ at'.part = 1
  <2>1. at \in Positions
    BY EditionHas
  <2> QED
    BY <1>t, <2>1 DEF Positions, EndListing
<1>1. EngineKeeps'
  BY <1>0, <1>s, <1>t, <1>a DEF EngineKeeps, PendingChanges, Bootstrapping, Reads, Closes, SameData, SameSets, SameHistory
<1>2. WindowsKept'
  BY <1>s, WindowsStay DEF SameData
<1>3. GapKept'
  BY <1>0, <1>s, <1>a DEF GapKept, Bootstrapping, Updating, Marked, SameData, SameSets, SameHistory
<1>4. DiscoveryKept'
  BY <1>s, <1>a, DiscoveryStays DEF SameData
<1>5. Calm
  <2>1. Grows /\ run.end \in Nat /\ import.cursor \in Nat
    BY <1>s, EditionHas, SamePast DEF SameData, SameSets, SameHistory
  <2> QED
    BY <1>s, <1>a, <2>1 DEF Calm, SameData, SameSets, SameHistory, Bootstrapping, ReadOverTo, FromDump, Marked
<1> QED
  BY <1>1, <1>2, <1>3, <1>4, <1>5, CalmStep DEF EditionInv

LEMMA ClaimDiscoveryKeeps == ASSUME EditionInv, EditionTypes', ClaimDiscovery PROVE EditionInv'
<1>0. EditionTypes /\ EngineKeeps /\ WindowsKept /\ GapKept /\ DiscoveryKept
  BY EditionHas
<1>s. /\ SameData /\ run' = run /\ marker' = marker /\ import' = import /\ UNCHANGED historyVars
      /\ at.phase = "claim"
  BY DEF ClaimDiscovery, SameData, SameSets, SameHistory, historyVars
<1>1. CASE at' = Idle /\ found' = found
  BY <1>s, <1>1, StillKeeps DEF SameData, SameSets, storeVars
<1>2. CASE /\ ~(run.kind = "update" /\ Marked)
           /\ found' = [found EXCEPT !.state = IF @ = "succeeded" THEN @ ELSE "running", !.marked = Marked]
           /\ at' = [at EXCEPT !.phase = "discover",
                               !.from = IF run.kind = "update" THEN run.since ELSE dumpAt]
  <2>f. found'.listed = found.listed /\ found'.exhausted = found.exhausted /\ found'.marked = Marked
    <3>1. found \in Discoveries
      BY EditionHas
    <3> QED
      BY <1>2, <3>1 DEF Discoveries
  <2>a. at'.phase = "discover" /\ at'.from = Start
    <3>1. at \in Positions
      BY EditionHas
    <3> QED
      BY <1>2, <3>1 DEF Positions, Start
  <2>1. EngineKeeps'
    BY <1>0, <1>s, <2>a DEF EngineKeeps, PendingChanges, Bootstrapping, Reads, Closes, SameData, SameSets, SameHistory
  <2>2. WindowsKept'
    BY <1>s, WindowsStay DEF SameData
  <2>3. GapKept'
    BY <1>0, <1>2, <1>s, <2>f, <2>a DEF GapKept, Bootstrapping, Updating, Marked, SameData, SameSets, SameHistory
  <2>4. DiscoveryKept'
    BY <1>s, <2>f, <2>a, DiscoveryStays DEF Reads, Closes, SameData
  <2>5. Calm
    <3>1. Grows /\ run.end \in Nat /\ import.cursor \in Nat
      BY <1>s, EditionHas, SamePast DEF SameData, SameSets, SameHistory
    <3> QED
      BY <1>s, <2>a, <3>1 DEF Calm, SameData, SameSets, SameHistory, Bootstrapping, ReadOverTo, FromDump, Marked
  <2> QED
    BY <2>1, <2>2, <2>3, <2>4, <2>5, CalmStep DEF EditionInv
<1> QED
  BY <1>1, <1>2 DEF ClaimDiscovery, EndCall

LEMMA ClaimImportKeeps == ASSUME EditionInv, EditionTypes', ClaimImport PROVE EditionInv'
<1>0. EditionTypes /\ EngineKeeps /\ WindowsKept /\ GapKept /\ DiscoveryKept
  BY EditionHas
<1>s. /\ SameData /\ run' = run /\ found' = found /\ UNCHANGED historyVars
      /\ at.phase = "import" /\ run.kind = "bootstrap"
  BY <1>0 DEF ClaimImport, SameData, SameSets, SameHistory, historyVars, EngineKeeps
<1> DEFINE state == IF import.state = "succeeded" THEN "succeeded" ELSE "running"
           Refused == import.state # "none" /\ (import.boundary # run.end \/ (import.whole /\ import.marked # Marked))
<1>1. CASE at' = Idle /\ import' = import /\ marker' = marker
  BY <1>s, <1>1, StillKeeps DEF SameData, SameSets, storeVars
<1>2. CASE /\ ~Refused
           /\ \/ /\ import.whole /\ import' = [import EXCEPT !.state = state]
                 /\ at' = [at EXCEPT !.phase = "claim"] /\ marker' = marker
              \/ /\ ~import.whole /\ marker.state # "recovering"
                 /\ import' = [import EXCEPT !.state = state, !.boundary = run.end, !.whole = TRUE, !.marked = Marked]
                 /\ marker' = IF Marked THEN [state |-> "recovering", mine |-> TRUE] ELSE marker
                 /\ at' = [at EXCEPT !.phase = "claim"]
              \/ /\ ~import.whole /\ marker.state = "recovering"
                 /\ import' = [import EXCEPT !.state = state, !.boundary = run.end]
                 /\ at' = Idle /\ marker' = marker
  <2>m. Marked' = Marked
    BY <1>2 DEF Marked
  <2>i. /\ import'.state # "none" /\ import'.cursor = import.cursor
        /\ \/ import.whole /\ import'.whole /\ import'.marked = import.marked /\ import'.marked = Marked /\ at'.phase = "claim"
           \/ ~import.whole /\ import'.whole /\ import'.marked = Marked /\ at'.phase = "claim"
           \/ ~import.whole /\ Marked /\ at'.phase = "idle"
    <3>1. import \in DumpImports /\ at \in Positions
      BY EditionHas
    <3>2. state # "none"
      OBVIOUS
    <3>3. import.whole => import.marked = Marked
      BY <1>0, <1>2 DEF EngineKeeps
    <3>4. [at EXCEPT !.phase = "claim"].phase = "claim"
      BY <3>1 DEF Positions
    <3> HIDE DEF state, Refused
    <3> QED
      BY <1>2, <3>1, <3>2, <3>3, <3>4, IdleIs DEF DumpImports, Marked
  <2>1. EngineKeeps'
    BY <1>0, <1>s, <2>i DEF EngineKeeps, PendingChanges, Bootstrapping, Reads, Closes, SameData, SameSets, SameHistory
  <2>2. WindowsKept'
    BY <1>s, WindowsStay DEF SameData
  <2>3. GapKept'
    <3> HIDE DEF Refused
    <3> QED
      BY <1>0, <1>s, <2>m, <2>i DEF GapKept, Bootstrapping, Updating, SameData, SameSets, SameHistory
  <2>4. DiscoveryKept'
    BY <1>s, <2>i, DiscoveryStays DEF Reads, Closes, SameData
  <2>5. Calm
    <3>1. Grows /\ run.end \in Nat /\ import.cursor \in Nat
      BY <1>s, EditionHas, SamePast DEF SameData, SameSets, SameHistory
    <3> HIDE DEF Refused
    <3> QED
      BY <1>s, <2>m, <2>i, <3>1 DEF Calm, SameData, SameSets, SameHistory, Bootstrapping, ReadOverTo, FromDump
  <2> QED
    BY <2>1, <2>2, <2>3, <2>4, <2>5, CalmStep DEF EditionInv
<1> QED
  BY <1>1, <1>2 DEF ClaimImport, EndCall

LEMMA RecordKeeps == ASSUME EditionInv, EditionTypes', RecordArticle \/ RecordPart PROVE EditionInv'
<1>0. EditionTypes /\ EngineKeeps /\ WindowsKept /\ GapKept /\ DiscoveryKept
  BY EditionHas
<1>t. at.part \in Nat /\ import.cursor \in Nat /\ Len(Order) \in Nat
  BY EditionHas
<1>s. SameData /\ found' = found /\ marker' = marker /\ at.phase \in {"record", "progress"}
  <2>1. givenUp \in BOOLEAN
    BY DEF EditionInv, EditionTypes
  <2> QED
    BY <2>1 DEF RecordArticle, RecordPart, Advance, FailImport, FailRun, SameData, SameSets, SameHistory
<1>1. CASE FailImport(FALSE) /\ EndCall("refused")
  <2>1. /\ at' = Idle
        /\ run' = run \/ run' = [run EXCEPT !.state = "cancelled"]
        /\ import' = import \/ import' = [import EXCEPT !.state = "failed"]
    BY <1>1 DEF FailImport, FailRun, EndCall
  <2>2. run' = run \/ givenUp' \/ ~Uncalled
    <3>1. givenUp \in BOOLEAN
      BY DEF EditionInv, EditionTypes
    <3> QED
      BY <1>1, <3>1 DEF FailImport, FailRun
  <2> QED
    BY <1>s, <2>1, <2>2, FailKeeps
<1>2. CASE /\ at.part >= import.cursor /\ import.state = "running"
           /\ import' = [import EXCEPT !.cursor = at.part] /\ run' = run
           /\ \/ at.phase = "record" /\ at' = [at EXCEPT !.phase = "progress"]
              \/ at.phase = "progress" /\ at' = [at EXCEPT !.phase = "tail"]
  <2>i. /\ import'.whole = import.whole /\ import'.marked = import.marked /\ import'.state = import.state
        /\ import'.cursor = at.part
    <3>1. import \in DumpImports
      BY EditionHas
    <3> QED
      BY <1>2, <3>1 DEF DumpImports
  <2>a. /\ at'.part = at.part
        /\ \/ at.phase = "record" /\ at'.phase = "progress"
           \/ at.phase = "progress" /\ at'.phase = "tail"
    <3>1. at \in Positions
      BY EditionHas
    <3> QED
      BY <1>2, <3>1 DEF Positions
  <2>1. EngineKeeps'
    BY <1>0, <1>2, <1>s, <1>t, <2>i, <2>a DEF EngineKeeps, PendingChanges, Bootstrapping, Reads, Closes, SameData, SameSets, SameHistory
  <2>2. WindowsKept'
    BY <1>2, <1>s, WindowsStay DEF SameData
  <2>3. GapKept'
    BY <1>0, <1>2, <1>s, <2>i, <2>a DEF GapKept, Bootstrapping, Updating, Marked, SameData, SameSets, SameHistory
  <2>4. DiscoveryKept'
    <3>1. found.exhausted
      BY <1>0, <1>s DEF DiscoveryKept, EngineKeeps, Reads
    <3> QED
      BY <1>2, <1>s, <2>a, <3>1, DiscoveryStays DEF SameData
  <2>5. Calm
    <3>1. Grows /\ run.end \in Nat /\ import.cursor \in Nat
      BY <1>s, EditionHas, SamePast DEF SameData, SameSets, SameHistory
    <3>2. \A p \in 1..Len(Order) : ReadOverTo(p)' => ReadOverTo(p)
      BY <1>0, <1>t, <1>s, <2>i, <2>a DEF ReadOverTo, EngineKeeps
    <3>3. at'.phase # "mark"
      BY <2>a
    <3>4. FromDump' = FromDump
      BY <1>2, <1>s DEF FromDump, Bootstrapping, Marked, SameData, SameSets, SameHistory
    <3>5. import.cursor <= import'.cursor
      BY <1>2, <1>t, <2>i
    <3> QED
      BY <1>2, <1>s, <3>1, <3>2, <3>3, <3>4, <3>5 DEF Calm, SameData, SameSets, SameHistory, Bootstrapping
  <2> QED
    BY <2>1, <2>2, <2>3, <2>4, <2>5, CalmStep DEF EditionInv
<1>3. ~(import.state # "running" \/ at.part < import.cursor) => at.part >= import.cursor /\ import.state = "running"
  BY <1>t
<1> QED
  BY <1>1, <1>2, <1>3 DEF RecordArticle, RecordPart, Advance

LEMMA ExtendWindowKeeps == ASSUME EditionInv, EditionTypes', ExtendWindow PROVE EditionInv'
<1>0. EditionTypes /\ EngineKeeps /\ WindowsKept /\ GapKept /\ DiscoveryKept
  BY EditionHas
<1>t. /\ at.part \in Nat /\ import.cursor \in Nat /\ Len(Order) \in Nat /\ run.end \in Nat /\ Now \in Nat
      /\ dumpAt \in Nat /\ Overlap \in Nat /\ found.listed \in Nat
  BY EditionHas
<1>s. SameData /\ marker' = marker /\ import' = import /\ at.phase = "tail"
  BY DEF ExtendWindow, SameData, SameSets, SameHistory, historyVars
<1>b. run.state = "running" /\ run.kind = "bootstrap" /\ found.exhausted
  BY <1>0, <1>s DEF EngineKeeps, DiscoveryKept, Reads
<1>a. /\ at'.part = at.part + 1
      /\ \/ /\ run' = run /\ found' = found
            /\ at'.phase = IF at.part = Len(Order) THEN "complete" ELSE "scan"
         \/ /\ run' = [run EXCEPT !.end = Now] /\ found'.listed = 0 /\ ~found'.exhausted /\ found'.marked = found.marked
            /\ at'.phase = "relist" /\ at'.from = run.end
  <2>1. at \in Positions /\ found \in Discoveries
    BY EditionHas
  <2>2. \/ /\ run' = run /\ found' = found
           /\ at' = [[at EXCEPT !.part = @ + 1] EXCEPT !.phase = IF at.part = Len(Order) THEN "complete" ELSE "scan"]
        \/ /\ run' = [run EXCEPT !.end = Now] /\ found' = [found EXCEPT !.listed = 0, !.exhausted = FALSE]
           /\ at' = [[at EXCEPT !.part = @ + 1] EXCEPT !.phase = "relist", !.from = run.end]
    BY DEF ExtendWindow
  <2> QED
    BY <2>1, <2>2 DEF Positions, Discoveries
<1>r. run'.kind = run.kind /\ run'.since = run.since /\ run'.state = run.state /\ (run'.end = run.end \/ run'.end = Now)
  <2>1. run \in Runs
    BY EditionHas
  <2> QED
    BY <1>a, <2>1 DEF Runs
<1>e. run.end <= run'.end /\ run.end <= Now
  BY <1>0, <1>t, <1>r DEF WindowsKept
<1>p. at.part \in 1..Len(Order) /\ import.cursor = at.part
  BY <1>0, <1>s DEF EngineKeeps
<1>1. EngineKeeps'
  BY <1>0, <1>s, <1>b, <1>a, <1>r, <1>t, <1>p DEF EngineKeeps, PendingChanges, Bootstrapping, Reads, Closes, SameData, SameSets, SameHistory
<1>2. WindowsKept'
  BY <1>s, <1>r, WindowsStay DEF SameData
<1>3. GapKept'
  BY <1>0, <1>s, <1>a, <1>b, <1>r DEF GapKept, Bootstrapping, Updating, Marked, SameData, SameSets, SameHistory
<1>4. DiscoveryKept'
  <2>1. CASE run' = run /\ found' = found
    BY <1>s, <1>a, <1>b, <2>1, DiscoveryStays DEF SameData
  <2>2. CASE found'.listed = 0 /\ ~found'.exhausted /\ at'.phase = "relist" /\ at'.from = run.end
    <3>1. Start = dumpAt /\ Start' = dumpAt /\ run.end # 0 /\ dumpAt <= run.end
      BY <1>0, <1>s, <1>b, <1>r, <1>t DEF Start, WindowsKept, Bootstrapping, SameData, SameSets, SameHistory
    <3>2. found.listed = run.end /\ FoundTo(found.listed)
      BY <1>0, <1>b, <3>1 DEF DiscoveryKept
    <3>3. \A j \in Listed' : j \in Listed
      BY <1>s, SamePast DEF SameData, SameSets, SameHistory
    <3>4. FoundTo(at.from)'
      BY <1>s, <2>2, <3>1, <3>2, <3>3 DEF FoundTo, SameData, SameSets, SameHistory
    <3> QED
      BY <1>e, <1>t, <2>2, <3>1, <3>4 DEF DiscoveryKept, Reads, Closes
  <2> QED
    BY <1>a, <2>1, <2>2
<1>5. Calm
  <2>1. Grows
    BY <1>s, SamePast DEF SameData, SameSets, SameHistory
  <2> QED
    BY <1>s, <1>r, <1>e, <1>a, <1>t, <2>1 DEF Calm, SameData, SameSets, SameHistory, Bootstrapping, ReadOverTo, FromDump, Marked
<1> QED
  BY <1>1, <1>2, <1>3, <1>4, <1>5, CalmStep DEF EditionInv

\* An update begins while the wiki lists all since a little before the checkpoint.
LEMMA WindowListed ==
  ASSUME EditionInv, Now - committed <= MaxGap
  PROVE  Now <= Since + Retention
<1>1. Now \in Nat /\ committed \in Nat /\ MaxGap \in Nat /\ Overlap \in Nat /\ Retention \in Nat
  BY EditionHas, FieldTypes
<1>2. MaxGap + Overlap <= Retention
  BY EditionAssumption
<1> QED
  BY <1>1, <1>2 DEF Since

LEMMA ResumeKeeps ==
  ASSUME EditionInv, EditionTypes', SameData, run.state = "running",
         UNCHANGED <<run, import, found, linked, marker>>, at.phase = "idle",
         \/ at'.phase = "import" /\ run.kind = "bootstrap"
         \/ at'.phase = "claim" /\ run.kind = "update" /\ Now - committed <= MaxGap
  PROVE  EditionInv'
<1>0. EditionTypes /\ EngineKeeps /\ WindowsKept /\ GapKept /\ DiscoveryKept
  BY EditionHas
<1>s. run' = run /\ import' = import /\ found' = found /\ marker' = marker /\ linked' = linked
  OBVIOUS
<1>1. EngineKeeps'
  BY <1>0, <1>s DEF EngineKeeps, PendingChanges, Bootstrapping, Reads, Closes, SameData, SameSets, SameHistory
<1>2. WindowsKept'
  <2>1. Now' = Now /\ Start' = Start /\ Since' = Since
    BY <1>s, SamePast DEF SameData, SameSets, SameHistory, Start, Since
  <2>2. run.kind = "update" => Now <= Since + Retention
    BY <1>0, WindowListed
  <2> QED
    BY <1>0, <1>s, <2>1, <2>2 DEF WindowsKept, Bootstrapping, Updating, SameData, SameSets, SameHistory
<1>3. GapKept'
  BY <1>0, <1>s DEF GapKept, Bootstrapping, Updating, Marked, SameData, SameSets, SameHistory
<1>4. DiscoveryKept'
  BY <1>s, DiscoveryStays DEF Reads, Closes, SameData
<1>5. Calm
  <2>1. Grows /\ run.end \in Nat /\ import.cursor \in Nat
    BY EditionHas, SamePast DEF SameData, SameSets, SameHistory
  <2> QED
    BY <1>s, <2>1 DEF Calm, SameData, SameSets, SameHistory, Bootstrapping, ReadOverTo, FromDump, Marked
<1> QED
  BY <1>1, <1>2, <1>3, <1>4, <1>5, CalmStep DEF EditionInv

LEMMA MarkLongGapKeeps ==
  ASSUME EditionInv, EditionTypes', SameData, MarkLongGap, at' = Idle, run' = run, import' = import, found' = found
  PROVE  EditionInv'
<1>0. EditionTypes /\ EngineKeeps /\ WindowsKept /\ GapKept /\ DiscoveryKept
  BY EditionHas
<1>m. Marked' /\ at'.phase = "idle"
  <2>1. marker \in Markers
    BY EditionHas
  <2> QED
    BY <2>1, IdleIs DEF MarkLongGap, Marked, Markers
<1>1. EngineKeeps'
  BY <1>0, <1>m DEF EngineKeeps, PendingChanges, Bootstrapping, Reads, Closes, SameData, SameSets, SameHistory
<1>2. WindowsKept'
  BY <1>m, WindowsStay DEF SameData
<1>3. GapKept'
  BY <1>m DEF GapKept
<1>4. DiscoveryKept'
  BY <1>m, DiscoveryStays DEF Reads, Closes, SameData
<1>5. Calm
  <2>1. Grows /\ run.end \in Nat /\ import.cursor \in Nat
    BY EditionHas, SamePast DEF SameData, SameSets, SameHistory
  <2> QED
    BY <1>m, <2>1 DEF Calm, SameData, SameSets, SameHistory, Bootstrapping, ReadOverTo, FromDump
<1> QED
  BY <1>1, <1>2, <1>3, <1>4, <1>5, CalmStep DEF EditionInv

LEMMA NewRunKeeps ==
  ASSUME EditionInv, EditionTypes', NEW kind \in {"bootstrap", "update"}, NewRun(kind),
         log' = log, dumpAt' = dumpAt, local' = local, applied' = applied, committed' = committed,
         SameHistory, at.phase = "idle", run.state # "running",
         \/ kind = "bootstrap" /\ at'.phase = "import" /\ Published
         \/ kind = "update" /\ at'.phase = "claim" /\ committed # 0 /\ Now - committed <= MaxGap
  PROVE  EditionInv'
<1>0. EditionTypes /\ EngineKeeps /\ WindowsKept /\ GapKept /\ DiscoveryKept
  BY EditionHas
<1>t. /\ Now \in Nat /\ dumpAt \in Nat /\ committed \in Nat /\ run.end \in Nat /\ Len(Order) \in Nat
      /\ Overlap \in Nat /\ Retention \in Nat
  BY EditionHas
<1>s. /\ run'.state = "running" /\ run'.kind = kind /\ run'.since = Since /\ run'.end = Now
      /\ import'.cursor = 0 /\ ~import'.whole /\ found'.listed = 0 /\ ~found'.exhausted /\ linked' = {}
      /\ Marked' = Marked
  <2>1. run' = [state |-> "running", kind |-> kind, since |-> Since, end |-> Now]
    BY <1>0, NewRunTypes
  <2>2. import'.cursor = 0 /\ ~import'.whole /\ found'.listed = 0 /\ ~found'.exhausted /\ linked' = {}
    BY DEF NewRun, NoImport, NotFound
  <2>3. marker \in Markers
    BY EditionHas
  <2>4. Marked' = Marked
    BY <2>3 DEF NewRun, Marked, Markers
  <2> QED
    BY <2>1, <2>2, <2>4
<1>g. Grows /\ Now' = Now
  BY SamePast
<1>1. EngineKeeps'
  BY <1>0, <1>s, <1>t DEF EngineKeeps, PendingChanges, Bootstrapping, Reads, Closes
<1>2. WindowsKept'
  <2>1. kind = "update" => Now <= Since + Retention
    BY WindowListed
  <2>2. kind = "bootstrap" => dumpAt + Overlap <= Now /\ Now <= dumpAt + Retention
    BY <1>t DEF Published
  <2>3. Since' = Since
    BY DEF Since
  <2>4. \A j \in applied : j \in 1..Now
    BY <1>0, <1>t DEF WindowsKept, EditionTypes
  <2> QED
    BY <1>0, <1>s, <1>t, <1>g, <2>1, <2>2, <2>3, <2>4 DEF WindowsKept, Bootstrapping, Updating
<1>3. GapKept'
  BY <1>s DEF GapKept, Bootstrapping, Updating
<1>4. DiscoveryKept'
  BY <1>s DEF DiscoveryKept, Reads, Closes
<1>5. Known' /\ Ordered' /\ Closed'
  <2>1. FromDump => FromDump'
    BY <1>s DEF FromDump, Bootstrapping
  <2>2. dumpAt' >= dumpAt /\ linked' \subseteq linked
    BY <1>t, <1>s
  <2> QED
    BY <1>g, <2>1, <2>2, SetsStay DEF SameHistory
<1>6. ChangesShown' /\ CheckpointCovers'
  <2>1. \A a \in Articles : local[a].edit \in Nat
    BY <1>0, FieldTypes
  <2>2. LocalGrows
    BY <2>1 DEF LocalGrows
  <2> QED
    BY <1>g, <2>2, ChangesStay, CheckpointStays DEF SameHistory
<1>7. EditsShown'
  BY <1>g, <1>s, EditsStay
<1>8. DumpShown'
  BY <1>s, <1>t DEF DumpShown, ReadOverTo, Bootstrapping
<1> QED
  BY <1>1, <1>2, <1>3, <1>4, <1>5, <1>6, <1>7, <1>8 DEF EditionInv

LEMMA StartBootstrapKeeps == ASSUME EditionInv, EditionTypes', StartBootstrap PROVE EditionInv'
<1>1. EngineKeeps /\ at'.phase = "import"
  BY EditionHas DEF StartBootstrap, Idle
<1>2. CASE run.state = "running"
  <2>1. run.kind = "bootstrap" /\ UNCHANGED <<run, import, found, linked, marker>> /\ SameData /\ at.phase = "idle"
    BY <1>1, <1>2 DEF EngineKeeps, StartBootstrap, SameData, SameSets, SameHistory, historyVars
  <2> QED
    BY <1>1, <1>2, <2>1, ResumeKeeps
<1>3. CASE run.state # "running"
  BY <1>1, <1>3, NewRunKeeps DEF StartBootstrap, SameHistory, historyVars
<1> QED
  BY <1>2, <1>3

LEMMA StartUpdateKeeps == ASSUME EditionInv, EditionTypes', StartUpdate PROVE EditionInv'
<1>1. EngineKeeps /\ Now \in Nat /\ committed \in Nat /\ MaxGap \in Nat
  BY EditionHas, FieldTypes
<1>2. CASE Now - committed > MaxGap
  <2>1. SameData /\ MarkLongGap /\ at' = Idle /\ run' = run /\ import' = import /\ found' = found
    BY <1>2 DEF StartUpdate, EndCall, SameData, SameSets, SameHistory, historyVars
  <2> QED
    BY <2>1, MarkLongGapKeeps
<1>3. CASE ~(Now - committed > MaxGap)
  <2>1. Now - committed <= MaxGap /\ at'.phase = "claim"
    BY <1>1, <1>3 DEF StartUpdate, Idle
  <2>2. CASE run.state = "running"
    <3>1. run.kind = "update" /\ UNCHANGED <<run, import, found, linked, marker>> /\ SameData /\ at.phase = "idle"
      BY <1>1, <1>3, <2>2 DEF EngineKeeps, StartUpdate, SameData, SameSets, SameHistory, historyVars
    <3> QED
      BY <2>1, <2>2, <3>1, ResumeKeeps
  <2>3. CASE run.state # "running"
    BY <1>3, <2>1, <2>3, NewRunKeeps DEF StartUpdate, SameHistory, historyVars
  <2> QED
    BY <2>2, <2>3
<1> QED
  BY <1>2, <1>3

LEMMA ListBatchKeeps == ASSUME EditionInv, EditionTypes', ListBatch PROVE EditionInv'
<1>0. EditionTypes /\ EngineKeeps /\ WindowsKept /\ GapKept /\ DiscoveryKept /\ Known /\ Ordered /\ Closed
  BY EditionHas
<1>t. /\ Now \in Nat /\ dumpAt \in Nat /\ committed \in Nat /\ run.since \in Nat /\ run.end \in Nat
      /\ found.listed \in Nat /\ at.from \in Nat /\ linked \subseteq Nat /\ applied \subseteq Nat
      /\ Overlap \in Nat
  BY EditionHas
<1> DEFINE first == IF found.listed = 0 THEN at.from ELSE found.listed + 1
<1>s. /\ log' = log /\ local' = local /\ dumpAt' = dumpAt /\ committed' = committed /\ applied' = applied
      /\ run' = run /\ import' = import /\ marker' = marker /\ at' = at
      /\ at.phase \in {"discover", "relist"} /\ givenUp' = givenUp /\ overtaken' = overtaken
  BY DEF ListBatch, historyVars
<1>u. PICK upto \in first..run.end :
        /\ linked' = linked \cup (Listed \cap first..upto)
        /\ found' = [found EXCEPT !.listed = upto, !.exhausted = (upto = run.end)]
  BY DEF ListBatch
<1>r. run.state = "running" /\ Start \in Nat /\ Start' = Start
  BY <1>0, <1>s, <1>t DEF EngineKeeps, Start
<1>f. found'.listed = upto /\ (found'.exhausted <=> upto = run.end) /\ found'.marked = found.marked
  <2>1. found \in Discoveries
    BY EditionHas
  <2> QED
    BY <1>u, <2>1 DEF Discoveries
<1>p. /\ found.listed # 0 => found.listed >= Start /\ FoundTo(found.listed)
      /\ found.listed = 0 => at.from >= Start /\ (at.from = Start \/ FoundTo(at.from))
  BY <1>0, <1>r, <1>s, <1>t DEF DiscoveryKept
<1>q. first \in Nat /\ first >= Start /\ upto \in Nat /\ first <= upto /\ upto <= run.end
  BY <1>t, <1>r, <1>p, <1>u
<1>l. /\ \A j \in linked' : j \in linked \/ (j \in Listed /\ j >= Start /\ j <= run.end)
      /\ \A j \in linked : j \in linked'
      /\ \A j \in Listed : j >= first /\ j <= upto => j \in linked'
  <2>1. \A j \in Listed : j \in Nat
    BY SamePast DEF Listed
  <2> HIDE DEF first
  <2> QED
    BY <1>u, <1>q, <1>r, <1>t, <2>1
<1>g. Grows /\ Now' = Now /\ \A j \in Listed' : j \in Listed /\ j \in 1..Now
  BY <1>s, SamePast
<1>n. \A j \in Listed : j \in 1..Now
  BY DEF Listed
<1>1. EngineKeeps'
  BY <1>0, <1>s DEF EngineKeeps, Bootstrapping, Reads, Closes
<1>2. WindowsKept'
  <2>4. \A j \in linked \cup applied : j \in 1..run.end
    BY <1>0 DEF WindowsKept
  <2>5. \A j \in Listed : j <= run.end => j \in 1..run.end
    BY <1>n, <1>t
  <2>1. \A j \in linked' \cup applied : j \in 1..run.end
    BY <1>l, <2>4, <2>5
  <2>2. \A j \in linked' : j >= Start
    BY <1>0, <1>l, <1>r DEF WindowsKept
  <2>3. Since' = Since
    BY <1>s DEF Since
  <2> QED
    BY <1>0, <1>s, <1>g, <1>r, <2>1, <2>2, <2>3 DEF WindowsKept, Bootstrapping, Updating
<1>3. GapKept'
  BY <1>0, <1>s, <1>f DEF GapKept, Bootstrapping, Updating, Marked
<1>4. DiscoveryKept'
  <2>1. ASSUME NEW j \in Listed', j >= Start', j <= upto PROVE j \in linked'
    <3>1. j \in Listed /\ j \in Nat /\ j >= Start
      BY <1>g, <1>r, <2>1
    <3>2. CASE j >= first
      BY <1>l, <2>1, <3>1, <3>2
    <3>3. CASE j < first /\ found.listed # 0
      BY <1>l, <1>p, <1>t, <3>1, <3>3 DEF FoundTo
    <3>4. CASE j < first /\ found.listed = 0
      BY <1>l, <1>p, <1>t, <1>r, <3>1, <3>4 DEF FoundTo
    <3> QED
      BY <1>q, <3>1, <3>2, <3>3, <3>4
  <2>2. FoundTo(found.listed)'
    BY <1>f, <2>1 DEF FoundTo
  <2>3. found'.listed = 0 => found.listed = 0
    BY <1>f, <1>q, <1>t
  <2>4. at'.phase = "discover" => at'.from = Start'
    BY <1>0, <1>r, <1>s DEF DiscoveryKept
  <2>5. at'.phase = "relist" /\ found'.listed = 0 => at'.from >= Start' /\ at'.from <= run'.end /\ FoundTo(at.from)'
    BY <1>0, <1>r, <1>s, <1>g, <1>l, <2>3 DEF DiscoveryKept, FoundTo
  <2>6. upto >= Start
    BY <1>q, <1>r
  <2> QED
    BY <1>s, <1>r, <1>f, <1>q, <2>2, <2>4, <2>5, <2>6 DEF DiscoveryKept, Reads, Closes
<1>d. FromDump => Start = dumpAt
  BY <1>0, <1>r, <1>s DEF FromDump, Start, GapKept, WindowsKept, EngineKeeps, Bootstrapping, Updating
<1>k. \A j \in Listed : j >= Start /\ j <= committed => j \in applied
  BY <1>0, <1>r DEF Known, Start, WindowsKept, EngineKeeps, Updating
<1>5. Known'
  <2>1. Since' = Since
    BY <1>s DEF Since
  <2> QED
    BY <1>0, <1>s, <1>g, <1>l, <1>k, <2>1 DEF Known
<1>6. Ordered'
  <2>1. SUFFICES ASSUME ~givenUp, NEW k \in applied, NEW j \in linked', j \notin applied PROVE k < j
    BY <1>s DEF Ordered, PendingChanges
  <2>2. CASE j \in linked
    BY <1>0, <2>1, <2>2 DEF Ordered, PendingChanges
  <2>3. CASE j \in Listed /\ j >= Start
    <3>1. j \in Nat /\ k \in Nat /\ committed < j
      BY <1>k, <1>n, <1>t, <2>1, <2>3
    <3>2. ~(j < k)
      BY <1>0, <1>d, <2>1, <2>3, <3>1 DEF Closed
    <3> QED
      BY <2>1, <3>1, <3>2
  <2> QED
    BY <1>l, <2>1, <2>2, <2>3
<1>7. Closed'
  BY <1>0, <1>s, <1>g DEF Closed, FromDump, Bootstrapping, Marked
<1>8. LocalGrows
  <2>1. \A a \in Articles : local[a].edit \in Nat
    BY <1>0, FieldTypes
  <2> QED
    BY <1>s, <2>1 DEF LocalGrows
<1>9. ChangesShown' /\ CheckpointCovers'
  BY <1>g, <1>s, <1>8, ChangesStay, CheckpointStays
<1>10. EditsShown'
  BY <1>g, <1>s, <1>t, EditsStay DEF Bootstrapping
<1>11. DumpShown'
  BY <1>g, <1>s, <1>t, <1>8, DumpStays DEF Bootstrapping, ReadOverTo
<1> QED
  BY <1>1, <1>2, <1>3, <1>4, <1>5, <1>6, <1>7, <1>9, <1>10, <1>11 DEF EditionInv

LEMMA ScanArticleKeeps == ASSUME EditionInv, EditionTypes', ScanArticle PROVE EditionInv'
<1>0. EditionTypes /\ EngineKeeps /\ WindowsKept /\ GapKept /\ DiscoveryKept /\ EditsShown
  BY EditionHas
<1>t. /\ Now \in Nat /\ dumpAt \in Nat /\ run.end \in Nat /\ at.part \in Nat /\ import.cursor \in Nat /\ Len(Order) \in Nat
      /\ \A a \in Articles : local[a].edit \in Nat
  BY <1>0, FieldTypes
<1>s. /\ SameSets /\ run' = run /\ import' = import /\ found' = found /\ marker' = marker
      /\ at.phase = "scan" /\ at.part <= Len(Order) /\ givenUp' = givenUp /\ overtaken' = overtaken
  BY DEF ScanArticle, SameSets, historyVars
<1>a. PICK a \in Articles : a = Order[at.part]
  BY <1>0, <1>s, <1>t DEF Articles, EngineKeeps
<1>d. PICK d : d = dumpAt
  OBVIOUS
<1>n. PICK n : n = LastEdit(a, d)
  OBVIOUS
<1>c. PICK capture \in BOOLEAN : capture <=> at.part > import.cursor /\ Live(a, d)
  OBVIOUS
<1>e. n \in 0..d /\ (n # 0 => log[n] = [article |-> a, kind |-> "edit"])
      /\ \A i \in 1..d : log[i] = [article |-> a, kind |-> "edit"] => i <= n
  BY <1>d, <1>n, <1>t, LastOnes
<1>h. /\ local' = IF capture /\ n >= local[a].edit THEN [local EXCEPT ![a] = [edit |-> n, live |-> TRUE]] ELSE local
      /\ at' = [at EXCEPT !.phase = IF capture THEN "record" ELSE "progress"]
  BY <1>a, <1>d, <1>n, <1>c DEF ScanArticle
<1>p. at'.phase = (IF capture THEN "record" ELSE "progress") /\ at'.part = at.part
  <2>1. at \in Positions
    BY EditionHas
  <2> QED
    BY <1>h, <2>1 DEF Positions
<1>v. /\ \A b \in Articles : b # a => local'[b] = local[b]
      /\ IF capture /\ n >= local[a].edit THEN local'[a] = [edit |-> n, live |-> TRUE] ELSE local'[a] = local[a]
  <2>1. local \in [Articles -> [edit : Nat, live : BOOLEAN]]
    BY <1>0 DEF EditionTypes
  <2> QED
    BY <1>h, <2>1
<1>g. Grows /\ Now' = Now
  BY <1>s, SamePast DEF SameSets
<1>1. EngineKeeps'
  BY <1>0, <1>s, <1>t, <1>p DEF EngineKeeps, PendingChanges, Bootstrapping, Reads, Closes, SameSets
<1>2. WindowsKept'
  BY <1>s, WindowsStay
<1>3. GapKept'
  BY <1>0, <1>s, <1>p DEF GapKept, Bootstrapping, Updating, Marked, SameSets
<1>4. DiscoveryKept'
  <2>1. found.exhausted
    BY <1>0, <1>s DEF DiscoveryKept, EngineKeeps, Reads
  <2> QED
    BY <1>s, <1>p, <2>1, DiscoveryStays
<1>5. LocalGrows
  <2>1. SUFFICES ASSUME NEW b \in Articles
                 PROVE  (local[b].live => local'[b].live) /\ local[b].edit <= local'[b].edit
    BY DEF LocalGrows
  <2>2. CASE b # a
    BY <1>t, <1>v, <2>2
  <2>3. CASE b = a
    BY <1>t, <1>v, <1>e, <2>3
  <2> QED
    BY <2>2, <2>3
<1>6. Known' /\ Ordered' /\ Closed'
  <2>1. dumpAt' >= dumpAt
    BY <1>s, <1>t DEF SameSets
  <2> QED
    BY <1>g, <1>s, <2>1, SetsStay DEF FromDump, Bootstrapping, Marked, SameSets
<1>7. ChangesShown' /\ CheckpointCovers'
  BY <1>g, <1>s, <1>p, <1>5, ChangesStay, CheckpointStays DEF SameSets
<1>8. EditsShown'
  <2>1. \A b \in Articles : local'[b] = local[b] \/ (b = a /\ local'[b].edit = n)
    BY <1>v
  <2>2. dumpAt <= Now /\ run.state = "running" /\ (Bootstrapping => dumpAt <= run.end)
    <3>1. Overlap \in Nat
      BY EditionHas
    <3> QED
      BY <1>0, <1>s, <1>t, <3>1 DEF WindowsKept, EngineKeeps
  <2>3. n <= dumpAt /\ n \in Nat /\ (n # 0 => n \in 1..Now)
    BY <1>t, <1>e, <1>d, <2>2
  <2>4. ASSUME NEW b \in Articles, local'[b].edit # 0
        PROVE  local'[b].edit \in 1..Now /\ log[local'[b].edit] = [article |-> b, kind |-> "edit"]
    BY <1>0, <1>e, <2>1, <2>3, <2>4 DEF EditsShown
  <2>5. ASSUME Bootstrapping, import.cursor < Len(Order), NEW b \in Articles PROVE local'[b].edit <= run.end
    BY <1>0, <1>t, <2>1, <2>2, <2>3, <2>5 DEF EditsShown
  <2> QED
    BY <1>s, <1>g, <2>4, <2>5 DEF EditsShown, Bootstrapping, SameSets
<1>9. DumpShown'
  <2>1. ASSUME NEW p \in 1..Len(Order), ReadOverTo(p)', ~ReadOverTo(p), Quiet(Order[p]), Bootstrapping
        PROVE  UpToDate(Order[p], dumpAt)'
    <3>1. p = at.part /\ import.cursor < at.part
      BY <1>s, <1>t, <1>p, <2>1 DEF ReadOverTo
    <3>2. LastEdit(a, d)' = n /\ (Live(a, d)' <=> Live(a, d))
      <4>1. d \in 0..Now
        BY <1>0, <1>t, <1>d DEF WindowsKept
      <4> QED
        BY <1>0, <1>g, <1>n, <4>1, PastSame
    <3>3. CASE ~capture
      BY <1>a, <1>c, <1>d, <1>s, <3>1, <3>2, <3>3 DEF UpToDate, SameSets
    <3>4. CASE capture /\ n >= local[a].edit
      <4>1. local'[a].live /\ local'[a].edit = n /\ n \in Nat
        BY <1>v, <1>e, <1>t, <1>d, <3>4
      <4>2. UpToDate(a, d)'
        BY <3>2, <4>1 DEF UpToDate
      <4> QED
        BY <1>a, <1>d, <1>s, <3>1, <4>2 DEF UpToDate, SameSets
    <3>5. CASE capture /\ ~(n >= local[a].edit)
      <4>1. local[a].edit # 0 /\ local[a].edit \in Nat /\ n < local[a].edit /\ n \in Nat
        BY <1>t, <1>e, <1>d, <3>5
      <4>2. local[a].edit \in 1..Now /\ log[local[a].edit] = [article |-> a, kind |-> "edit"]
        BY <1>0, <4>1 DEF EditsShown
      <4>3. local[a].edit <= run.end
        BY <1>0, <1>t, <1>s, <2>1, <3>1 DEF EditsShown
      <4>4. local[a].edit > d
        BY <1>e, <1>t, <1>d, <4>1, <4>2
      <4>5. log[local[a].edit].article = a
        BY <4>2
      <4> QED
        BY <1>a, <1>t, <1>d, <2>1, <3>1, <4>1, <4>3, <4>4, <4>5 DEF Quiet
    <3> QED
      BY <3>3, <3>4, <3>5
  <2>2. CASE Bootstrapping
    BY <1>g, <1>s, <1>t, <1>5, <2>1, <2>2, DumpStays DEF SameSets
  <2>3. CASE ~Bootstrapping
    BY <1>s, <2>3 DEF DumpShown, Bootstrapping
  <2> QED
    BY <2>2, <2>3
<1> QED
  BY <1>1, <1>2, <1>3, <1>4, <1>6, <1>7, <1>8, <1>9 DEF EditionInv

\* Showing change i, the next one, shows its article as it was at any time up to i.
LEMMA ApplyShows ==
  ASSUME EditionTypes, EditionTypes', log' = log, NEW i \in 1..Now, NEW a \in Articles, a = log[i].article,
         NEW m \in 0..i,
         \/ log[i].kind = "edit" /\ local'[a] = [edit |-> i, live |-> TRUE]
         \/ log[i].kind = "delete" \/ (log[i].kind = "restore" /\ ~Live(a, Now))
         \/ local'[a] = [edit |-> LastEdit(a, Now), live |-> TRUE]
  PROVE  UpToDate(a, m)'
<1>1. Now \in Nat /\ m \in 0..Now /\ m \in Nat /\ i \in Nat /\ Grows
  BY LogEntries DEF Grows
<1>2. LastEdit(a, m)' = LastEdit(a, m) /\ (Live(a, m)' <=> Live(a, m)) /\ (NoDelete(a, m)' => NoDelete(a, m))
  BY <1>1, PastSame
<1>3. SUFFICES ASSUME Live(a, m), NoDelete(a, m) PROVE local'[a].live /\ local'[a].edit >= LastEdit(a, m)
  BY <1>2 DEF UpToDate
<1>4. Live(a, Now) /\ LastEdit(a, m) <= LastEdit(a, Now)
  <2>1. Now \in m..Now
    BY <1>1
  <2> QED
    BY <1>1, <1>3, <2>1, LiveStays
<1>5. LastEdit(a, m) \in 0..m /\ LastEdit(a, Now) \in 0..Now
  BY <1>1, LastOnes
<1>6. log[i].kind # "delete"
  <2>1. ASSUME log[i].kind = "delete" PROVE FALSE
    <3>1. log[i] = [article |-> a, kind |-> "delete"]
      BY <2>1, LogEntries
    <3>2. CASE m < i
      <4>1. i \in (m + 1)..Now
        BY <1>1, <3>2
      <4> QED
        BY <1>3, <3>1, <4>1 DEF NoDelete
    <3>3. CASE m = i
      <4> DEFINE c == LastChange(a, m)
      <4>1. c \in 0..m /\ \A j \in 1..m : log[j].article = a => j <= c
        BY <1>1, LastOnes
      <4>2. c = m
        <5> HIDE DEF c
        <5> QED
          BY <1>1, <3>3, <4>1
      <4> QED
        BY <1>3, <2>1, <3>3, <4>2 DEF Live
    <3> QED
      BY <1>1, <3>2, <3>3
  <2> QED
    BY <2>1
<1>7. CASE local'[a] = [edit |-> i, live |-> TRUE]
  BY <1>1, <1>5, <1>7
<1>8. CASE local'[a] = [edit |-> LastEdit(a, Now), live |-> TRUE]
  BY <1>1, <1>4, <1>5, <1>8
<1> QED
  BY <1>4, <1>6, <1>7, <1>8

LEMMA ApplyChangeKeeps == ASSUME EditionInv, EditionTypes', ApplyChange PROVE EditionInv'
<1>0. /\ EditionTypes /\ EngineKeeps /\ WindowsKept /\ GapKept /\ DiscoveryKept /\ Known /\ Ordered
      /\ EditsShown /\ ChangesShown /\ DumpShown /\ CheckpointCovers
  BY EditionHas
<1>t. /\ Now \in Nat /\ dumpAt \in Nat /\ committed \in Nat /\ run.end \in Nat /\ import.cursor \in Nat /\ Len(Order) \in Nat
      /\ linked \subseteq Nat /\ applied \subseteq Nat
  BY EditionHas
<1>s. /\ SameSets /\ run' = run /\ import' = import /\ found' = found /\ marker' = marker /\ at.phase = "apply"
      /\ PendingChanges # {} /\ givenUp' = givenUp
  BY DEF ApplyChange, SameSets
<1>i. PICK i : i = Min(PendingChanges)
  OBVIOUS
<1>m. i \in linked /\ i \notin applied /\ i \in PendingChanges /\ \A j \in PendingChanges : i <= j
  <2>1. PendingChanges \in SUBSET Nat
    BY <1>t DEF PendingChanges
  <2>2. i \in PendingChanges /\ \A j \in PendingChanges : i <= j
    BY <1>i, <1>s, <2>1, LeastOf
  <2> QED
    BY <2>2 DEF PendingChanges
<1>n. i \in 1..Now /\ i \in Nat
  BY <1>0, <1>m, <1>t DEF WindowsKept
<1>a. PICK a \in Articles : a = log[i].article
  BY <1>0, <1>n, LogEntries
<1>h. /\ at' = [at EXCEPT !.phase = "mark", !.change = i]
      /\ \/ log[i].kind = "edit" /\ local' = [local EXCEPT ![a] = [edit |-> i, live |-> TRUE]]
         \/ /\ log[i].kind = "delete" \/ (log[i].kind = "restore" /\ ~Live(a, Now))
            /\ local' = [local EXCEPT ![a].live = FALSE]
         \/ local' = [local EXCEPT ![a] = [edit |-> LastEdit(a, Now), live |-> TRUE]]
  BY <1>i, <1>a DEF ApplyChange, Shown
<1>v. /\ \A b \in Articles : b # a => local'[b] = local[b]
      /\ \/ log[i].kind = "edit" /\ local'[a] = [edit |-> i, live |-> TRUE]
         \/ /\ log[i].kind = "delete" \/ (log[i].kind = "restore" /\ ~Live(a, Now))
            /\ local'[a].edit = local[a].edit
         \/ local'[a] = [edit |-> LastEdit(a, Now), live |-> TRUE]
  <2>1. local \in [Articles -> [edit : Nat, live : BOOLEAN]]
    BY <1>0 DEF EditionTypes
  <2>2. \A f : local' = [local EXCEPT ![a] = f] => local'[a] = f /\ \A b \in Articles : b # a => local'[b] = local[b]
    BY <2>1
  <2>3. local' = [local EXCEPT ![a].live = FALSE] =>
          local'[a].edit = local[a].edit /\ \A b \in Articles : b # a => local'[b] = local[b]
    <3>1. local[a] \in [edit : Nat, live : BOOLEAN]
      BY <2>1
    <3> QED
      BY <2>1, <3>1
  <2> QED
    BY <1>h, <2>2, <2>3
<1>p. at'.phase = "mark" /\ at'.change = i
  <2>1. at \in Positions
    BY EditionHas
  <2> QED
    BY <1>h, <2>1 DEF Positions
<1>o. /\ overtaken' = overtaken \/ overtaken' = overtaken \cup {a} \/ overtaken' = overtaken \ {a}
      /\ a \notin overtaken' => \A k \in applied : k > i => log[k].article # a
      /\ ~givenUp => overtaken' = {}
  <2>1. overtaken' = IF \E k \in applied : k > i /\ log[k].article = a THEN overtaken \cup {a} ELSE overtaken \ {a}
    BY <1>i, <1>a DEF ApplyChange
  <2>2. ~givenUp => overtaken = {} /\ \A k \in applied : ~(k > i)
    BY <1>0, <1>m, <1>n, <1>t DEF CheckpointCovers, Ordered
  <2> QED
    BY <2>1, <2>2
<1>g. Grows /\ Now' = Now
  BY <1>s, SamePast DEF SameSets
<1>r. run.state = "running" /\ (Bootstrapping => import.cursor >= Len(Order) /\ dumpAt <= i) /\ committed < i
  BY <1>0, <1>s, <1>m, <1>n, <1>t DEF EngineKeeps, Closes, WindowsKept, Start, Known, Bootstrapping
<1>c. ASSUME NEW b \in Articles, NEW m \in 0..Now, UpToDate(b, m), b = a => m <= i PROVE UpToDate(b, m)'
  <2>1. CASE b = a
    <3>1. m \in 0..i
      BY <1>c, <1>n, <1>t, <2>1
    <3>2. UpToDate(a, m)'
      BY <1>0, <1>a, <1>n, <1>s, <1>v, <3>1, ApplyShows DEF SameSets
    <3> QED
      BY <2>1, <3>2
  <2>2. CASE b # a
    <3>1. local'[b] = local[b]
      BY <1>v, <2>2
    <3>2. local[b].edit \in Nat
      BY <1>0, FieldTypes
    <3> QED
      BY <1>0, <1>c, <1>g, <3>1, <3>2, CoveredStays
  <2> QED
    BY <2>1, <2>2
<1>1. EngineKeeps'
  <2>1. PendingChanges' = PendingChanges
    BY <1>s DEF PendingChanges, SameSets
  <2> QED
    BY <1>0, <1>s, <1>p, <1>m, <2>1 DEF EngineKeeps, Bootstrapping, Reads, Closes
<1>2. WindowsKept'
  BY <1>s, WindowsStay
<1>3. GapKept'
  BY <1>0, <1>s, <1>p DEF GapKept, Bootstrapping, Updating, Marked, SameSets
<1>4. DiscoveryKept'
  <2>1. found.exhausted
    BY <1>0, <1>s, <1>r DEF DiscoveryKept, Closes
  <2> QED
    BY <1>s, <1>p, <2>1, DiscoveryStays
<1>5. Known' /\ Ordered' /\ Closed'
  <2>1. dumpAt' >= dumpAt
    BY <1>s, <1>t DEF SameSets
  <2> QED
    BY <1>g, <1>s, <2>1, SetsStay DEF FromDump, Bootstrapping, Marked, SameSets
<1>6. ChangesShown'
  <2>1. ASSUME NEW k \in applied, log[k].article \notin overtaken' PROVE UpToDate(log[k].article, k)'
    <3>1. k \in 1..Now /\ (log[k].article = a => k <= i)
      BY <1>0, <1>n, <1>o, <1>t, <2>1 DEF WindowsKept
    <3>2. PICK b \in Articles : b = log[k].article
      BY <1>0, <3>1, LogEntries
    <3>3. ASSUME b = a PROVE UpToDate(b, k)'
      <4>1. k \in 0..i
        BY <1>n, <3>1, <3>2, <3>3
      <4>2. UpToDate(a, k)'
        BY <1>0, <1>a, <1>n, <1>s, <1>v, <4>1, ApplyShows DEF SameSets
      <4> QED
        BY <3>3, <4>2
    <3>4. ASSUME b # a PROVE UpToDate(b, k)'
      <4>1. UpToDate(b, k)
        BY <1>0, <1>o, <2>1, <3>2, <3>4 DEF ChangesShown
      <4> QED
        BY <1>c, <1>t, <3>1, <3>4, <4>1
    <3>5. log'[k] = log[k]
      BY <1>s DEF SameSets
    <3> QED
      BY <3>2, <3>3, <3>4, <3>5 DEF UpToDate
  <2>2. UpToDate(a, i)'
    <3>1. i \in 0..i
      BY <1>n
    <3> QED
      BY <1>0, <1>a, <1>n, <1>s, <1>v, <3>1, ApplyShows DEF SameSets
  <2>3. UpToDate(log[at.change].article, at.change)'
    BY <1>a, <1>p, <1>s, <2>2 DEF UpToDate, SameSets
  <2> QED
    BY <1>s, <2>1, <2>3 DEF ChangesShown, SameSets
<1>7. CheckpointCovers'
  <2>1. PICK c : c = committed
    OBVIOUS
  <2>2. c \in 0..Now /\ c <= i
    BY <1>0, <1>n, <1>r, <1>t, <2>1 DEF WindowsKept
  <2>3. ASSUME c # 0, NEW b \in Articles, b \notin overtaken' PROVE UpToDate(b, c)'
    <3>1. CASE b = a
      <4>1. c \in 0..i
        BY <1>n, <2>2
      <4>2. UpToDate(a, c)'
        BY <1>0, <1>a, <1>n, <1>s, <1>v, <4>1, ApplyShows DEF SameSets
      <4> QED
        BY <3>1, <4>2
    <3>2. CASE b # a
      <4>1. UpToDate(b, c)
        BY <1>0, <1>o, <2>1, <2>3, <3>2 DEF CheckpointCovers, UpToDate, NoDelete
      <4> QED
        BY <1>c, <2>2, <3>2, <4>1
    <3> QED
      BY <3>1, <3>2
  <2>4. overtaken' # {} => givenUp'
    BY <1>o, <1>s
  <2> QED
    BY <1>s, <2>1, <2>3, <2>4 DEF CheckpointCovers, UpToDate, NoDelete, SameSets
<1>8. EditsShown'
  <2>1. LastEdit(a, Now) # 0 => LastEdit(a, Now) \in 1..Now /\ log[LastEdit(a, Now)] = [article |-> a, kind |-> "edit"]
    <3>1. LastEdit(a, Now) \in 0..Now /\ (LastEdit(a, Now) # 0 => log[LastEdit(a, Now)] = [article |-> a, kind |-> "edit"])
      BY <1>t, LastOnes
    <3> QED
      BY <1>t, <3>1
  <2>2. log[i].kind = "edit" => log[i] = [article |-> a, kind |-> "edit"]
    BY <1>0, <1>a, <1>n, LogEntries
  <2>3. ASSUME NEW b \in Articles, local'[b].edit # 0
        PROVE  local'[b].edit \in 1..Now /\ log[local'[b].edit] = [article |-> b, kind |-> "edit"]
    <3>1. CASE b # a \/ local'[b].edit = local[b].edit
      BY <1>0, <1>v, <2>3, <3>1 DEF EditsShown
    <3>2. CASE b = a /\ local'[b].edit # local[b].edit
      <4>1. (local'[a].edit = i /\ log[i].kind = "edit") \/ local'[a].edit = LastEdit(a, Now)
        BY <1>v, <3>2
      <4> QED
        BY <1>n, <2>1, <2>2, <2>3, <3>2, <4>1
    <3> QED
      BY <3>1, <3>2
  <2>4. ~(Bootstrapping /\ import.cursor < Len(Order))
    BY <1>r, <1>t
  <2> QED
    BY <1>s, <1>g, <2>3, <2>4 DEF EditsShown, Bootstrapping, SameSets
<1>9. DumpShown'
  <2>1. ASSUME Bootstrapping, NEW p \in 1..Len(Order), ReadOverTo(p)', Quiet(Order[p])' PROVE UpToDate(Order[p], dumpAt)'
    <3>1. ReadOverTo(p) /\ Quiet(Order[p])
      BY <1>s, <1>p, <2>1 DEF ReadOverTo, Quiet, SameSets
    <3>2. PICK d : d = dumpAt
      OBVIOUS
    <3>3. PICK b \in Articles : b = Order[p]
      BY DEF Articles
    <3>4. UpToDate(b, d)
      BY <1>0, <2>1, <3>1, <3>2, <3>3 DEF DumpShown
    <3>5. d \in 0..Now /\ d <= i
      BY <1>0, <1>r, <1>t, <2>1, <3>2 DEF WindowsKept
    <3>6. UpToDate(b, d)'
      BY <1>c, <3>4, <3>5
    <3> QED
      BY <1>s, <3>2, <3>3, <3>6 DEF UpToDate, SameSets
  <2> QED
    BY <1>s, <2>1 DEF DumpShown, Bootstrapping
<1> QED
  BY <1>1, <1>2, <1>3, <1>4, <1>5, <1>6, <1>7, <1>8, <1>9 DEF EditionInv

LEMMA MarkAppliedKeeps == ASSUME EditionInv, EditionTypes', MarkApplied PROVE EditionInv'
<1>0. EditionTypes /\ EngineKeeps /\ WindowsKept /\ GapKept /\ DiscoveryKept /\ Known /\ Ordered /\ Closed
  BY EditionHas
<1>t. /\ Now \in Nat /\ dumpAt \in Nat /\ committed \in Nat /\ run.end \in Nat /\ run.since \in Nat /\ import.cursor \in Nat
      /\ Len(Order) \in Nat /\ linked \subseteq Nat /\ applied \subseteq Nat /\ Overlap \in Nat
  BY EditionHas
<1>s. /\ log' = log /\ local' = local /\ dumpAt' = dumpAt /\ committed' = committed /\ linked' = linked
      /\ run' = run /\ import' = import /\ found' = found /\ marker' = marker /\ at.phase = "mark"
      /\ givenUp' = givenUp /\ overtaken' = overtaken
  BY DEF MarkApplied, historyVars
<1>i. PICK i : i = at.change
  OBVIOUS
<1>m. /\ applied' = applied \cup {i} /\ i \in linked /\ i \notin applied
      /\ \A j \in linked : j \notin applied => i <= j
  BY <1>0, <1>s, <1>i DEF MarkApplied, EngineKeeps, PendingChanges
<1>p. at'.phase = "apply"
  <2>1. at \in Positions
    BY EditionHas
  <2> QED
    BY <2>1 DEF Positions, MarkApplied
<1>g. Grows /\ Now' = Now /\ \A j \in Listed' : j \in Listed /\ j \in 1..Now
  BY <1>s, SamePast
<1>r. run.state = "running" /\ found.exhausted /\ i \in 1..run.end
  BY <1>0, <1>s, <1>m DEF EngineKeeps, DiscoveryKept, WindowsKept, Closes
<1>1. EngineKeeps'
  BY <1>0, <1>s, <1>p DEF EngineKeeps, Bootstrapping, Reads, Closes
<1>2. WindowsKept'
  <2>1. Start' = Start /\ Since' = Since
    BY <1>s DEF Start, Since
  <2>2. \A j \in linked' \cup applied' : j \in 1..run.end
    BY <1>0, <1>s, <1>m DEF WindowsKept
  <2> QED
    BY <1>0, <1>s, <1>p, <1>g, <2>1, <2>2 DEF WindowsKept, Bootstrapping, Updating
<1>3. GapKept'
  BY <1>0, <1>s, <1>p DEF GapKept, Bootstrapping, Updating, Marked
<1>4. DiscoveryKept'
  <2>1. Start' = Start /\ (FoundTo(found.listed) => FoundTo(found.listed)')
    BY <1>s, <1>g DEF Start, FoundTo
  <2> QED
    BY <1>0, <1>s, <1>p, <1>r, <2>1 DEF DiscoveryKept, Reads, Closes
<1>5. Known'
  BY <1>0, <1>s, <1>m, <1>g DEF Known, Since
<1>6. Ordered'
  <2>1. ASSUME ~givenUp, NEW k \in applied', NEW j \in linked, j \notin applied' PROVE k < j
    <3>1. CASE k \in applied
      BY <1>0, <1>m, <2>1, <3>1 DEF Ordered, PendingChanges
    <3>2. CASE k = i
      BY <1>m, <1>t, <2>1, <3>2
    <3> QED
      BY <1>m, <3>1, <3>2
  <2> QED
    BY <1>s, <2>1 DEF Ordered, PendingChanges
<1>7. Closed'
  <2>1. FromDump' = FromDump
    BY <1>s DEF FromDump, Bootstrapping, Marked
  <2>2. ASSUME NEW j \in Listed, committed < j, j < i, FromDump => j >= dumpAt PROVE j \in applied'
    <3>1. found.listed = run.end /\ run.end # 0 /\ FoundTo(run.end)
      <4>1. found.listed = run.end /\ run.end # 0
        BY <1>0, <1>r, <1>t DEF DiscoveryKept
      <4> QED
        BY <1>0, <1>r, <4>1 DEF DiscoveryKept
    <3>2. j \in Nat /\ j <= run.end
      BY <1>r, <1>t, <2>2 DEF Listed
    <3>3. j >= Start
      <4>1. CASE run.kind = "update"
        <5>1. run.since = Since
          BY <1>0, <1>r, <4>1 DEF WindowsKept, Updating
        <5> QED
          BY <1>t, <2>2, <3>2, <4>1, <5>1 DEF Start, Since
      <4>2. CASE run.kind # "update"
        BY <1>0, <1>r, <2>2, <4>2 DEF EngineKeeps, FromDump, Start, Bootstrapping
      <4> QED
        BY <4>1, <4>2
    <3>4. j \in linked
      BY <3>1, <3>2, <3>3 DEF FoundTo
    <3>5. ~(i <= j)
      BY <1>m, <1>t, <2>2, <3>2
    <3> QED
      BY <1>m, <3>4, <3>5
  <2>3. ASSUME ~givenUp, NEW k \in applied', NEW j \in Listed', committed < j, j < k, FromDump' => j >= dumpAt PROVE j \in applied'
    <3>1. CASE k = i
      BY <1>g, <2>1, <2>2, <2>3, <3>1
    <3>2. CASE k \in applied
      BY <1>0, <1>g, <1>m, <2>1, <2>3, <3>2 DEF Closed
    <3> QED
      BY <1>m, <3>1, <3>2
  <2> QED
    BY <1>s, <2>3 DEF Closed
<1>8. LocalGrows
  <2>1. \A a \in Articles : local[a].edit \in Nat
    BY <1>0, FieldTypes
  <2> QED
    BY <1>s, <2>1 DEF LocalGrows
<1>9. ChangesShown' /\ CheckpointCovers'
  BY <1>g, <1>s, <1>i, <1>m, <1>p, <1>8, ChangesStay, CheckpointStays
<1>10. EditsShown'
  BY <1>g, <1>s, <1>t, EditsStay DEF Bootstrapping
<1>11. DumpShown'
  BY <1>g, <1>s, <1>t, <1>p, <1>8, DumpStays DEF Bootstrapping, ReadOverTo
<1> QED
  BY <1>1, <1>2, <1>3, <1>4, <1>5, <1>6, <1>7, <1>9, <1>10, <1>11 DEF EditionInv

\* What is shown of an article when nothing has changed it since a time.
LEMMA CoveredOn ==
  ASSUME EditionTypes, NEW a, NEW m \in 0..Now, NEW n \in 0..m, UpToDate(a, n), Live(a, m), NoDelete(a, m),
         \A j \in (n + 1)..m : log[j].article # a
  PROVE  local[a].live /\ local[a].edit >= LastEdit(a, m)
<1>1. Now \in Nat /\ m \in Nat /\ n \in Nat /\ n <= m /\ m <= Now
  BY LogEntries
<1> DEFINE c == LastChange(a, m)
           d == LastChange(a, n)
           e == LastEdit(a, m)
           f == LastEdit(a, n)
           t == [article |-> a, kind |-> "edit"]
<1>2. /\ c \in 0..m /\ (c # 0 => log[c].article = a) /\ \A i \in 1..m : log[i].article = a => i <= c
      /\ e \in 0..m /\ (e # 0 => log[e] = t) /\ \A i \in 1..m : log[i] = t => i <= e
  BY <1>1, LastOnes
<1>3. /\ d \in 0..n /\ (d # 0 => log[d].article = a) /\ \A i \in 1..n : log[i].article = a => i <= d
      /\ f \in 0..n /\ (f # 0 => log[f] = t) /\ \A i \in 1..n : log[i] = t => i <= f
  BY <1>1, LastOnes
<1>4. t.article = a
  OBVIOUS
<1>5. c = d /\ e = f
  <2> HIDE DEF c, d, e, f, t
  <2>1. (c # 0 => c <= n) /\ (e # 0 => e <= n)
    BY <1>1, <1>2, <1>4
  <2>2. (c # 0 => c <= d) /\ (e # 0 => e <= f)
    BY <1>1, <1>2, <1>3, <2>1
  <2>3. (d # 0 => d <= c) /\ (f # 0 => f <= e)
    BY <1>1, <1>2, <1>3
  <2> QED
    BY <1>1, <1>2, <1>3, <2>2, <2>3
<1>6. Live(a, n)
  BY <1>5 DEF Live
<1>7. NoDelete(a, n)
  <2>1. ASSUME NEW j \in (n + 1)..Now, log[j] = [article |-> a, kind |-> "delete"] PROVE FALSE
    <3>1. log[j].article = a
      BY <2>1
    <3>2. j \in (n + 1)..m \/ j \in (m + 1)..Now
      BY <1>1
    <3> QED
      BY <2>1, <3>1, <3>2 DEF NoDelete
  <2> QED
    BY <2>1 DEF NoDelete
<1> QED
  BY <1>5, <1>6, <1>7 DEF UpToDate

LEMMA FinishRunKeeps == ASSUME EditionInv, EditionTypes', FinishRun PROVE EditionInv'
<1>0. /\ EditionTypes /\ EngineKeeps /\ WindowsKept /\ GapKept /\ DiscoveryKept /\ Known /\ Ordered /\ Closed
      /\ ChangesShown /\ DumpShown /\ CheckpointCovers
  BY EditionHas
<1>t. /\ Now \in Nat /\ dumpAt \in Nat /\ committed \in Nat /\ run.end \in Nat /\ run.since \in Nat /\ import.cursor \in Nat
      /\ Len(Order) \in Nat /\ linked \subseteq Nat /\ applied \subseteq Nat /\ Overlap \in Nat /\ Retention \in Nat
  BY EditionHas
<1>s. /\ log' = log /\ local' = local /\ dumpAt' = dumpAt /\ applied' = applied /\ linked' = linked
      /\ import' = import /\ found' = found /\ marker' = marker /\ at.phase = "finish" /\ committed' = run.end
      /\ at' = Idle /\ givenUp' = givenUp /\ overtaken' = overtaken
  BY DEF FinishRun, EndCall, historyVars
<1>r. run'.state = "succeeded" /\ run'.kind = run.kind /\ run'.since = run.since /\ run'.end = run.end
  <2>1. run \in Runs
    BY EditionHas
  <2> QED
    BY <2>1 DEF Runs, FinishRun
<1>p. at'.phase = "idle"
  BY <1>s, IdleIs
<1>g. Grows /\ Now' = Now /\ \A j \in Listed' : j \in Listed /\ j \in 1..Now
  BY <1>s, SamePast
<1>e. /\ run.state = "running" /\ PendingChanges = {} /\ found.exhausted
      /\ run.kind = "update" \/ Bootstrapping
  BY <1>0, <1>s DEF EngineKeeps, DiscoveryKept, Closes, Bootstrapping
<1>w. run.end <= Now /\ committed <= run.end /\ run.end # 0
  BY <1>0, <1>t, <1>e DEF WindowsKept, Bootstrapping, Updating
<1>f. \A j \in Listed : j >= Start /\ j <= run.end => j \in applied
  <2>1. found.listed = run.end
    BY <1>0, <1>e DEF DiscoveryKept
  <2>2. FoundTo(run.end)
    BY <1>0, <1>e, <1>w, <2>1 DEF DiscoveryKept
  <2> QED
    BY <1>e, <2>2 DEF FoundTo, PendingChanges
<1>1. EngineKeeps'
  BY <1>0, <1>s, <1>r, <1>p DEF EngineKeeps, Bootstrapping, Reads, Closes
<1>2. WindowsKept'
  BY <1>0, <1>s, <1>r, <1>t, <1>g DEF WindowsKept, Bootstrapping, Updating
<1>3. GapKept'
  BY <1>r, <1>p DEF GapKept, Bootstrapping, Updating
<1>4. DiscoveryKept'
  BY <1>r DEF DiscoveryKept
<1>5. Known'
  <2>1. ASSUME NEW j \in Listed, j <= run.end, j >= dumpAt \/ j >= Since' PROVE j \in applied
    <3>1. j \in Nat /\ Since' \in Nat /\ Since \in Nat
      BY <1>s, <1>t DEF Listed, Since
    <3>2. CASE Bootstrapping
      <4>1. Since' >= dumpAt /\ Start = dumpAt
        BY <1>0, <1>s, <1>t, <3>2 DEF WindowsKept, Since, Start, Bootstrapping
      <4>2. j >= Start
        BY <1>t, <2>1, <3>1, <4>1
      <4> QED
        BY <1>f, <2>1, <4>2
    <3>3. CASE run.kind = "update"
      <4>1. Start = Since /\ Since <= Since'
        BY <1>0, <1>s, <1>t, <1>e, <1>w, <3>3 DEF WindowsKept, Since, Start, Updating
      <4>2. CASE j >= Since
        BY <1>f, <2>1, <4>1, <4>2
      <4>3. CASE j < Since
        <5>1. j >= dumpAt
          BY <2>1, <3>1, <4>1, <4>3
        <5>2. j <= committed
          BY <1>t, <3>1, <4>3 DEF Since
        <5> QED
          BY <1>0, <5>1, <5>2 DEF Known
      <4> QED
        BY <3>1, <4>2, <4>3
    <3> QED
      BY <1>e, <3>2, <3>3
  <2>2. \A j \in linked : j \in applied
    BY <1>e DEF PendingChanges
  <2> QED
    BY <1>s, <1>g, <2>1, <2>2 DEF Known
<1>6. Ordered'
  BY <1>s, <1>e DEF Ordered, PendingChanges
<1>7. Closed'
  <2>1. \A k \in applied : k \in Nat /\ k <= run.end
    BY <1>0, <1>t DEF WindowsKept
  <2> QED
    BY <1>s, <1>g, <1>t, <2>1 DEF Closed
<1>8. LocalGrows
  <2>1. \A a \in Articles : local[a].edit \in Nat
    BY <1>0, FieldTypes
  <2> QED
    BY <1>s, <2>1 DEF LocalGrows
<1>9. ChangesShown'
  BY <1>g, <1>s, <1>p, <1>8, ChangesStay
<1>10. EditsShown'
  BY <1>g, <1>s, <1>r, EditsStay DEF Bootstrapping
<1>11. DumpShown'
  BY <1>r DEF DumpShown, Bootstrapping
<1>12. CheckpointCovers'
  <2>1. PICK u : u = run.end
    OBVIOUS
  <2>2. u \in 0..Now /\ u \in Nat
    BY <1>t, <1>w, <2>1
  <2>3. ASSUME NEW a \in Articles, a \notin overtaken PROVE UpToDate(a, u)
    <3>1. SUFFICES ASSUME Live(a, u), NoDelete(a, u) PROVE local[a].live /\ local[a].edit >= LastEdit(a, u)
      BY DEF UpToDate
    <3>2. PICK c : c = LastChange(a, u)
      OBVIOUS
    <3>3. c \in 1..u /\ log[c].article = a /\ \A i \in 1..u : log[i].article = a => i <= c
      <4>1. c # 0
        BY <3>1, <3>2 DEF Live
      <4>2. c \in 0..u /\ (c # 0 => log[c].article = a) /\ \A i \in 1..u : log[i].article = a => i <= c
        BY <2>2, <3>2, LastOnes
      <4> QED
        BY <2>2, <4>1, <4>2
    <3>4. \A j \in (c + 1)..u : log[j].article # a
      BY <2>2, <3>3
    <3>5. CASE c \in applied
      <4>1. UpToDate(a, c)
        BY <1>0, <2>3, <3>3, <3>5 DEF ChangesShown
      <4>2. c \in 0..u
        BY <3>3
      <4> QED
        BY <1>0, <2>2, <3>1, <3>4, <4>1, <4>2, CoveredOn
    <3>6. ASSUME c > Now - Retention PROVE c \in Listed
      <4>1. ~Gone(c)
        <5>1. ASSUME NEW j \in (c + 1)..Now, log[j] = [article |-> a, kind |-> "delete"] PROVE FALSE
          <6>1. log[j].article = a
            BY <5>1
          <6>2. j \in (c + 1)..u \/ j \in (u + 1)..Now
            BY <1>t, <2>2, <3>3
          <6> QED
            BY <3>1, <3>4, <5>1, <6>1, <6>2 DEF NoDelete
        <5> QED
          BY <3>3, <5>1 DEF Gone
      <4>2. c \in 1..Now
        BY <1>t, <2>2, <3>3
      <4> QED
        BY <3>6, <4>1, <4>2 DEF Listed
    <3>7. CASE Bootstrapping
      <4>1. dumpAt <= u /\ Now <= dumpAt + Retention /\ Start = dumpAt /\ dumpAt \in 0..u
        BY <1>0, <1>t, <2>1, <3>7 DEF WindowsKept, Start, Bootstrapping
      <4>2. CASE c > dumpAt
        <5>1. c > Now - Retention /\ c >= Start /\ c <= run.end
          BY <1>t, <2>1, <2>2, <3>3, <4>1, <4>2
        <5> QED
          BY <1>f, <3>5, <3>6, <5>1
      <4>3. CASE ~(c > dumpAt)
        <5>1. PICK d : d = dumpAt
          OBVIOUS
        <5>2. \A j \in (d + 1)..u : log[j].article # a
          BY <1>t, <2>2, <3>3, <3>4, <4>3, <5>1
        <5>3. PICK p \in 1..Len(Order) : Order[p] = a
          BY DEF Articles
        <5>4. Quiet(Order[p])
          BY <2>1, <5>1, <5>2, <5>3 DEF Quiet
        <5>5. ReadOverTo(p)
          BY <1>0, <1>s, <1>t, <3>7, <5>3 DEF EngineKeeps, Closes, ReadOverTo
        <5>6. UpToDate(a, d)
          BY <1>0, <3>7, <5>1, <5>3, <5>4, <5>5 DEF DumpShown
        <5> QED
          BY <1>0, <2>2, <3>1, <4>1, <5>1, <5>2, <5>6, CoveredOn
      <4> QED
        BY <4>2, <4>3
    <3>8. CASE run.kind = "update"
      <4>1. committed # 0 /\ run.since = Since /\ Now <= run.since + Retention /\ Start = Since
        BY <1>0, <1>e, <1>s, <3>8 DEF WindowsKept, Start, Updating
      <4>2. CASE c > committed
        <5>1. c > Now - Retention /\ c >= Start /\ c <= run.end
          BY <1>t, <2>1, <2>2, <3>3, <4>1, <4>2 DEF Since
        <5> QED
          BY <1>f, <3>5, <3>6, <5>1
      <4>3. CASE ~(c > committed)
        <5>1. PICK d : d = committed
          OBVIOUS
        <5>2. (\A j \in (d + 1)..u : log[j].article # a) /\ d \in 0..u
          BY <1>t, <1>w, <2>1, <2>2, <3>3, <3>4, <4>3, <5>1
        <5>3. UpToDate(a, d)
          BY <1>0, <2>3, <4>1, <5>1 DEF CheckpointCovers, UpToDate, NoDelete
        <5> QED
          BY <1>0, <2>2, <3>1, <5>2, <5>3, CoveredOn
      <4> QED
        BY <4>2, <4>3
    <3> QED
      BY <1>e, <3>7, <3>8
  <2>4. \A a \in Articles \ overtaken : UpToDate(a, u)'
    BY <1>g, <1>8, <2>2, <2>3, PastShown
  <2> QED
    BY <1>0, <1>s, <2>1, <2>4 DEF CheckpointCovers, UpToDate, NoDelete
<1> QED
  BY <1>1, <1>2, <1>3, <1>4, <1>5, <1>6, <1>7, <1>9, <1>10, <1>11, <1>12 DEF EditionInv

-----------------------------------------------------------------------------
LEMMA EditionStarts == EditionInit => EditionInv
<1> SUFFICES ASSUME EditionInit PROVE EditionInv
  OBVIOUS
<1>1. Len(Order) \in Nat /\ Len(Order) > 0 /\ \A k \in 1..Len(Order) : Order[k] \in Articles
  BY EditionAssumption DEF Articles
<1>2. log \in Seq(Entries) /\ Now = Len(Order)
  BY <1>1 DEF EditionInit, Entries, Kinds, Now
<1>3. /\ dumpAt = Len(Order) /\ \A a \in Articles : local[a].edit = 0
      /\ applied = {} /\ linked = {} /\ committed = 0
      /\ overtaken = {} /\ run.state = "none" /\ run.end = 0 /\ ~import.whole /\ found.listed = 0 /\ at.phase = "idle"
  BY DEF EditionInit, NoRun, NoImport, NotFound, Idle
<1>4. EditionTypes
  BY <1>1, <1>2 DEF EditionInit, EditionTypes, NoRun, NoImport, NotFound, Idle, Runs, DumpImports, Discoveries,
     Markers, Positions, Phases
<1>5. EngineKeeps
  BY <1>3 DEF EngineKeeps, PendingChanges, Bootstrapping, Reads, Closes
<1>6. WindowsKept
  BY <1>1, <1>2, <1>3 DEF WindowsKept, Bootstrapping, Updating
<1>7. GapKept /\ DiscoveryKept
  BY <1>3 DEF GapKept, DiscoveryKept, Bootstrapping, Updating
<1>8. Known /\ Ordered /\ Closed
  <2>1. \A j \in Listed : j \in 1..Now
    BY DEF Listed
  <2>2. \A j \in Listed : j <= committed => FALSE
    BY <1>2, <1>3, <2>1
  <2> QED
    BY <1>3, <2>2 DEF Known, Ordered, Closed, PendingChanges
<1>9. ChangesShown /\ EditsShown /\ DumpShown /\ CheckpointCovers
  BY <1>3 DEF ChangesShown, EditsShown, DumpShown, CheckpointCovers, Bootstrapping
<1> QED
  BY <1>4, <1>5, <1>6, <1>7, <1>8, <1>9 DEF EditionInv

LEMMA EditionKeeps == EditionInv /\ [EditionNext]_editionVars => EditionInv'
<1> SUFFICES ASSUME EditionInv, [EditionNext]_editionVars PROVE EditionInv'
  OBVIOUS
<1>1. EditionTypes'
  BY TypesNext DEF EditionInv
<1>2. ASSUME NEW a \in Articles, NEW kind \in Kinds, Change(a, kind) PROVE EditionInv'
  BY <1>1, <1>2, ChangeKeeps
<1>3. ASSUME NEW i \in 1..Now, Hide(i) PROVE EditionInv'
  BY <1>1, <1>3, StillKeeps DEF Hide
<1>4. ASSUME NEW r \in BOOLEAN, SourceFails(r) PROVE EditionInv'
  BY <1>1, <1>4, SourceFailsKeeps
<1>5. CASE KillEdition
  BY <1>1, <1>5, StillKeeps DEF KillEdition, EndCall
<1>6. CASE UNCHANGED editionVars
  BY <1>1, <1>6, StillKeeps DEF editionVars, storeVars, historyVars
<1>7. CASE TakeDump \/ StartBootstrap \/ StartUpdate \/ ClaimImport \/ ClaimDiscovery \/ ListBatch \/ EndListing
  BY <1>1, <1>7, TakeDumpKeeps, StartBootstrapKeeps, StartUpdateKeeps, ClaimImportKeeps, ClaimDiscoveryKeeps,
     ListBatchKeeps, EndListingKeeps
<1>8. CASE ScanArticle \/ RecordArticle \/ RecordPart \/ ExtendWindow \/ CompleteImport
  BY <1>1, <1>8, ScanArticleKeeps, RecordKeeps, ExtendWindowKeeps, CompleteImportKeeps
<1>9. CASE ApplyChange \/ ApplyUnreadable \/ MarkApplied \/ CompleteDiscovery \/ ResolveGap \/ FinishRun
  BY <1>1, <1>9, ApplyChangeKeeps, ApplyUnreadableKeeps, MarkAppliedKeeps, CompleteDiscoveryKeeps, ResolveGapKeeps,
     FinishRunKeeps
<1> QED
  BY <1>2, <1>3, <1>4, <1>5, <1>6, <1>7, <1>8, <1>9 DEF EditionNext, Kinds

(* Whatever changes, fails, is killed or resumed, and whenever a dump is
   imported, for any articles, windows and number of changes: after a run of the
   whole edition has succeeded, every article the wiki had at the checkpoint and
   has not deleted since is shown at least as new as it was then, unless the
   last change applied to it was older than another; and no article is so unless
   an import was given up for which neither a first bootstrap nor a marked gap
   called (bootstrap_whole_main_namespace_from_trusted_dump,
   update_whole_main_namespace, reconcile_current_revision). *)
THEOREM CheckpointsCover == EditionSpec => []CheckpointCovers
<1>1. EditionInit => EditionInv
  BY EditionStarts
<1>2. EditionInv /\ [EditionNext]_editionVars => EditionInv'
  BY EditionKeeps
<1>3. EditionInv => CheckpointCovers
  BY DEF EditionInv
<1> QED
  BY <1>1, <1>2, <1>3, PTL DEF EditionSpec

(* Without exception, as long as no import that nothing called for has been
   given up (dump_bootstrap.rs:228-412 imports whenever the user asks). *)
THEOREM CurrentUnlessGivenUp == EditionSpec => [](~givenUp => CurrentAtCheckpoint)
<1>1. CheckpointCovers => (~givenUp => CurrentAtCheckpoint)
  BY DEF CheckpointCovers, CurrentAtCheckpoint
<1> QED
  BY <1>1, CheckpointsCover, PTL
=============================================================================
