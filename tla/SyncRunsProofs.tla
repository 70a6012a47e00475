--------------------------- MODULE SyncRunsProofs ---------------------------
(***************************************************************************)
(* A checkpoint never advances beyond durable source content, a shown head *)
(* is a captured revision, and the manifest chain is at most one run       *)
(* behind: for any number of pages, seconds, failures and kills.           *)
(*                                                                         *)
(* What a run commits rests on what each job saw when it looked at its     *)
(* page.  SyncInv therefore says of the attempt under way that it saw every *)
(* revision older than the run's candidate (AttemptInv), keeps that for    *)
(* the jobs that succeeded (JobsCovered), and connects engine and rows: a  *)
(* run that is worked on has a job for each page of the selection, one     *)
(* each (EngineInv, OnePagePerJob), and its candidate is neither in the    *)
(* future nor behind the checkpoint (CandidateInv).                        *)
(*                                                                         *)
(* At the end, a verification that runs beside these runs without a lock:  *)
(* what it reports as verified is so, and undisturbed it verifies a library *)
(* that is whole and no other.                                             *)
(***************************************************************************)
EXTENDS SyncRuns, IntegrityScan, SequenceTheorems, FiniteSetTheorems, WellFoundedInduction, TLAPS

Working == {"enqueuing", "claiming", "looking", "capturing", "advancing", "completing",
            "cancelling", "finishing"}
OnJob == {"looking", "capturing", "advancing", "completing"}
Filled == OnJob \cup {"claiming", "finishing"}

WikiInv ==
  /\ \A p \in Page : edits[p] \subseteq 1 .. clock
  /\ \A p \in exists : edits[p] # {}
EngineInv ==
  /\ engine.at \in Working => run # NoRun /\ run.kind = engine.kind
  /\ engine.at \in {"resolving", "starting"} => engine.kind \in Kinds /\ engine.candidate <= clock
  /\ engine.at \in OnJob => engine.job \in DOMAIN jobs /\ jobs[engine.job].state = "running"
  /\ engine.at \in Filled => Selected \subseteq JobPages
  /\ engine.at = "recording" => unmanifested = 1
OnePagePerJob == \A i, j \in DOMAIN jobs : jobs[i].page = jobs[j].page => i = j
CandidateInv ==
  run # NoRun => run.candidate <= clock /\ checkpoint.committed <= run.candidate
\* Nothing of the job's page is older than the candidate and newer than s.
SeesBeforeRun(s) == \A e \in edits[page] : e < run.candidate => e <= s
AttemptInv ==
  /\ engine.at = "looking" => engine.seen = 0
  /\ engine.at \in {"capturing", "advancing"} => engine.seen # 0 /\ SeesBeforeRun(engine.seen)
  /\ engine.at = "capturing" /\ engine.kind = "bootstrap" => page \in Members
  /\ engine.at = "advancing" => engine.kind = "reconciliation" /\ engine.seen <= durable[page]
  /\ engine.at = "completing" /\ engine.seen # 0 =>
       SeesBeforeRun(durable[page]) /\ SeesBeforeRun(current[page])
JobsCovered ==
  run # NoRun =>
    \A i \in DOMAIN jobs : jobs[i].state = "succeeded" => Covers(jobs[i], run.candidate)
SyncInv ==
  /\ TypeOK /\ WikiInv /\ EngineInv /\ OnePagePerJob /\ CandidateInv /\ AttemptInv /\ JobsCovered
  /\ ShownHeadsDurable /\ AtMostOneUnmanifested

-----------------------------------------------------------------------------
(* Least and greatest elements, of which the model is full.                *)

\* The order of the natural numbers is well-founded.
LEMMA LeastNatural ==
  ASSUME NEW T \in SUBSET Nat, T # {}
  PROVE  \E x \in T : \A y \in T : x <= y
<1>1. PICK x \in T : \A y \in T : ~ (<<y, x>> \in OpToRel(<, Nat))
  BY NatLessThanWellFounded, WFMin
<1>2. \A y \in T : ~ (y < x)
  BY <1>1 DEF OpToRel
<1> QED
  BY <1>2

LEMMA LeastElement ==
  ASSUME NEW T \in SUBSET Nat, T # {}
  PROVE  Min(T) \in T /\ \A y \in T : Min(T) <= y
  BY LeastNatural DEF Min

\* The least distance to a bound is that of the greatest element.
LEMMA GreatestElement ==
  ASSUME NEW n \in Nat, NEW T \in SUBSET (0 .. n), T # {}
  PROVE  Max(T) \in T /\ \A y \in T : y <= Max(T)
<1> DEFINE U == {n - y : y \in T}
<1>1. \A y \in T : y \in Nat /\ n - y \in Nat
  OBVIOUS
<1>2. U \in SUBSET Nat /\ U # {}
  BY <1>1
<1>3. PICK u \in U : \A y \in U : u <= y
  BY <1>2, LeastNatural
<1>4. PICK x \in T : u = n - x
  BY <1>3
<1>5. \A y \in T : x >= y
  <2> TAKE y \in T
  <2>1. n - x <= n - y
    BY <1>3, <1>4
  <2> QED
    BY <1>1, <2>1
<1> QED
  BY <1>1, <1>5 DEF Max

LEMMA GreaterOfTwo ==
  ASSUME NEW a \in Nat, NEW b \in Nat
  PROVE  Max({a, b}) = IF a <= b THEN b ELSE a
  BY DEF Max

-----------------------------------------------------------------------------
(* Jobs.                                                                   *)

LEMMA JobIndices ==
  ASSUME TypeOK
  PROVE  /\ Len(jobs) \in Nat /\ DOMAIN jobs = 1 .. Len(jobs)
         /\ \A i \in DOMAIN jobs : jobs[i] \in Job
         /\ Cardinality(Page) \in Nat
  BY LenProperties, ElementOfSeq, SyncRunsAssumption, FS_CardinalityType DEF TypeOK

\* With a job per page there is room for the job of another page.
LEMMA RoomForAJob ==
  ASSUME TypeOK, OnePagePerJob, NEW p \in Page \ JobPages
  PROVE  Len(jobs) + 1 <= Cardinality(Page)
<1> DEFINE f == [i \in 1 .. Len(jobs) |-> jobs[i].page]
           S == Page \ {p}
<1>1. IsFiniteSet(1 .. Len(jobs)) /\ Cardinality(1 .. Len(jobs)) = Len(jobs)
  <2>1. Len(jobs) \in Nat
    BY JobIndices
  <2>2. /\ IsFiniteSet(1 .. Len(jobs))
        /\ Cardinality(1 .. Len(jobs)) = IF 1 > Len(jobs) THEN 0 ELSE Len(jobs) - 1 + 1
    <3>1. 1 \in Int /\ Len(jobs) \in Int
      BY <2>1
    <3> QED
      BY <3>1, FS_Interval
  <2> QED
    BY <2>1, <2>2
<1>2. f \in [1 .. Len(jobs) -> S]
  BY JobIndices DEF Job, JobPages
<1>3. IsFiniteSet(S) /\ Cardinality(S) = Cardinality(Page) - 1
  BY SyncRunsAssumption, FS_RemoveElement
<1>4. \A i, j \in 1 .. Len(jobs) : i # j => f[i] # f[j]
  BY JobIndices DEF OnePagePerJob
<1> HIDE DEF f, S
<1>5. ~ (Cardinality(1 .. Len(jobs)) > Cardinality(S))
  BY <1>1, <1>2, <1>3, <1>4, FS_PigeonHole
<1> QED
  BY <1>1, <1>3, <1>5, JobIndices

\* One job changes, and not its page.
LEMMA JobChanged ==
  ASSUME TypeOK, NEW i \in DOMAIN jobs, NEW j \in Job, j.page = jobs[i].page,
         jobs' = [jobs EXCEPT ![i] = j]
  PROVE  /\ jobs' \in Seq(Job) /\ Len(jobs') = Len(jobs) /\ DOMAIN jobs' = DOMAIN jobs
         /\ jobs'[i] = j
         /\ \A k \in DOMAIN jobs : jobs'[k].page = jobs[k].page /\ (k # i => jobs'[k] = jobs[k])
         /\ JobPages' = JobPages /\ (OnePagePerJob => OnePagePerJob')
<1>1. jobs \in Seq(Job) /\ i \in 1 .. Len(jobs)
  BY JobIndices DEF TypeOK
<1>2. /\ jobs' \in Seq(Job) /\ Len(jobs') = Len(jobs)
      /\ \A k \in 1 .. Len(jobs) : jobs'[k] = IF k = i THEN j ELSE jobs[k]
  BY <1>1, ExceptSeq
<1>3. DOMAIN jobs' = DOMAIN jobs
  OBVIOUS
<1>4. \A k \in DOMAIN jobs : jobs'[k].page = jobs[k].page /\ (k # i => jobs'[k] = jobs[k])
  BY <1>2, JobIndices
<1> QED
  BY <1>1, <1>2, <1>3, <1>4 DEF JobPages, OnePagePerJob

-----------------------------------------------------------------------------
(* What keeps the invariant, by what a step leaves alone.                  *)

LEMMA SyncInvInit == Init => SyncInv
<1> SUFFICES ASSUME Init PROVE SyncInv
  OBVIOUS
<1>1. TypeOK
  <2>1. jobs \in Seq(Job) /\ Len(jobs) = 0 /\ Cardinality(Page) \in Nat
    BY EmptySeq, SyncRunsAssumption, FS_CardinalityType DEF Init
  <2>2. edits \in [Page -> SUBSET Second]
    BY SyncRunsAssumption DEF Init, Second
  <2>3. engine \in [at : Steps, kind : Kinds \cup {"none"}, candidate : Second,
                    job : 0 .. Cardinality(Page), seen : Second]
    BY <2>1, SyncRunsAssumption DEF Init, Idle, Steps, Second
  <2> QED
    BY <2>1, <2>2, <2>3, SyncRunsAssumption DEF Init, TypeOK, Second, NoRun
<1>2. WikiInv
  BY DEF Init, WikiInv
<1>3. engine.at = "idle" /\ run = NoRun /\ DOMAIN jobs = {}
  BY DEF Init, Idle
<1>4. EngineInv /\ OnePagePerJob /\ CandidateInv /\ AttemptInv /\ JobsCovered
  BY <1>3 DEF EngineInv, Working, OnJob, Filled, OnePagePerJob, CandidateInv, AttemptInv, JobsCovered
<1>5. ShownHeadsDurable /\ AtMostOneUnmanifested
  BY <1>3 DEF Init, ShownHeadsDurable, AtMostOneUnmanifested
<1> QED
  BY <1>1, <1>2, <1>4, <1>5 DEF SyncInv

\* The job of an attempt is about a page, of a run.
LEMMA Attempted ==
  ASSUME SyncInv, engine.at \in OnJob
  PROVE  /\ page \in Page /\ engine.job \in DOMAIN jobs /\ jobs[engine.job] \in Job
         /\ jobs[engine.job].state = "running"
         /\ run \in Run /\ run.kind = engine.kind /\ run.candidate \in Nat
<1>1. engine.job \in DOMAIN jobs /\ jobs[engine.job].state = "running" /\ run # NoRun /\ run.kind = engine.kind
  BY DEF SyncInv, EngineInv, Working, OnJob
<1>2. jobs[engine.job] \in Job
  BY <1>1, JobIndices DEF SyncInv
<1>3. run \in Run
  BY <1>1 DEF SyncInv, TypeOK
<1> QED
  BY <1>1, <1>2, <1>3, SyncRunsAssumption DEF Job, page, Run, Second

\* The wiki moves: what is new is not older than a run's candidate.
LEMMA WorldKeeps ==
  ASSUME SyncInv, UNCHANGED <<catalog, rows, engine>>,
         clock' \in Second \ {0}, clock <= clock',
         exists' \subseteq Page, listed' \subseteq Page, edits' \in [Page -> SUBSET Second],
         changes' \in 0 .. MaxChanges, failures' \in 0 .. MaxFailures, stops' \in 0 .. MaxStops,
         WikiInv',
         \A p \in Page : \A e \in edits'[p] : e \in edits[p] \/ e = clock
  PROVE  SyncInv'
<1>1. TypeOK'
  BY DEF SyncInv, TypeOK, catalog, rows
<1>2. clock \in Nat /\ clock' \in Nat /\ UNCHANGED <<member, tracked, durable, current, gone>>
      /\ UNCHANGED <<run, jobs, checkpoint, unmanifested, engine>>
  BY SyncRunsAssumption DEF SyncInv, TypeOK, Second, catalog, rows
<1>3. EngineInv'
  <2>1. Selected' = Selected /\ JobPages' = JobPages
    BY <1>2 DEF Selected, Members, JobPages
  <2>2. engine.candidate \in Nat
    BY SyncRunsAssumption DEF SyncInv, TypeOK, Second
  <2> QED
    BY <1>2, <2>1, <2>2 DEF SyncInv, EngineInv
<1>4. OnePagePerJob' /\ ShownHeadsDurable' /\ AtMostOneUnmanifested'
  BY <1>2 DEF SyncInv, OnePagePerJob, ShownHeadsDurable, AtMostOneUnmanifested
<1>5. run # NoRun => run.candidate \in Nat /\ run.candidate <= clock
  BY SyncRunsAssumption DEF SyncInv, CandidateInv, TypeOK, Run, Second
<1>6. CandidateInv'
  BY <1>2, <1>5 DEF SyncInv, CandidateInv
<1>7. run # NoRun => \A p \in Page : \A e \in edits'[p] : e < run.candidate => e \in edits[p]
  BY <1>2, <1>5
<1>8. AttemptInv'
  <2>1. page' = page /\ Members' = Members
    BY <1>2 DEF page, Members
  <2>2. engine.at \in OnJob => \A e \in edits'[page] : e < run.candidate => e \in edits[page]
    BY <1>7, Attempted DEF SyncInv, EngineInv, Working, OnJob
  <2> QED
    BY <1>2, <2>1, <2>2 DEF SyncInv, AttemptInv, SeesBeforeRun, OnJob
<1>9. JobsCovered'
  <2>1. \A i \in DOMAIN jobs : jobs[i].page \in Page
    BY JobIndices DEF SyncInv, Job
  <2> QED
    BY <1>2, <1>7, <2>1 DEF SyncInv, JobsCovered, Covers
<1> QED
  BY <1>1, <1>3, <1>4, <1>6, <1>8, <1>9 DEF SyncInv

\* The engine rests or is about to look for a run; the rows stay as they are.
LEMMA RestKeeps ==
  ASSUME SyncInv, UNCHANGED <<world, catalog, run, jobs, checkpoint>>,
         changes' \in 0 .. MaxChanges, failures' \in 0 .. MaxFailures, stops' \in 0 .. MaxStops,
         engine' \in [at : {"idle", "resolving", "starting"}, kind : Kinds \cup {"none"},
                      candidate : Second, job : 0 .. Cardinality(Page), seen : Second],
         engine'.at # "idle" => engine'.kind \in Kinds /\ engine'.candidate <= clock,
         unmanifested' \in Nat, unmanifested' <= unmanifested
  PROVE  SyncInv'
<1>1. UNCHANGED <<clock, exists, listed, edits>> /\ UNCHANGED <<member, tracked, durable, current, gone>>
  BY DEF world, catalog
<1>2. TypeOK'
  BY <1>1 DEF SyncInv, TypeOK, Steps
<1>3. WikiInv' /\ OnePagePerJob' /\ CandidateInv' /\ ShownHeadsDurable'
  BY <1>1 DEF SyncInv, WikiInv, OnePagePerJob, CandidateInv, ShownHeadsDurable
<1>4. engine'.at \in {"idle", "resolving", "starting"}
  OBVIOUS
<1>5. EngineInv' /\ AttemptInv'
  BY <1>1, <1>4 DEF EngineInv, AttemptInv, Working, OnJob, Filled
<1>6. JobsCovered'
  BY <1>1 DEF SyncInv, JobsCovered, Covers
<1>7. AtMostOneUnmanifested'
  BY DEF SyncInv, AtMostOneUnmanifested, TypeOK
<1> QED
  BY <1>2, <1>3, <1>5, <1>6, <1>7 DEF SyncInv

\* A new selection, between two runs of the engine.
LEMMA MembershipKeeps ==
  ASSUME SyncInv, NEW selection \in SUBSET Page, CommitMembership(selection),
         UNCHANGED <<world, rows>>,
         changes' \in 0 .. MaxChanges, failures' \in 0 .. MaxFailures, stops' \in 0 .. MaxStops,
         engine.at \in {"idle", "resolving"}, engine' = [engine EXCEPT !.at = engine'.at],
         engine'.at \in {"idle", "starting"}, engine'.at # "idle" => engine.at = "resolving"
  PROVE  SyncInv'
<1>1. UNCHANGED <<clock, exists, listed, edits>> /\ UNCHANGED <<run, jobs, checkpoint, unmanifested>>
      /\ UNCHANGED <<durable, current, gone>>
  BY DEF world, rows, CommitMembership
<1>2. engine' \in [at : Steps, kind : Kinds \cup {"none"}, candidate : Second,
                   job : 0 .. Cardinality(Page), seen : Second]
      /\ engine'.kind = engine.kind /\ engine'.candidate = engine.candidate
  BY DEF SyncInv, TypeOK, Steps
<1>3. member' \in [Page -> {"none", "active", "removed"}] /\ tracked' \subseteq Page
  BY DEF SyncInv, TypeOK, CommitMembership
<1>4. TypeOK'
  BY <1>1, <1>2, <1>3 DEF SyncInv, TypeOK
<1>5. WikiInv' /\ OnePagePerJob' /\ CandidateInv' /\ JobsCovered' /\ AtMostOneUnmanifested'
  BY <1>1 DEF SyncInv, WikiInv, OnePagePerJob, CandidateInv, JobsCovered, Covers, AtMostOneUnmanifested
<1>6. EngineInv' /\ AttemptInv'
  BY <1>1, <1>2 DEF SyncInv, EngineInv, AttemptInv, Working, OnJob, Filled
<1>7. ShownHeadsDurable'
  BY <1>1 DEF SyncInv, TypeOK, ShownHeadsDurable, CommitMembership
<1> QED
  BY <1>4, <1>5, <1>6, <1>7 DEF SyncInv

-----------------------------------------------------------------------------
(* The wiki and the selection.                                             *)

LEMMA WorldStep == SyncInv /\ World => SyncInv'
<1> SUFFICES ASSUME SyncInv, World PROVE SyncInv'
  OBVIOUS
<1>1. /\ clock \in Second \ {0} /\ clock \in Nat /\ MaxClock \in Nat
      /\ edits \in [Page -> SUBSET Second] /\ exists \subseteq Page /\ listed \subseteq Page
      /\ changes \in 0 .. MaxChanges /\ failures \in 0 .. MaxFailures /\ stops \in 0 .. MaxStops
  BY SyncRunsAssumption DEF SyncInv, TypeOK, Second
<1>2. /\ \A p \in Page : edits[p] \subseteq 1 .. clock
      /\ \A p \in exists : edits[p] # {}
  BY DEF SyncInv, WikiInv
<1>3. CASE Tick
  <2>1. clock' = clock + 1 /\ clock' \in Second \ {0}
    BY <1>1, <1>3 DEF Tick, Second
  <2>2. UNCHANGED <<catalog, rows, engine, exists, listed, edits, changes, failures, stops>>
    BY <1>3 DEF Tick, counted
  <2>3. WikiInv'
    BY <1>1, <1>2, <2>1, <2>2 DEF WikiInv
  <2> QED
    BY <1>1, <2>1, <2>2, <2>3, WorldKeeps
<1>4. ASSUME NEW p \in Page, EditPage(p) PROVE SyncInv'
  <2>1. edits' = [edits EXCEPT ![p] = @ \cup {clock}]
        /\ UNCHANGED <<catalog, rows, engine, exists, listed, clock, changes, failures, stops>>
    BY <1>4 DEF EditPage, counted
  <2>2. edits' \in [Page -> SUBSET Second] /\ WikiInv'
        /\ \A q \in Page : \A e \in edits'[q] : e \in edits[q] \/ e = clock
    BY <1>1, <1>2, <2>1 DEF WikiInv
  <2> QED
    BY <1>1, <2>1, <2>2, WorldKeeps
<1>5. ASSUME NEW p \in Page, Restore(p) PROVE SyncInv'
  <2>1. /\ edits' = [edits EXCEPT ![p] = IF @ = {} THEN {clock} ELSE @]
        /\ exists' = exists \cup {p} /\ changes' \in 0 .. MaxChanges
        /\ UNCHANGED <<catalog, rows, engine, listed, clock, failures, stops>>
    BY <1>1, <1>5, SyncRunsAssumption DEF Restore, Changed
  <2>2. edits' \in [Page -> SUBSET Second] /\ WikiInv'
        /\ \A q \in Page : \A e \in edits'[q] : e \in edits[q] \/ e = clock
    BY <1>1, <1>2, <2>1 DEF WikiInv
  <2> QED
    BY <1>1, <2>1, <2>2, WorldKeeps
<1>6. ASSUME NEW p \in Page, Delete(p) PROVE SyncInv'
  <2>1. /\ exists' = exists \ {p} /\ listed' = listed \ {p} /\ changes' \in 0 .. MaxChanges
        /\ UNCHANGED <<catalog, rows, engine, edits, clock, failures, stops>>
    BY <1>1, <1>6, SyncRunsAssumption DEF Delete, Changed
  <2>2. WikiInv'
    BY <1>2, <2>1 DEF WikiInv
  <2> QED
    BY <1>1, <2>1, <2>2, WorldKeeps
<1>7. ASSUME NEW p \in Page, Recategorize(p) PROVE SyncInv'
  <2>1. /\ listed' \subseteq Page /\ changes' \in 0 .. MaxChanges
        /\ UNCHANGED <<catalog, rows, engine, exists, edits, clock, failures, stops>>
    BY <1>1, <1>7, SyncRunsAssumption DEF Recategorize, Changed
  <2>2. WikiInv'
    BY <1>2, <2>1 DEF WikiInv
  <2> QED
    BY <1>1, <2>1, <2>2, WorldKeeps
<1>8. ASSUME NEW S \in SUBSET Page, EditSelection(S) PROVE SyncInv'
  <2>1. /\ CommitMembership(S) /\ UNCHANGED <<world, rows>> /\ engine' = engine /\ engine.at = "idle"
        /\ changes' \in 0 .. MaxChanges /\ UNCHANGED <<failures, stops>>
    BY <1>1, <1>8, SyncRunsAssumption DEF EditSelection, Changed
  <2>2. engine = [engine EXCEPT !.at = engine.at]
    BY DEF SyncInv, TypeOK
  <2> QED
    BY <1>1, <2>1, <2>2, MembershipKeeps
<1> QED
  BY <1>3, <1>4, <1>5, <1>6, <1>7, <1>8 DEF World

LEMMA ResolveKeeps == SyncInv /\ Resolve => SyncInv'
<1> SUFFICES ASSUME SyncInv, Resolve PROVE SyncInv'
  OBVIOUS
<1>1. /\ UNCHANGED <<world, rows>> /\ UNCHANGED <<changes, failures, stops>>
      /\ engine.at = "resolving" /\ engine' = [engine EXCEPT !.at = "starting"]
      /\ (CommitMembership(listed) \/ UNCHANGED catalog)
  BY DEF Resolve, Goto, counted
<1>2. /\ engine'.at = "starting" /\ engine' = [engine EXCEPT !.at = engine'.at]
      /\ engine' \in [at : {"idle", "resolving", "starting"}, kind : Kinds \cup {"none"},
                      candidate : Second, job : 0 .. Cardinality(Page), seen : Second]
      /\ engine'.kind = engine.kind /\ engine'.candidate = engine.candidate
  BY <1>1 DEF SyncInv, TypeOK
<1>3. /\ changes \in 0 .. MaxChanges /\ failures \in 0 .. MaxFailures /\ stops \in 0 .. MaxStops
      /\ listed \subseteq Page /\ unmanifested \in Nat
  BY DEF SyncInv, TypeOK
<1>4. engine'.kind \in Kinds /\ engine'.candidate <= clock
  BY <1>1, <1>2 DEF SyncInv, EngineInv
<1>5. CASE CommitMembership(listed)
  BY <1>1, <1>2, <1>3, <1>5, MembershipKeeps
<1>6. CASE UNCHANGED catalog
  BY <1>1, <1>2, <1>3, <1>4, <1>6, RestKeeps DEF rows
<1> QED
  BY <1>1, <1>5, <1>6

\* A call that starts sets where it is, what it does and its candidate.
LEMMA CallStarted ==
  ASSUME NEW A, NEW K, NEW S, NEW J, NEW r \in [at : A, kind : K, candidate : S, job : J, seen : S],
         NEW a \in A, NEW k \in K, NEW c \in S,
         NEW q, \/ q = [r EXCEPT !.at = a, !.kind = k, !.candidate = c]
                \/ q = [r EXCEPT !.at = a, !.candidate = c, !.kind = k]
                \/ q = [r EXCEPT !.at = a, !.kind = k] /\ c = r.candidate
  PROVE  /\ q \in [at : A, kind : K, candidate : S, job : J, seen : S]
         /\ q.at = a /\ q.kind = k /\ q.candidate = c
  OBVIOUS

\* The steps that leave the engine outside a run, and the rows alone.
LEMMA RestStep ==
  SyncInv /\ (StartSync \/ StartUpdate \/ RepairManifest \/ RefuseRun \/ RefuseFinish
              \/ AppendManifest \/ Stop) => SyncInv'
<1> SUFFICES ASSUME SyncInv,
                    StartSync \/ StartUpdate \/ RepairManifest \/ RefuseRun \/ RefuseFinish
                      \/ AppendManifest \/ Stop
             PROVE  SyncInv'
  OBVIOUS
<1> DEFINE Resting == [at : {"idle", "resolving", "starting"}, kind : Kinds \cup {"none"},
                       candidate : Second, job : 0 .. Cardinality(Page), seen : Second]
<1>1. /\ changes \in 0 .. MaxChanges /\ failures \in 0 .. MaxFailures /\ stops \in 0 .. MaxStops
      /\ unmanifested \in Nat /\ clock \in Second /\ clock \in Nat /\ Cardinality(Page) \in Nat
      /\ 0 \in Second /\ MaxStops \in Nat
  BY SyncRunsAssumption, JobIndices DEF SyncInv, TypeOK, Second
<1>2. Idle \in Resting /\ Idle.at = "idle" /\ Idle.candidate = 0
  BY <1>1 DEF Idle
<1>3. UNCHANGED <<world, catalog, run, jobs, checkpoint>>
  BY DEF StartSync, StartUpdate, RepairManifest, RefuseRun, RefuseFinish, AppendManifest, Stop, rows
<1>4. changes' \in 0 .. MaxChanges /\ failures' \in 0 .. MaxFailures /\ stops' \in 0 .. MaxStops
  BY <1>1 DEF StartSync, StartUpdate, RepairManifest, RefuseRun, RefuseFinish, AppendManifest, Stop, counted
<1>5. engine' \in Resting /\ (engine'.at # "idle" => engine'.kind \in Kinds /\ engine'.candidate <= clock)
  <2>1. CASE StartSync
    <3>1. \/ engine' = [Idle EXCEPT !.at = "resolving", !.kind = "reconciliation", !.candidate = clock]
          \/ engine' = [Idle EXCEPT !.at = "resolving", !.kind = "bootstrap"]
      BY <2>1 DEF StartSync
    <3>2. "reconciliation" \in Kinds /\ "bootstrap" \in Kinds /\ 0 <= clock /\ clock <= clock
      BY <1>1 DEF Kinds
    <3>3. /\ engine' \in Resting /\ engine'.at = "resolving"
          /\ engine'.kind \in Kinds /\ engine'.candidate \in {0, clock}
      <4>1. CASE engine' = [Idle EXCEPT !.at = "resolving", !.kind = "reconciliation", !.candidate = clock]
        <5>1. /\ engine' \in Resting /\ engine'.at = "resolving"
              /\ engine'.kind = "reconciliation" /\ engine'.candidate = clock
          BY <1>1, <1>2, <3>2, <4>1, CallStarted
        <5> QED
          BY <3>2, <5>1
      <4>2. CASE engine' = [Idle EXCEPT !.at = "resolving", !.kind = "bootstrap"]
        <5>1. /\ engine' \in Resting /\ engine'.at = "resolving"
              /\ engine'.kind = "bootstrap" /\ engine'.candidate = Idle.candidate
          BY <1>1, <1>2, <3>2, <4>2, CallStarted
        <5> QED
          BY <1>2, <3>2, <5>1
      <4> QED
        BY <3>1, <4>1, <4>2
    <3> QED
      BY <3>2, <3>3
  <2>2. CASE StartUpdate
    <3>1. engine' = [Idle EXCEPT !.at = "starting", !.candidate = clock, !.kind = "reconciliation"]
      BY <2>2 DEF StartUpdate
    <3>2. "reconciliation" \in Kinds /\ clock <= clock
      BY <1>1 DEF Kinds
    <3>3. /\ engine' \in Resting /\ engine'.at = "starting"
          /\ engine'.kind \in Kinds /\ engine'.candidate = clock
      BY <1>1, <1>2, <3>1, <3>2, CallStarted
    <3> QED
      BY <3>2, <3>3
  <2>3. CASE RepairManifest
    BY <2>3 DEF RepairManifest, SyncInv, TypeOK, EngineInv
  <2>4. CASE RefuseRun \/ RefuseFinish \/ AppendManifest \/ Stop
    BY <1>2, <2>4 DEF RefuseRun, RefuseFinish, AppendManifest, Stop
  <2> QED
    BY <2>1, <2>2, <2>3, <2>4
<1>6. unmanifested' \in Nat /\ unmanifested' <= unmanifested
  <2>1. CASE AppendManifest
    BY <1>1, <2>1 DEF AppendManifest, SyncInv, EngineInv
  <2>2. CASE RepairManifest
    BY <1>1, <2>2 DEF RepairManifest
  <2>3. CASE StartSync \/ StartUpdate \/ RefuseRun \/ RefuseFinish \/ Stop
    BY <1>1, <2>3 DEF StartSync, StartUpdate, RefuseRun, RefuseFinish, Stop, rows
  <2> QED
    BY <2>1, <2>2, <2>3
<1> QED
  BY <1>3, <1>4, <1>5, <1>6, RestKeeps

-----------------------------------------------------------------------------
(* A run and its jobs.                                                     *)

EngineRecord == [at : Steps, kind : Kinds \cup {"none"}, candidate : Second,
                 job : 0 .. Cardinality(Page), seen : Second]

\* Jobs come and change, none of them to succeeded; nothing is captured.
LEMMA JobsKeep ==
  ASSUME SyncInv, UNCHANGED <<world, catalog, run, checkpoint, unmanifested>>,
         changes' \in 0 .. MaxChanges, failures' \in 0 .. MaxFailures, stops' \in 0 .. MaxStops,
         jobs' \in Seq(Job), Len(jobs') <= Cardinality(Page), OnePagePerJob',
         \A i \in DOMAIN jobs' : jobs'[i].state = "succeeded" => i \in DOMAIN jobs /\ jobs'[i] = jobs[i],
         engine' \in EngineRecord, EngineInv', AttemptInv'
  PROVE  SyncInv'
<1>1. UNCHANGED <<clock, exists, listed, edits>> /\ UNCHANGED <<member, tracked, durable, current, gone>>
  BY DEF world, catalog
<1>2. TypeOK'
  BY <1>1 DEF SyncInv, TypeOK, EngineRecord
<1>3. WikiInv' /\ CandidateInv' /\ ShownHeadsDurable' /\ AtMostOneUnmanifested'
  BY <1>1 DEF SyncInv, WikiInv, CandidateInv, ShownHeadsDurable, AtMostOneUnmanifested
<1>4. JobsCovered'
  BY <1>1 DEF SyncInv, JobsCovered, Covers
<1> QED
  BY <1>2, <1>3, <1>4 DEF SyncInv

LEMMA StartRunKeeps == SyncInv /\ StartRun => SyncInv'
<1> SUFFICES ASSUME SyncInv, StartRun PROVE SyncInv'
  OBVIOUS
<1>1. /\ engine.at = "starting" /\ unmanifested = 0 /\ Candidate >= checkpoint.committed
      /\ run' = [kind |-> engine.kind, candidate |-> Candidate] /\ jobs' = <<>>
      /\ engine' = [engine EXCEPT !.at = "enqueuing", !.candidate = 0]
      /\ UNCHANGED <<clock, exists, listed, edits>> /\ UNCHANGED <<changes, failures, stops>>
      /\ UNCHANGED <<member, tracked, durable, current, gone>> /\ UNCHANGED <<checkpoint, unmanifested>>
  BY DEF StartRun, world, counted, catalog
<1>2. /\ engine.kind \in Kinds /\ engine.candidate <= clock /\ engine \in EngineRecord
      /\ clock \in Second /\ clock \in Nat /\ 0 \in Second /\ Cardinality(Page) \in Nat
  BY <1>1, SyncRunsAssumption, JobIndices DEF SyncInv, EngineInv, TypeOK, EngineRecord, Second
<1>3. Candidate \in Second /\ Candidate <= clock
  BY <1>2 DEF Candidate, EngineRecord
<1>4. run' \in Run /\ run'.kind = engine.kind /\ run'.candidate = Candidate /\ run' # NoRun
  BY <1>1, <1>2, <1>3 DEF Run, NoRun, Kinds
<1>5. "enqueuing" \in Steps
  BY DEF Steps
<1>6. engine' \in EngineRecord /\ engine'.at = "enqueuing" /\ engine'.kind = engine.kind
  BY <1>1, <1>2, <1>5 DEF EngineRecord
<1>7. jobs' \in Seq(Job) /\ Len(jobs') <= Cardinality(Page) /\ DOMAIN jobs' = {}
  BY <1>1, <1>2, EmptySeq
<1>8. TypeOK'
  BY <1>1, <1>4, <1>6, <1>7 DEF SyncInv, TypeOK, EngineRecord
<1>9. WikiInv' /\ ShownHeadsDurable' /\ AtMostOneUnmanifested'
  BY <1>1 DEF SyncInv, WikiInv, ShownHeadsDurable, AtMostOneUnmanifested
<1>10. EngineInv' /\ AttemptInv'
  BY <1>4, <1>6 DEF EngineInv, AttemptInv, Working, OnJob, Filled
<1>11. OnePagePerJob' /\ JobsCovered'
  BY <1>7 DEF OnePagePerJob, JobsCovered
<1>12. CandidateInv'
  BY <1>1, <1>3, <1>4 DEF CandidateInv
<1> QED
  BY <1>8, <1>9, <1>10, <1>11, <1>12 DEF SyncInv

LEMMA ResumeRunKeeps == SyncInv /\ ResumeRun => SyncInv'
<1> SUFFICES ASSUME SyncInv, ResumeRun PROVE SyncInv'
  OBVIOUS
<1> DEFINE Requeued(i) == IF jobs[i].state \in {"running", "retryable"}
                          THEN [jobs[i] EXCEPT !.state = "queued"] ELSE jobs[i]
<1>1. /\ engine.at = "starting" /\ run.kind = engine.kind
      /\ jobs' = [i \in DOMAIN jobs |-> Requeued(i)]
      /\ engine' = [engine EXCEPT !.at = "enqueuing", !.candidate = 0]
      /\ UNCHANGED <<world, catalog, run, checkpoint, unmanifested>> /\ UNCHANGED <<changes, failures, stops>>
  BY DEF ResumeRun, counted
<1>2. Len(jobs) \in Nat /\ DOMAIN jobs = 1 .. Len(jobs) /\ TypeOK
  BY JobIndices DEF SyncInv
<1>3. \A i \in DOMAIN jobs : /\ Requeued(i) \in Job /\ Requeued(i).page = jobs[i].page
                             /\ Requeued(i).state = "succeeded" => Requeued(i) = jobs[i]
  BY JobIndices DEF SyncInv, Job, JobStates
<1> HIDE DEF Requeued
<1>4. jobs' \in Seq(Job) /\ DOMAIN jobs' = DOMAIN jobs /\ Len(jobs') = Len(jobs)
  <2>1. jobs' \in [1 .. Len(jobs) -> Job] /\ DOMAIN jobs' = 1 .. Len(jobs)
    BY <1>1, <1>2, <1>3
  <2> QED
    BY <1>2, <2>1, SeqDef, LenProperties
<1>5. OnePagePerJob'
  BY <1>1, <1>3, <1>4 DEF SyncInv, OnePagePerJob
<1>6. /\ engine.kind \in Kinds /\ engine \in EngineRecord /\ 0 \in Second /\ "enqueuing" \in Steps
  BY <1>1, SyncRunsAssumption DEF SyncInv, EngineInv, TypeOK, EngineRecord, Second, Steps
<1>7. engine' \in EngineRecord /\ engine'.at = "enqueuing" /\ engine'.kind = engine.kind
  BY <1>1, <1>6 DEF EngineRecord
<1>8. EngineInv' /\ AttemptInv'
  <2>1. run' # NoRun
    BY <1>1, <1>6 DEF NoRun, Kinds
  <2> QED
    BY <1>1, <1>7, <2>1 DEF EngineInv, AttemptInv, Working, OnJob, Filled
<1>9. \A i \in DOMAIN jobs' : jobs'[i].state = "succeeded" => i \in DOMAIN jobs /\ jobs'[i] = jobs[i]
  BY <1>1, <1>3, <1>4
<1>10. /\ changes' \in 0 .. MaxChanges /\ failures' \in 0 .. MaxFailures /\ stops' \in 0 .. MaxStops
       /\ Len(jobs') <= Cardinality(Page)
  BY <1>1, <1>2, <1>4 DEF TypeOK
<1> QED
  BY <1>1, <1>4, <1>5, <1>7, <1>8, <1>9, <1>10, JobsKeep

LEMMA EnqueueKeeps == SyncInv /\ Enqueue => SyncInv'
<1> SUFFICES ASSUME SyncInv, Enqueue PROVE SyncInv'
  OBVIOUS
<1> DEFINE p == Min(Selected \ JobPages)
           j == [page |-> p, state |-> "queued", seen |-> 0]
<1>1. /\ engine.at = "enqueuing" /\ Selected \ JobPages # {} /\ jobs' = Append(jobs, j)
      /\ UNCHANGED <<world, catalog, run, checkpoint, unmanifested, engine>>
      /\ UNCHANGED <<changes, failures, stops>>
  BY DEF Enqueue, counted
<1>2. Len(jobs) \in Nat /\ DOMAIN jobs = 1 .. Len(jobs) /\ TypeOK /\ jobs \in Seq(Job)
  BY JobIndices DEF SyncInv, TypeOK
<1>3. p \in Page \ JobPages
  <2>1. Selected \subseteq Page /\ Selected \ JobPages \in SUBSET Nat
    BY <1>2, SyncRunsAssumption DEF Selected, Members, TypeOK
  <2> QED
    BY <1>1, <2>1, LeastElement
<1> HIDE DEF p
<1>4. j \in Job /\ j.page = p /\ j.state = "queued"
  BY <1>3, SyncRunsAssumption DEF Job, JobStates, Second
<1> HIDE DEF j
<1>5. /\ jobs' \in Seq(Job) /\ Len(jobs') = Len(jobs) + 1 /\ DOMAIN jobs' = 1 .. Len(jobs) + 1
      /\ jobs'[Len(jobs) + 1] = j /\ \A i \in DOMAIN jobs : jobs'[i] = jobs[i]
  BY <1>1, <1>2, <1>4, AppendProperties, LenProperties
<1>6. \A i \in DOMAIN jobs : jobs[i].page # p
  BY <1>3 DEF JobPages
<1>7. OnePagePerJob'
  BY <1>2, <1>4, <1>5, <1>6 DEF SyncInv, OnePagePerJob
<1>8. \A i \in DOMAIN jobs' : jobs'[i].state = "succeeded" => i \in DOMAIN jobs /\ jobs'[i] = jobs[i]
  BY <1>2, <1>4, <1>5
<1>9. EngineInv' /\ AttemptInv'
  BY <1>1 DEF SyncInv, EngineInv, AttemptInv, Working, OnJob, Filled
<1>10. Len(jobs') <= Cardinality(Page)
  BY <1>2, <1>3, <1>5, RoomForAJob DEF SyncInv
<1>11. /\ changes' \in 0 .. MaxChanges /\ failures' \in 0 .. MaxFailures /\ stops' \in 0 .. MaxStops
       /\ engine' \in EngineRecord
  BY <1>1, <1>2 DEF TypeOK, EngineRecord
<1> QED
  BY <1>1, <1>5, <1>7, <1>8, <1>9, <1>10, <1>11, JobsKeep

LEMMA JobListKeeps == SyncInv /\ (Enqueued \/ NoMoreJobs) => SyncInv'
<1> SUFFICES ASSUME SyncInv, Enqueued \/ NoMoreJobs PROVE SyncInv'
  OBVIOUS
<1>1. PICK there \in {"claiming", "finishing"} : engine' = [engine EXCEPT !.at = there]
  BY DEF Enqueued, NoMoreJobs, Goto
<1>2. /\ UNCHANGED <<world, catalog, run, jobs, checkpoint, unmanifested>>
      /\ UNCHANGED <<changes, failures, stops>> /\ engine.at \in Working
      /\ Selected \subseteq JobPages
  BY DEF Enqueued, NoMoreJobs, counted, rows, Working, SyncInv, EngineInv, Filled
<1>3. TypeOK /\ engine \in EngineRecord /\ there \in Steps
  BY DEF SyncInv, TypeOK, EngineRecord, Steps
<1>4. engine' \in EngineRecord /\ engine'.at = there /\ engine'.kind = engine.kind
  BY <1>1, <1>3 DEF EngineRecord
<1>5. EngineInv' /\ AttemptInv'
  <2>1. Selected' = Selected /\ JobPages' = JobPages
    BY <1>2, <1>4 DEF Selected, Members, JobPages, catalog
  <2> QED
    BY <1>2, <1>4, <2>1 DEF SyncInv, EngineInv, AttemptInv, Working, OnJob, Filled
<1>6. OnePagePerJob' /\ jobs' \in Seq(Job) /\ Len(jobs') <= Cardinality(Page)
  BY <1>2, <1>3 DEF SyncInv, OnePagePerJob, TypeOK
<1> QED
  BY <1>2, <1>3, <1>4, <1>5, <1>6, JobsKeep DEF TypeOK

\* The state of one job changes, to one that is not succeeded.
LEMMA JobStateKeeps ==
  ASSUME SyncInv, NEW i \in DOMAIN jobs, NEW t \in JobStates \ {"succeeded"},
         jobs' = [jobs EXCEPT ![i].state = t],
         UNCHANGED <<world, catalog, run, checkpoint, unmanifested>>,
         changes' \in 0 .. MaxChanges, failures' \in 0 .. MaxFailures, stops' \in 0 .. MaxStops,
         engine' \in EngineRecord,
         DOMAIN jobs' = DOMAIN jobs /\ JobPages' = JobPages /\ jobs'[i].state = t => EngineInv' /\ AttemptInv'
  PROVE  SyncInv'
<1> DEFINE j == [jobs[i] EXCEPT !.state = t]
<1>1. j \in Job /\ j.page = jobs[i].page /\ j.state = t /\ TypeOK
  BY JobIndices DEF SyncInv, Job
<1>2. jobs' = [jobs EXCEPT ![i] = j]
  OBVIOUS
<1> HIDE DEF j
<1>3. /\ jobs' \in Seq(Job) /\ Len(jobs') = Len(jobs) /\ DOMAIN jobs' = DOMAIN jobs
      /\ jobs'[i] = j
      /\ \A k \in DOMAIN jobs : k # i => jobs'[k] = jobs[k]
      /\ JobPages' = JobPages /\ OnePagePerJob'
  BY <1>1, <1>2, JobChanged DEF SyncInv
<1>4. \A k \in DOMAIN jobs' : jobs'[k].state = "succeeded" => k \in DOMAIN jobs /\ jobs'[k] = jobs[k]
  BY <1>1, <1>3
<1>5. EngineInv' /\ AttemptInv'
  BY <1>1, <1>3
<1>6. Len(jobs') <= Cardinality(Page)
  BY <1>1, <1>3 DEF TypeOK
<1> QED
  BY <1>3, <1>4, <1>5, <1>6, JobsKeep

LEMMA ClaimKeeps == SyncInv /\ Claim => SyncInv'
<1> SUFFICES ASSUME SyncInv, Claim PROVE SyncInv'
  OBVIOUS
<1> DEFINE i == Min(Queued)
<1>1. /\ engine.at = "claiming" /\ Queued # {}
      /\ jobs' = [jobs EXCEPT ![i].state = "running"]
      /\ engine' = [engine EXCEPT !.at = "looking", !.job = i, !.seen = 0]
      /\ UNCHANGED <<world, catalog, run, checkpoint, unmanifested>>
      /\ UNCHANGED <<changes, failures, stops>>
  BY DEF Claim, counted
<1>2. /\ Len(jobs) \in Nat /\ DOMAIN jobs = 1 .. Len(jobs) /\ TypeOK
      /\ Len(jobs) <= Cardinality(Page) /\ Cardinality(Page) \in Nat
  BY JobIndices DEF SyncInv, TypeOK
<1>3. i \in DOMAIN jobs
  <2>1. Queued \in SUBSET Nat /\ Queued \subseteq DOMAIN jobs
    BY <1>2 DEF Queued
  <2> QED
    BY <1>1, <2>1, LeastElement
<1> HIDE DEF i
<1>4. i \in 0 .. Cardinality(Page) /\ engine \in EngineRecord /\ "looking" \in Steps /\ 0 \in Second
  BY <1>2, <1>3, SyncRunsAssumption DEF TypeOK, EngineRecord, Steps, Second
<1>5. /\ engine' \in EngineRecord /\ engine'.at = "looking" /\ engine'.kind = engine.kind
      /\ engine'.job = i /\ engine'.seen = 0
  BY <1>1, <1>4 DEF EngineRecord
<1>6. ASSUME DOMAIN jobs' = DOMAIN jobs, JobPages' = JobPages, jobs'[i].state = "running"
      PROVE  EngineInv' /\ AttemptInv'
  <2>1. Selected' = Selected
    BY <1>1, <1>5 DEF Selected, Members, catalog
  <2> QED
    BY <1>1, <1>3, <1>5, <1>6, <2>1 DEF SyncInv, EngineInv, AttemptInv, Working, OnJob, Filled
<1>7. "running" \in JobStates \ {"succeeded"}
  BY DEF JobStates
<1>8. changes' \in 0 .. MaxChanges /\ failures' \in 0 .. MaxFailures /\ stops' \in 0 .. MaxStops
  BY <1>1, <1>2 DEF TypeOK
<1> QED
  BY <1>1, <1>3, <1>5, <1>6, <1>7, <1>8, JobStateKeeps

LEMMA FailKeeps ==
  SyncInv /\ (FailBootstrapOfRemoved \/ FailReconciliationOfRemoved
              \/ \E retryable \in BOOLEAN : Fail(retryable)) => SyncInv'
<1> SUFFICES ASSUME SyncInv,
                    FailBootstrapOfRemoved \/ FailReconciliationOfRemoved
                      \/ \E retryable \in BOOLEAN : Fail(retryable)
             PROVE  SyncInv'
  OBVIOUS
<1>1. PICK retryable \in BOOLEAN : FailJob(retryable)
  BY DEF FailBootstrapOfRemoved, FailReconciliationOfRemoved, Fail
<1>2. /\ engine.at \in OnJob /\ changes' = changes /\ stops' = stops
      /\ failures' \in 0 .. MaxFailures
  <2>1. failures \in 0 .. MaxFailures /\ MaxFailures \in Nat
    BY SyncRunsAssumption DEF SyncInv, TypeOK
  <2>2. CASE FailBootstrapOfRemoved \/ FailReconciliationOfRemoved
    BY <2>1, <2>2 DEF FailBootstrapOfRemoved, FailReconciliationOfRemoved, OnJob, counted
  <2>3. CASE \E r \in BOOLEAN : Fail(r)
    BY <2>1, <2>3 DEF Fail, OnJob
  <2> QED
    BY <2>2, <2>3
<1>3. engine.job \in DOMAIN jobs /\ TypeOK /\ run # NoRun /\ run.kind = engine.kind
  BY <1>2 DEF SyncInv, EngineInv, Working, OnJob
<1> DEFINE t == IF retryable THEN "retryable" ELSE "failed"
<1>4. /\ jobs' = [jobs EXCEPT ![engine.job].state = t]
      /\ engine' = IF retryable THEN Idle ELSE [engine EXCEPT !.at = "cancelling"]
      /\ UNCHANGED <<world, catalog, run, checkpoint, unmanifested>>
  BY <1>1 DEF FailJob
<1>5. t \in JobStates \ {"succeeded"}
  BY DEF JobStates
<1> HIDE DEF t
<1>6. /\ engine \in EngineRecord /\ "cancelling" \in Steps /\ Idle \in EngineRecord /\ Idle.at = "idle"
  <2>1. engine \in EngineRecord
    BY <1>3 DEF TypeOK, EngineRecord
  <2>2. "cancelling" \in Steps
    BY DEF Steps
  <2>3. Idle \in EngineRecord /\ Idle.at = "idle"
    BY <1>3, JobIndices, SyncRunsAssumption DEF EngineRecord, Steps, Idle, Second
  <2> QED
    BY <2>1, <2>2, <2>3
<1>7. /\ engine' \in EngineRecord
      /\ \/ engine'.at = "idle"
         \/ engine'.at = "cancelling" /\ engine'.kind = engine.kind
  BY <1>4, <1>6 DEF EngineRecord
<1>8. EngineInv' /\ AttemptInv'
  BY <1>3, <1>4, <1>7 DEF EngineInv, AttemptInv, Working, OnJob, Filled
<1>9. changes' \in 0 .. MaxChanges /\ stops' \in 0 .. MaxStops
  BY <1>2, <1>3 DEF TypeOK
<1> QED
  BY <1>2, <1>3, <1>4, <1>5, <1>7, <1>8, <1>9, JobStateKeeps

-----------------------------------------------------------------------------
(* One attempt at a job.                                                   *)

LEMMA LookFoundKeeps == SyncInv /\ LookFound => SyncInv'
<1> SUFFICES ASSUME SyncInv, LookFound PROVE SyncInv'
  OBVIOUS
<1>1. /\ engine.at = "looking" /\ Valid /\ page \in exists
      /\ engine' = [engine EXCEPT !.at = "capturing", !.seen = NewestEdit(page)]
      /\ UNCHANGED <<world, catalog, run, jobs, checkpoint, unmanifested>>
      /\ UNCHANGED <<changes, failures, stops>>
  BY DEF LookFound, counted, rows
<1>2. /\ page \in Page /\ engine.job \in DOMAIN jobs /\ jobs[engine.job].state = "running"
      /\ TypeOK /\ run # NoRun /\ run.kind = engine.kind /\ Selected \subseteq JobPages
  BY <1>1, Attempted DEF SyncInv, EngineInv, Working, OnJob, Filled
<1>3. /\ NewestEdit(page) \in edits[page] /\ \A e \in edits[page] : e <= NewestEdit(page)
      /\ NewestEdit(page) \in Second /\ NewestEdit(page) # 0
  <2>1. edits[page] # {} /\ edits[page] \subseteq 1 .. clock /\ edits[page] \subseteq 0 .. MaxClock
    BY <1>1, <1>2 DEF SyncInv, WikiInv, TypeOK, Second
  <2>2. MaxClock \in Nat
    BY SyncRunsAssumption
  <2>3. NewestEdit(page) \in edits[page] /\ \A e \in edits[page] : e <= NewestEdit(page)
    BY <2>1, <2>2, GreatestElement DEF NewestEdit
  <2>4. clock \in Nat
    BY <1>2, SyncRunsAssumption DEF TypeOK, Second
  <2> QED
    BY <2>1, <2>3, <2>4 DEF Second
<1>4. engine \in EngineRecord /\ "capturing" \in Steps
  BY <1>2 DEF TypeOK, EngineRecord, Steps
<1>5. /\ engine' \in EngineRecord /\ engine'.at = "capturing" /\ engine'.kind = engine.kind
      /\ engine'.job = engine.job /\ engine'.seen = NewestEdit(page)
  BY <1>1, <1>3, <1>4 DEF EngineRecord
<1>6. page' = page /\ Selected' = Selected /\ JobPages' = JobPages /\ Members' = Members
      /\ edits' = edits /\ run' = run
  BY <1>1, <1>5 DEF page, Selected, Members, JobPages, catalog, world
<1>7. EngineInv'
  BY <1>1, <1>2, <1>5, <1>6 DEF EngineInv, Working, OnJob, Filled
<1>8. AttemptInv'
  <2>1. SeesBeforeRun(engine.seen)'
    BY <1>3, <1>5, <1>6 DEF SeesBeforeRun
  <2>2. engine.kind = "bootstrap" => page \in Members
    BY <1>1 DEF Valid
  <2> QED
    BY <1>3, <1>5, <1>6, <2>1, <2>2 DEF AttemptInv
<1>9. /\ jobs' \in Seq(Job) /\ Len(jobs') <= Cardinality(Page) /\ OnePagePerJob'
      /\ changes' \in 0 .. MaxChanges /\ failures' \in 0 .. MaxFailures /\ stops' \in 0 .. MaxStops
  BY <1>1, <1>2 DEF TypeOK, SyncInv, OnePagePerJob
<1> QED
  BY <1>1, <1>5, <1>7, <1>8, <1>9, JobsKeep

\* Rows of the job's page change.
LEMMA CaptureKeeps ==
  ASSUME SyncInv, engine.at \in OnJob, NEW there \in OnJob,
         engine' = [engine EXCEPT !.at = there],
         UNCHANGED <<world, counted, member, rows>>,
         tracked' \subseteq Page, gone' \subseteq Page,
         durable' \in [Page -> Second], current' \in [Page -> Second],
         \A p \in Page : p # page => durable'[p] = durable[p] /\ current'[p] = current[p],
         engine.kind = "bootstrap" \/ tracked' = tracked,
         ShownHeadsDurable',
         engine'.at = there /\ engine'.kind = engine.kind /\ engine'.seen = engine.seen /\ page' = page
           => AttemptInv'
  PROVE  SyncInv'
<1>1. /\ UNCHANGED <<clock, exists, listed, edits>> /\ UNCHANGED <<changes, failures, stops>>
      /\ UNCHANGED <<run, jobs, checkpoint, unmanifested>>
  BY DEF world, counted, rows
<1>2. /\ page \in Page /\ engine.job \in DOMAIN jobs /\ jobs[engine.job].state = "running"
      /\ TypeOK /\ run # NoRun /\ run.kind = engine.kind /\ Selected \subseteq JobPages
  BY Attempted DEF SyncInv, EngineInv, Working, OnJob, Filled
<1>3. engine \in EngineRecord /\ there \in Steps
  BY <1>2 DEF TypeOK, EngineRecord, Steps, OnJob
<1>4. /\ engine' \in EngineRecord /\ engine'.at = there /\ engine'.kind = engine.kind
      /\ engine'.job = engine.job /\ engine'.seen = engine.seen
  BY <1>3 DEF EngineRecord
<1>5. page' = page /\ Selected' = Selected /\ JobPages' = JobPages
  BY <1>1, <1>4 DEF page, Selected, Members, JobPages
<1>6. TypeOK'
  BY <1>1, <1>2, <1>4 DEF TypeOK, EngineRecord
<1>7. WikiInv' /\ OnePagePerJob' /\ CandidateInv' /\ AtMostOneUnmanifested'
  BY <1>1 DEF SyncInv, WikiInv, OnePagePerJob, CandidateInv, AtMostOneUnmanifested
<1>8. EngineInv'
  BY <1>1, <1>2, <1>4, <1>5 DEF EngineInv, Working, OnJob, Filled
<1>9. JobsCovered'
  <2> SUFFICES ASSUME NEW i \in DOMAIN jobs, jobs[i].state = "succeeded"
               PROVE  Covers(jobs[i], run.candidate)'
    BY <1>1 DEF JobsCovered
  <2>1. jobs[i].page # page
    BY <1>2 DEF SyncInv, OnePagePerJob, page
  <2>2. jobs[i].page \in Page
    BY <1>2, JobIndices DEF Job
  <2>3. Covers(jobs[i], run.candidate)
    BY <1>2 DEF SyncInv, JobsCovered
  <2> QED
    BY <1>1, <2>1, <2>2, <2>3 DEF Covers
<1>10. AttemptInv'
  BY <1>4, <1>5
<1> QED
  BY <1>6, <1>7, <1>8, <1>9, <1>10 DEF SyncInv

LEMMA LookMissingKeeps == SyncInv /\ LookMissing => SyncInv'
<1> SUFFICES ASSUME SyncInv, LookMissing PROVE SyncInv'
  OBVIOUS
<1>1. /\ engine.at = "looking" /\ engine' = [engine EXCEPT !.at = "completing"]
      /\ gone' \subseteq gone \cup {page}
      /\ UNCHANGED <<world, counted, member, tracked, durable, current, rows>>
  BY DEF LookMissing, Goto
<1>2. page \in Page /\ TypeOK /\ engine.seen = 0
  BY <1>1, Attempted DEF SyncInv, AttemptInv, OnJob
<1>3. /\ tracked' \subseteq Page /\ gone' \subseteq Page
      /\ durable' \in [Page -> Second] /\ current' \in [Page -> Second]
  BY <1>1, <1>2 DEF TypeOK
<1>4. ShownHeadsDurable'
  BY <1>1 DEF SyncInv, ShownHeadsDurable
<1>5. ASSUME engine'.at = "completing", engine'.seen = engine.seen
      PROVE  AttemptInv'
  BY <1>2, <1>5 DEF AttemptInv
<1>6. engine.at \in OnJob /\ "completing" \in OnJob
  BY <1>1 DEF OnJob
<1> QED
  BY <1>1, <1>3, <1>4, <1>5, <1>6, CaptureKeeps

\* The head that the job saw, as a second.
LEMMA SeenHead ==
  ASSUME SyncInv, engine.at \in {"capturing", "advancing"}
  PROVE  /\ page \in Page /\ TypeOK /\ engine.seen \in Nat /\ engine.seen \in Second /\ engine.seen # 0
         /\ durable[page] \in Nat /\ current[page] \in Nat /\ current[page] <= durable[page]
         /\ durable[page] \in Second /\ current[page] \in Second
         /\ edits[page] \subseteq Nat /\ run.candidate \in Nat
         /\ SeesBeforeRun(engine.seen)
<1>1. page \in Page /\ run.candidate \in Nat
  BY Attempted DEF OnJob
<1>2. engine.seen \in Second /\ durable[page] \in Second /\ current[page] \in Second /\ edits[page] \subseteq Second
  BY <1>1 DEF SyncInv, TypeOK
<1>3. Second \subseteq Nat
  BY SyncRunsAssumption DEF Second
<1> QED
  BY <1>1, <1>2, <1>3 DEF SyncInv, AttemptInv, ShownHeadsDurable

LEMMA CaptureHeadKeeps == SyncInv /\ CaptureHead => SyncInv'
<1> SUFFICES ASSUME SyncInv, CaptureHead PROVE SyncInv'
  OBVIOUS
<1> DEFINE d == Max({durable[page], engine.seen})
           c == Max({current[page], engine.seen})
<1>1. /\ engine.at = "capturing" /\ engine.kind = "bootstrap"
      /\ durable' = [durable EXCEPT ![page] = d] /\ current' = [current EXCEPT ![page] = c]
      /\ gone' \subseteq gone /\ tracked' = tracked \cup {page}
      /\ engine' = [engine EXCEPT !.at = "completing"]
      /\ UNCHANGED <<world, counted, member, rows>>
  BY DEF CaptureHead, Goto
<1>2. /\ page \in Page /\ TypeOK /\ engine.seen \in Nat /\ engine.seen \in Second /\ engine.seen # 0
      /\ durable[page] \in Nat /\ current[page] \in Nat /\ current[page] <= durable[page]
      /\ durable[page] \in Second /\ current[page] \in Second
      /\ edits[page] \subseteq Nat /\ run.candidate \in Nat /\ SeesBeforeRun(engine.seen)
  BY <1>1, SeenHead
<1>3. /\ d \in Second /\ c \in Second /\ d \in Nat /\ c \in Nat
      /\ c <= d /\ engine.seen <= c /\ engine.seen <= d /\ c # 0
  BY <1>2, GreaterOfTwo
<1> HIDE DEF d, c
<1>4. page \in Members
  BY <1>1 DEF SyncInv, AttemptInv
<1>5. /\ durable' \in [Page -> Second] /\ current' \in [Page -> Second]
      /\ durable'[page] = d /\ current'[page] = c
      /\ \A p \in Page : p # page => durable'[p] = durable[p] /\ current'[p] = current[p]
  BY <1>1, <1>2, <1>3 DEF TypeOK
<1>6. tracked' \subseteq Page /\ gone' \subseteq Page
  BY <1>1, <1>2 DEF TypeOK
<1>7. ShownHeadsDurable'
  BY <1>1, <1>2, <1>3, <1>4, <1>5 DEF SyncInv, ShownHeadsDurable, Members, TypeOK
<1>8. ASSUME engine'.at = "completing", engine'.seen = engine.seen, page' = page
      PROVE  AttemptInv'
  <2>1. edits' = edits /\ run' = run
    BY <1>1 DEF world, rows
  <2>2. SeesBeforeRun(durable[page])' /\ SeesBeforeRun(current[page])'
    BY <1>2, <1>3, <1>5, <1>8, <2>1 DEF SeesBeforeRun
  <2> QED
    BY <1>8, <2>2 DEF AttemptInv
<1>9. engine.at \in OnJob /\ "completing" \in OnJob
  BY <1>1 DEF OnJob
<1> QED
  BY <1>1, <1>5, <1>6, <1>7, <1>8, <1>9, CaptureKeeps

LEMMA CaptureGapKeeps == SyncInv /\ CaptureGap => SyncInv'
<1> SUFFICES ASSUME SyncInv, CaptureGap PROVE SyncInv'
  OBVIOUS
<1> DEFINE d == Max({durable[page], engine.seen})
<1>1. /\ engine.at = "capturing" /\ engine.kind = "reconciliation"
      /\ durable' = [durable EXCEPT ![page] = d]
      /\ engine' = [engine EXCEPT !.at = "advancing"]
      /\ UNCHANGED <<world, counted, member, tracked, current, gone, rows>>
  BY DEF CaptureGap, Goto
<1>2. /\ page \in Page /\ TypeOK /\ engine.seen \in Nat /\ engine.seen \in Second /\ engine.seen # 0
      /\ durable[page] \in Nat /\ current[page] \in Nat /\ current[page] <= durable[page]
      /\ durable[page] \in Second
      /\ edits[page] \subseteq Nat /\ run.candidate \in Nat /\ SeesBeforeRun(engine.seen)
  BY <1>1, SeenHead
<1>3. d \in Second /\ d \in Nat /\ durable[page] <= d /\ engine.seen <= d
  BY <1>2, GreaterOfTwo
<1> HIDE DEF d
<1>4. /\ durable' \in [Page -> Second] /\ current' \in [Page -> Second] /\ durable'[page] = d
      /\ \A p \in Page : p # page => durable'[p] = durable[p] /\ current'[p] = current[p]
      /\ tracked' \subseteq Page /\ gone' \subseteq Page
  BY <1>1, <1>2, <1>3 DEF TypeOK
<1>5. current[page] <= d
  BY <1>2, <1>3
<1>6. ShownHeadsDurable'
  BY <1>1, <1>2, <1>4, <1>5 DEF SyncInv, ShownHeadsDurable, TypeOK
<1>7. ASSUME engine'.at = "advancing", engine'.seen = engine.seen, engine'.kind = engine.kind, page' = page
      PROVE  AttemptInv'
  <2>1. edits' = edits /\ run' = run
    BY <1>1 DEF world, rows
  <2>2. SeesBeforeRun(engine.seen)'
    BY <1>2, <1>7, <2>1 DEF SeesBeforeRun
  <2> QED
    BY <1>1, <1>2, <1>3, <1>4, <1>7, <2>2 DEF AttemptInv
<1>8. engine.at \in OnJob /\ "advancing" \in OnJob
  BY <1>1 DEF OnJob
<1> QED
  BY <1>1, <1>4, <1>6, <1>7, <1>8, CaptureKeeps

LEMMA AdvanceHeadKeeps == SyncInv /\ AdvanceHead => SyncInv'
<1> SUFFICES ASSUME SyncInv, AdvanceHead PROVE SyncInv'
  OBVIOUS
<1>1. /\ engine.at = "advancing" /\ page \in tracked
      /\ current' = [current EXCEPT ![page] = engine.seen] /\ gone' = gone \ {page}
      /\ engine' = [engine EXCEPT !.at = "completing"]
      /\ UNCHANGED <<world, counted, member, tracked, durable, rows>>
  BY DEF AdvanceHead, Goto
<1>2. /\ page \in Page /\ TypeOK /\ engine.seen \in Nat /\ engine.seen \in Second /\ engine.seen # 0
      /\ durable[page] \in Nat /\ edits[page] \subseteq Nat /\ run.candidate \in Nat
      /\ SeesBeforeRun(engine.seen)
  BY <1>1, SeenHead
<1>3. engine.seen <= durable[page]
  BY <1>1 DEF SyncInv, AttemptInv
<1>4. /\ durable' \in [Page -> Second] /\ current' \in [Page -> Second] /\ current'[page] = engine.seen
      /\ durable' = durable
      /\ \A p \in Page : p # page => durable'[p] = durable[p] /\ current'[p] = current[p]
      /\ tracked' \subseteq Page /\ gone' \subseteq Page
  BY <1>1, <1>2 DEF TypeOK
<1>5. ShownHeadsDurable'
  BY <1>1, <1>2, <1>3, <1>4 DEF SyncInv, ShownHeadsDurable, TypeOK
<1>6. ASSUME engine'.at = "completing", engine'.seen = engine.seen, page' = page
      PROVE  AttemptInv'
  <2>1. edits' = edits /\ run' = run
    BY <1>1 DEF world, rows
  <2>2. SeesBeforeRun(durable[page])' /\ SeesBeforeRun(current[page])'
    BY <1>2, <1>3, <1>4, <1>6, <2>1 DEF SeesBeforeRun
  <2> QED
    BY <1>6, <2>2 DEF AttemptInv
<1>7. engine.at \in OnJob /\ "completing" \in OnJob
  BY <1>1 DEF OnJob
<1> QED
  BY <1>1, <1>4, <1>5, <1>6, <1>7, CaptureKeeps

LEMMA CompleteJobKeeps == SyncInv /\ CompleteJob => SyncInv'
<1> SUFFICES ASSUME SyncInv, CompleteJob PROVE SyncInv'
  OBVIOUS
<1> DEFINE i == engine.job
           j == [jobs[i] EXCEPT !.state = "succeeded", !.seen = engine.seen]
<1>1. /\ engine.at = "completing"
      /\ jobs' = [jobs EXCEPT ![i].state = "succeeded", ![i].seen = engine.seen]
      /\ engine' = [engine EXCEPT !.at = "claiming", !.job = 0, !.seen = 0]
      /\ UNCHANGED <<world, catalog, run, checkpoint, unmanifested>>
      /\ UNCHANGED <<changes, failures, stops>>
  BY DEF CompleteJob, counted
<1>2. /\ page \in Page /\ i \in DOMAIN jobs /\ jobs[i] \in Job /\ run.kind = engine.kind
      /\ TypeOK /\ run # NoRun /\ Selected \subseteq JobPages
  BY <1>1, Attempted DEF SyncInv, EngineInv, Working, OnJob, Filled
<1>3. /\ engine \in EngineRecord /\ engine.seen \in Second /\ 0 \in Second /\ "claiming" \in Steps
      /\ "succeeded" \in JobStates /\ 0 \in 0 .. Cardinality(Page)
  <2>1. Cardinality(Page) \in Nat
    BY <1>2, JobIndices
  <2>2. 0 \in Second /\ engine \in EngineRecord /\ engine.seen \in Second
    BY <1>2, SyncRunsAssumption DEF TypeOK, EngineRecord, Second
  <2> QED
    BY <2>1, <2>2 DEF Steps, JobStates
<1>4. j \in Job /\ j.page = jobs[i].page /\ j.seen = engine.seen
  BY <1>2, <1>3 DEF Job
<1>5. jobs' = [jobs EXCEPT ![i] = j]
  <2>1. [jobs EXCEPT ![i].state = "succeeded", ![i].seen = engine.seen]
          = [jobs EXCEPT ![i] = j]
    BY <1>2 DEF Job
  <2> QED
    BY <1>1, <2>1
<1> HIDE DEF j
<1>6. /\ jobs' \in Seq(Job) /\ Len(jobs') = Len(jobs) /\ DOMAIN jobs' = DOMAIN jobs /\ jobs'[i] = j
      /\ \A k \in DOMAIN jobs : k # i => jobs'[k] = jobs[k]
      /\ JobPages' = JobPages /\ OnePagePerJob'
  BY <1>2, <1>4, <1>5, JobChanged DEF SyncInv
<1>7. engine' \in EngineRecord /\ engine'.at = "claiming" /\ engine'.kind = engine.kind
  BY <1>1, <1>3 DEF EngineRecord
<1>8. /\ UNCHANGED <<clock, exists, listed, edits>> /\ UNCHANGED <<member, tracked, durable, current, gone>>
  BY <1>1 DEF world, catalog
<1>9. TypeOK'
  BY <1>1, <1>2, <1>6, <1>7, <1>8 DEF TypeOK, EngineRecord
<1>10. WikiInv' /\ CandidateInv' /\ ShownHeadsDurable' /\ AtMostOneUnmanifested'
  BY <1>1, <1>8 DEF SyncInv, WikiInv, CandidateInv, ShownHeadsDurable, AtMostOneUnmanifested
<1>11. EngineInv' /\ AttemptInv'
  <2>1. Selected' = Selected
    BY <1>7, <1>8 DEF Selected, Members
  <2> QED
    BY <1>1, <1>2, <1>6, <1>7, <2>1 DEF EngineInv, AttemptInv, Working, OnJob, Filled
<1>12. Covers(j, run.candidate)
  <2>1. j.page = page
    BY <1>4 DEF page
  <2>2. j.seen = 0 \/ (SeesBeforeRun(durable[page]) /\ SeesBeforeRun(current[page]))
    BY <1>1, <1>4 DEF SyncInv, AttemptInv
  <2> QED
    BY <2>1, <2>2 DEF SeesBeforeRun, Covers
<1>13. JobsCovered'
  <2> SUFFICES ASSUME NEW k \in DOMAIN jobs, jobs'[k].state = "succeeded"
               PROVE  Covers(jobs[k], run.candidate)'
    BY <1>1, <1>6 DEF JobsCovered
  <2>1. Covers(jobs'[k], run.candidate)
    BY <1>2, <1>6, <1>12 DEF SyncInv, JobsCovered
  <2> QED
    BY <1>1, <1>8, <2>1 DEF Covers
<1> QED
  BY <1>6, <1>9, <1>10, <1>11, <1>13 DEF SyncInv

-----------------------------------------------------------------------------
(* The end of a run.                                                       *)

\* What the checkpoint becomes: the candidate of the run, not behind it.
LEMMA Committed ==
  ASSUME SyncInv, FinishRun
  PROVE  /\ run \in Run /\ run.candidate \in Nat /\ unmanifested = 0
         /\ checkpoint' = [committed |-> run.candidate, hasRun |-> TRUE]
<1>1. run # NoRun /\ run \in Run
  BY DEF FinishRun, SyncInv, EngineInv, Working, TypeOK
<1>2. /\ run.candidate \in Nat /\ checkpoint.committed \in Nat
      /\ checkpoint.committed <= run.candidate /\ unmanifested = 0
  BY <1>1, SyncRunsAssumption DEF SyncInv, TypeOK, CandidateInv, AtMostOneUnmanifested, Run, Second
<1>3. Max({checkpoint.committed, run.candidate}) = run.candidate
  BY <1>2, GreaterOfTwo
<1> QED
  BY <1>1, <1>2, <1>3 DEF FinishRun

LEMMA RunEndKeeps == SyncInv /\ (CancelRun \/ FinishRun) => SyncInv'
<1> SUFFICES ASSUME SyncInv, CancelRun \/ FinishRun PROVE SyncInv'
  OBVIOUS
<1>1. /\ run' = NoRun /\ jobs' = <<>> /\ UNCHANGED <<clock, exists, listed, edits>>
      /\ UNCHANGED <<changes, failures, stops>> /\ UNCHANGED <<member, tracked, durable, current, gone>>
  BY DEF CancelRun, FinishRun, world, counted, catalog
<1>2. TypeOK /\ Cardinality(Page) \in Nat /\ 0 \in Second /\ "recording" \in Steps
  BY JobIndices, SyncRunsAssumption DEF SyncInv, Second, Steps
<1>3. Idle \in EngineRecord /\ Idle.at = "idle"
  BY <1>2 DEF Idle, EngineRecord, Steps
<1>4. /\ engine' \in EngineRecord /\ engine'.at \in {"idle", "recording"}
      /\ engine'.at = "recording" => unmanifested' = 1
      /\ unmanifested' \in Nat /\ unmanifested' <= 1
      /\ checkpoint' \in [committed : Second, hasRun : BOOLEAN]
  <2>1. CASE CancelRun
    BY <1>2, <1>3, <2>1 DEF CancelRun, SyncInv, TypeOK, AtMostOneUnmanifested
  <2>2. CASE FinishRun
    <3>1. engine' = [Idle EXCEPT !.at = "recording"] /\ unmanifested' = unmanifested + 1
      BY <2>2 DEF FinishRun
    <3>2. engine' \in EngineRecord /\ engine'.at = "recording"
      BY <1>2, <1>3, <3>1 DEF EngineRecord
    <3>3. /\ unmanifested = 0 /\ run \in Run
          /\ checkpoint' = [committed |-> run.candidate, hasRun |-> TRUE]
      BY <2>2, Committed
    <3>4. checkpoint' \in [committed : Second, hasRun : BOOLEAN]
      BY <3>3 DEF Run
    <3> QED
      BY <3>1, <3>2, <3>3, <3>4
  <2> QED
    BY <2>1, <2>2
<1>5. jobs' \in Seq(Job) /\ Len(jobs') <= Cardinality(Page) /\ DOMAIN jobs' = {}
  BY <1>1, <1>2, EmptySeq
<1>6. TypeOK'
  BY <1>1, <1>2, <1>4, <1>5 DEF TypeOK, EngineRecord
<1>7. WikiInv' /\ ShownHeadsDurable' /\ OnePagePerJob' /\ CandidateInv' /\ JobsCovered'
  BY <1>1, <1>5 DEF SyncInv, WikiInv, ShownHeadsDurable, OnePagePerJob, CandidateInv, JobsCovered
<1>8. EngineInv' /\ AttemptInv' /\ AtMostOneUnmanifested'
  BY <1>1, <1>4 DEF EngineInv, AttemptInv, AtMostOneUnmanifested, Working, OnJob, Filled
<1> QED
  BY <1>6, <1>7, <1>8 DEF SyncInv

-----------------------------------------------------------------------------
LEMMA SyncInvNext == SyncInv /\ [Next]_vars => SyncInv'
<1> SUFFICES ASSUME SyncInv, [Next]_vars PROVE SyncInv'
  OBVIOUS
<1>1. CASE World
  BY <1>1, WorldStep
<1>2. CASE EngineStep
  BY <1>2, ResolveKeeps, RestStep, StartRunKeeps, ResumeRunKeeps, EnqueueKeeps, JobListKeeps,
     ClaimKeeps, LookFoundKeeps, LookMissingKeeps, CaptureHeadKeeps, CaptureGapKeeps,
     AdvanceHeadKeeps, CompleteJobKeeps, FailKeeps, RunEndKeeps DEF EngineStep
<1>3. CASE StartSync \/ StartUpdate \/ Stop
  BY <1>3, RestStep
<1>4. CASE \E retryable \in BOOLEAN : Fail(retryable)
  BY <1>4, FailKeeps
<1>5. CASE UNCHANGED vars
  <2>1. /\ UNCHANGED <<clock, exists, listed, edits>> /\ UNCHANGED <<changes, failures, stops>>
        /\ UNCHANGED <<member, tracked, durable, current, gone>>
        /\ UNCHANGED <<run, jobs, checkpoint, unmanifested, engine>>
    BY <1>5 DEF vars, world, counted, catalog, rows
  <2> QED
    BY <2>1 DEF SyncInv, TypeOK, WikiInv, EngineInv, OnePagePerJob, CandidateInv, AttemptInv,
       JobsCovered, ShownHeadsDurable, AtMostOneUnmanifested, Selected, Members, JobPages,
       SeesBeforeRun, page, Covers
<1> QED
  BY <1>1, <1>2, <1>3, <1>4, <1>5 DEF Next

LEMMA SyncInvHolds == Spec => []SyncInv
  BY SyncInvInit, SyncInvNext, PTL DEF Spec

\* The rows of the store and the engine's locals keep their types, and a run
\* never has more jobs than there are pages.
THEOREM SyncTypes == Spec => []TypeOK
<1>1. SyncInv => TypeOK
  BY DEF SyncInv
<1> QED
  BY <1>1, SyncInvHolds, PTL

\* The head a reader is shown is a captured revision, and what is synchronized
\* is in the active selection and has a head: at every moment, whatever was
\* killed, failed, deleted or selected anew.
THEOREM ShownHeadsAreDurable == Spec => []ShownHeadsDurable
<1>1. SyncInv => ShownHeadsDurable
  BY DEF SyncInv
<1> QED
  BY <1>1, SyncInvHolds, PTL

\* The manifest chain is at most one run behind the runs, and a run starts
\* only when it is not behind at all (repair_missing_sync_manifests before
\* every run).
THEOREM ManifestsKeepUp == Spec => []AtMostOneUnmanifested
<1>1. SyncInv => AtMostOneUnmanifested
  BY DEF SyncInv
<1> QED
  BY <1>1, SyncInvHolds, PTL

\* A checkpoint never advances beyond durable source content: complete_sync_run
\* moves it to the candidate of a run each of whose pages has a job that
\* captured every revision made before that second.
THEOREM CheckpointsFollowContent == Spec => CheckpointBehindContent
<1> DEFINE Covered == \A p \in Selected : \E i \in DOMAIN jobs :
                        /\ jobs[i].page = p /\ jobs[i].state = "succeeded"
                        /\ Covers(jobs[i], checkpoint'.committed)
<1>1. SyncInv /\ FinishRun => Covered
  <2> SUFFICES ASSUME SyncInv, FinishRun, NEW p \in Selected
               PROVE  \E i \in DOMAIN jobs : /\ jobs[i].page = p /\ jobs[i].state = "succeeded"
                                             /\ Covers(jobs[i], checkpoint'.committed)
    OBVIOUS
  <2>1. checkpoint'.committed = run.candidate /\ run # NoRun
    BY Committed DEF FinishRun, SyncInv, EngineInv, Working
  <2>2. Selected \subseteq JobPages /\ AllSucceeded
    BY DEF FinishRun, SyncInv, EngineInv, Filled
  <2>3. PICK i \in DOMAIN jobs : jobs[i].page = p
    BY <2>2 DEF JobPages
  <2>4. jobs[i].state = "succeeded" /\ Covers(jobs[i], run.candidate)
    BY <2>1, <2>2 DEF AllSucceeded, SyncInv, JobsCovered
  <2> QED
    BY <2>1, <2>3, <2>4
<1>2. Next => FinishRun \/ checkpoint' = checkpoint
  BY DEF Next, World, EngineStep, Tick, EditPage, Restore, Delete, Recategorize, EditSelection,
     Resolve, RepairManifest, StartRun, ResumeRun, RefuseRun, Enqueue, Enqueued, Claim, NoMoreJobs,
     LookFound, LookMissing, CaptureHead, CaptureGap, AdvanceHead, CompleteJob,
     FailBootstrapOfRemoved, FailReconciliationOfRemoved, Fail, FailJob, CancelRun, RefuseFinish,
     AppendManifest, Stop, StartSync, StartUpdate, rows
<1>3. SyncInv /\ [Next]_vars => [checkpoint' # checkpoint => Covered]_vars
  BY <1>1, <1>2
<1> QED
  BY <1>3, SyncInvHolds, PTL DEF Spec, CheckpointBehindContent

-----------------------------------------------------------------------------
(* A verification beside the runs.  What its report says holds when it ends   *)
(* though nothing was locked: what synchronization commits meanwhile only adds *)
(* (Grows), an object or record that the cursor passed was looked at, and as   *)
(* many were as there are (ObjectsRead, RecordsRead), and the records count    *)
(* only if the counter of the catalog stands still.                            *)

\* The entries that a cursor has passed.
Until(entries, cursor) == {e \in entries : ~Precedes(cursor, e)}
ObjectEntries == {<<0, o>> : o \in library.objects}

LibraryShape ==
  /\ DOMAIN library = {"objects", "readable", "revisions", "heads", "runs", "checkpoints",
                       "documents", "fts", "media", "placements", "chain"}
  /\ library.objects \subseteq 1 .. MaxRevision
  /\ Numbered(DOMAIN library.revisions)
  /\ Numbered(DOMAIN library.placements)
  /\ Numbered(DOMAIN library.chain)
  /\ version \in Nat
  /\ DOMAIN writer = {"step", "page", "object"}
ScanShape ==
  /\ DOMAIN scan = {"phase", "scope", "total", "target", "examined", "cursor", "counter", "names",
                    "read", "represented", "found", "partial"}
  /\ scan.found \in BOOLEAN /\ scan.partial \in BOOLEAN
  /\ {scan.total, scan.target, scan.examined, scan.counter} \subseteq Nat
  /\ scan.cursor \in Nat \X Nat
  /\ scan.counter <= version
Reading == {"none", "objects", "recount"}
Comparing == {"snapshot", "inventory", "compared"}
Recording == {"records", "counted"}
Replayed == {"media", "runs", "relist", "metadata", "count", "done"} \cup Comparing \cup Recording
ObjectsRead ==
  scan.phase = "objects" =>
    /\ scan.examined <= Cardinality(Until(ObjectEntries, scan.cursor))
    /\ ~scan.found => \A e \in Until(ObjectEntries, scan.cursor) : e[2] \in library.readable
    /\ ~scan.partial => scan.target = scan.total
ObjectsReadable ==
  /\ scan.phase = "recount" => scan.partial
  /\ scan.phase \notin Reading /\ ~scan.found /\ ~scan.partial => library.objects \subseteq library.readable
NothingReplayed == scan.phase \in Reading \cup {"list"} => scan.read = {}
ClaimsReplayed ==
  scan.scope = "full" /\ scan.phase \in {"manifests"} \cup Replayed =>
    /\ scan.names \subseteq DOMAIN library.chain /\ scan.read \subseteq scan.names
    /\ scan.phase # "manifests" => scan.read = scan.names
    /\ ~scan.found =>
         /\ scan.read = 1 .. Cardinality(scan.read)
         /\ \A n \in scan.read : ClaimsHold(library.chain[n]) /\ library.chain[n].predecessor = n - 1
PlacementsKept == \A x \in DOMAIN Latest.placements : library.placements[x] = Latest.placements[x]
ImagesKept == \A m \in DOMAIN Latest.media : library.media[m] = Latest.media[m]
MediaCompared ==
  scan.scope = "full" =>
    /\ scan.phase \in Comparing => scan.names # {}
    /\ scan.phase \in Replayed \ {"media", "snapshot"} /\ scan.names # {} /\ ~scan.found =>
         /\ \A x \in DOMAIN Latest.placements : x \in DOMAIN library.placements
         /\ PlacementsKept
    /\ scan.phase \in Replayed \ {"media", "snapshot", "inventory"} /\ scan.names # {} /\ ~scan.found =>
         ImagesKept
RecordsRead ==
  scan.phase \in Recording /\ scan.counter = version =>
    /\ scan.examined <= Cardinality(Until(Records, scan.cursor))
    /\ ~scan.found => \A record \in Until(Records, scan.cursor) : RecordSound(record)
RecordsSound ==
  scan.phase = "done" /\ scan.scope = "full" /\ ~scan.found /\ ~scan.partial =>
    \A record \in Records : RecordSound(record)
ScanInv ==
  /\ LibraryShape /\ ScanShape /\ ObjectsRead /\ ObjectsReadable /\ NothingReplayed /\ ClaimsReplayed
  /\ MediaCompared /\ RecordsRead /\ RecordsSound

LEMMA LesserOfTwo ==
  ASSUME NEW a \in Int, NEW b \in Int
  PROVE  Min({a, b}) = IF a <= b THEN a ELSE b
  BY DEF Min

\* A finite set of numbers is bounded: else take a smallest one that is not.
LEMMA NumbersBounded ==
  ASSUME NEW keys \in SUBSET Nat, IsFiniteSet(keys)
  PROVE  \E n \in Nat : keys \subseteq 0 .. n
<1> DEFINE Unbounded(s) == ~ \E n \in Nat : s \subseteq 0 .. n
           sizes == {Cardinality(s) : s \in {t \in SUBSET keys : Unbounded(t)}}
<1>1. \A s \in SUBSET keys : IsFiniteSet(s) /\ Cardinality(s) \in Nat
  BY FS_Subset, FS_CardinalityType
<1>2. SUFFICES ASSUME Unbounded(keys) PROVE FALSE
  OBVIOUS
<1>3. sizes \in SUBSET Nat /\ sizes # {}
  BY <1>1, <1>2
<1> HIDE DEF Unbounded
<1>4. PICK least \in sizes : \A y \in sizes : least <= y
  <2> HIDE DEF sizes
  <2> QED
    BY <1>3, LeastNatural
<1>5. PICK s \in SUBSET keys : Unbounded(s) /\ least = Cardinality(s)
  BY <1>4
<1>6. s # {}
  BY <1>5 DEF Unbounded
<1>7. PICK e \in s : e \in Nat
  BY <1>6
<1>8. Cardinality(s \ {e}) = Cardinality(s) - 1 /\ Cardinality(s) \in Nat
  BY <1>1, <1>7, FS_RemoveElement
<1>9. ~Unbounded(s \ {e})
  <2>1. Unbounded(s \ {e}) => Cardinality(s \ {e}) \in sizes
    OBVIOUS
  <2> QED
    BY <2>1, <1>4, <1>5, <1>8
<1>10. PICK n \in Nat : s \ {e} \subseteq 0 .. n
  BY <1>9 DEF Unbounded
<1>11. s \subseteq 0 .. (n + e) /\ n + e \in Nat
  BY <1>7, <1>10
<1> QED
  BY <1>5, <1>11 DEF Unbounded

\* The next key is a new one.
LEMMA FreshIsNew ==
  ASSUME NEW keys, Numbered(keys)
  PROVE  /\ Fresh(keys) \in Nat \ {0} /\ Fresh(keys) \notin keys /\ \A k \in keys : k < Fresh(keys)
         /\ Numbered(keys \cup {Fresh(keys)}) /\ Numbered({Fresh(keys)} \cup keys)
<1>1. PICK n \in Nat : keys \subseteq 0 .. n
  BY NumbersBounded DEF Numbered
<1>2. {0} \cup keys \in SUBSET (0 .. n)
  BY <1>1
<1>3. Max({0} \cup keys) \in 0 .. n /\ \A k \in keys : k <= Max({0} \cup keys)
  <2> DEFINE T == {0} \cup keys
  <2>1. T # {} /\ T \in SUBSET (0 .. n) /\ keys \subseteq T
    BY <1>2
  <2> HIDE DEF T
  <2>2. Max(T) \in T /\ \A y \in T : y <= Max(T)
    BY <2>1, GreatestElement
  <2>3. Max(T) \in 0 .. n /\ \A k \in keys : k <= Max(T)
    BY <2>1, <2>2
  <2> QED
    BY <2>3 DEF T
<1>4. Fresh(keys) \in Nat \ {0} /\ \A k \in keys : k < Fresh(keys)
  BY <1>2, <1>3 DEF Fresh
<1>5. Fresh(keys) \notin keys
  BY <1>2, <1>4
<1>6. IsFiniteSet(keys \cup {Fresh(keys)}) /\ {Fresh(keys)} \cup keys = keys \cup {Fresh(keys)}
  BY FS_AddElement DEF Numbered
<1> QED
  BY <1>4, <1>5, <1>6 DEF Numbered

LEMMA BoundedIsNumbered ==
  ASSUME NEW keys \in SUBSET (1 .. MaxRevision)
  PROVE  Numbered(keys)
<1>1. MaxRevision \in Int /\ 1 \in Int
  BY ScanAssumption
<1>2. IsFiniteSet(1 .. MaxRevision)
  BY <1>1, FS_Interval
<1>3. IsFiniteSet(keys)
  BY <1>2, FS_Subset
<1> QED
  BY <1>1, <1>3 DEF Numbered

\* What a page of entries advances: it holds the entries between two cursors.
LEMMA PagesHaveNoGap ==
  ASSUME NEW entries \in SUBSET (Nat \X Nat), IsFiniteSet(entries),
         NEW cursor \in Nat \X Nat, NEW limit \in Int,
         PageOf(entries, cursor, limit) # {}
  PROVE  LET batch == PageOf(entries, cursor, limit)
         IN /\ LastOf(batch) \in entries /\ batch \subseteq entries
            /\ Cardinality(batch) \in Nat
            /\ Until(entries, LastOf(batch)) = Until(entries, cursor) \cup batch
            /\ Cardinality(Until(entries, LastOf(batch)))
                 = Cardinality(Until(entries, cursor)) + Cardinality(batch)
            /\ Cardinality(Until(entries, cursor)) \in Nat
<1> DEFINE rest == {e \in entries : Precedes(cursor, e)}
           batch == PageOf(entries, cursor, limit)
           Before(e) == {f \in rest : Precedes(f, e)}
<1>1. batch = {e \in rest : Cardinality(Before(e)) < limit}
  BY DEF PageOf
<1>2. batch \subseteq rest /\ rest \subseteq entries /\ batch # {}
  BY <1>1
<1>3. IsFiniteSet(batch) /\ Cardinality(batch) \in Nat
  <2> HIDE DEF batch, rest
  <2> QED
    BY <1>2, FS_Subset, FS_CardinalityType
<1>4. \A e \in rest : IsFiniteSet(Before(e)) /\ Cardinality(Before(e)) \in Nat
  <2> TAKE e \in rest
  <2>1. Before(e) \subseteq entries
    OBVIOUS
  <2> QED
    BY <2>1, FS_Subset, FS_CardinalityType
<1>5. \A e \in batch, f \in rest : Precedes(f, e) => f \in batch
  <2> SUFFICES ASSUME NEW e \in batch, NEW f \in rest, Precedes(f, e)
               PROVE  f \in batch
    OBVIOUS
  <2>1. e \in entries /\ f \in entries /\ e \in rest
    BY <1>2
  <2>2. Before(f) \subseteq Before(e)
    <3> SUFFICES ASSUME NEW g \in rest, Precedes(g, f) PROVE Precedes(g, e)
      OBVIOUS
    <3>1. g \in entries /\ g \in rest /\ Precedes(g, f)
      OBVIOUS
    <3> HIDE DEF rest, Before, batch
    <3> QED
      BY <2>1, <3>1 DEF Precedes
  <2>3. Cardinality(Before(f)) <= Cardinality(Before(e))
    <3> HIDE DEF Before
    <3> QED
      BY <1>4, <2>1, <2>2, FS_Subset
  <2>4. Cardinality(Before(e)) < limit
    BY <1>1
  <2>5. Cardinality(Before(f)) < limit
    <3> HIDE DEF Before, rest, batch
    <3> QED
      BY <1>4, <2>1, <2>3, <2>4
  <2> QED
    BY <1>1, <2>5
<1>6. PICK last \in batch : \A f \in batch \ {last} : Precedes(f, last)
  <2> DEFINE firsts == {e[1] : e \in batch}
  <2>1. IsFiniteSet(firsts)
    <3> DEFINE proj == [e \in batch |-> e[1]]
    <3>1. proj \in Surjection(batch, firsts)
      BY DEF Surjection
    <3> QED
      BY <1>3, <3>1, FS_Surjection
  <2>2. firsts \subseteq Nat /\ firsts # {}
    BY <1>2
  <2>3. PICK c \in firsts : \A d \in firsts : d <= c
    <3> HIDE DEF firsts
    <3>1. PICK n \in Nat : firsts \in SUBSET (0 .. n)
      BY <2>1, <2>2, NumbersBounded
    <3> QED
      BY <2>2, <3>1, GreatestElement
  <2> DEFINE seconds == {e[2] : e \in {f \in batch : f[1] = c}}
  <2>4. IsFiniteSet({f \in batch : f[1] = c})
    BY <1>3, FS_Subset
  <2>5. IsFiniteSet(seconds)
    <3> DEFINE proj == [e \in {f \in batch : f[1] = c} |-> e[2]]
    <3>1. proj \in Surjection({f \in batch : f[1] = c}, seconds)
      BY DEF Surjection
    <3> QED
      BY <2>4, <3>1, FS_Surjection
  <2>6. seconds \subseteq Nat /\ seconds # {}
    BY <1>2, <2>3
  <2>7. PICK k \in seconds : \A l \in seconds : l <= k
    <3> HIDE DEF seconds
    <3>1. PICK n \in Nat : seconds \in SUBSET (0 .. n)
      BY <2>5, <2>6, NumbersBounded
    <3> QED
      BY <2>6, <3>1, GreatestElement
  <2>8. PICK last \in batch : last[1] = c /\ last[2] = k
    BY <2>7
  <2>9. ASSUME NEW f \in batch \ {last} PROVE Precedes(f, last)
    <3>1. f \in Nat \X Nat /\ last \in Nat \X Nat
      BY <1>2
    <3>2. f[1] <= last[1]
      BY <2>3, <2>8
    <3>3. f[1] = last[1] => f[2] <= last[2]
      BY <2>7, <2>8
    <3> HIDE DEF batch, firsts, seconds
    <3>4. f[1] # last[1] \/ f[2] # last[2]
      BY <3>1, <2>9
    <3> QED
      BY <3>1, <3>2, <3>3, <3>4 DEF Precedes
  <2> QED
    BY <2>9
<1>7. LastOf(batch) \in batch /\ \A f \in batch \ {LastOf(batch)} : Precedes(f, LastOf(batch))
  <2> HIDE DEF batch
  <2> QED
    BY <1>6 DEF LastOf
<1> DEFINE end == LastOf(batch)
<1>8. end \in entries /\ Precedes(cursor, end)
  BY <1>2, <1>7
<1> HIDE DEF batch, end
<1>9. Until(entries, end) = Until(entries, cursor) \cup batch
  <2>1. ASSUME NEW e \in entries, ~Precedes(end, e), Precedes(cursor, e) PROVE e \in batch
    <3>1. CASE e = end
      BY <1>7, <3>1 DEF end
    <3>2. CASE e # end
      <4>1. Precedes(e, end)
        <5>1. e \in Nat \X Nat /\ end \in Nat \X Nat
          BY <1>8
        <5>2. e[1] # end[1] \/ e[2] # end[2]
          BY <3>2, <5>1
        <5> QED
          BY <2>1, <5>1, <5>2 DEF Precedes
      <4> QED
        BY <1>5, <1>7, <2>1, <4>1 DEF end
    <3> QED
      BY <3>1, <3>2
  <2>2. ASSUME NEW e \in entries, ~Precedes(cursor, e) PROVE ~Precedes(end, e)
    BY <1>8, <2>2 DEF Precedes
  <2>3. ASSUME NEW e \in batch PROVE ~Precedes(end, e)
    <3>1. e = end \/ Precedes(e, end)
      BY <1>7 DEF end
    <3>2. e \in Nat \X Nat /\ end \in Nat \X Nat
      BY <1>2, <1>8
    <3> QED
      BY <3>1, <3>2 DEF Precedes
  <2> QED
    BY <1>2, <2>1, <2>2, <2>3 DEF Until
<1>10. Until(entries, cursor) \cap batch = {}
  BY <1>2 DEF Until
<1>11. IsFiniteSet(Until(entries, cursor)) /\ Cardinality(Until(entries, cursor)) \in Nat
  BY FS_Subset, FS_CardinalityType DEF Until
<1>12. Cardinality(Until(entries, cursor) \cup batch)
         = Cardinality(Until(entries, cursor)) + Cardinality(batch)
  <2> DEFINE u == Until(entries, cursor)
  <2> HIDE DEF u
  <2>1. IsFiniteSet(u) /\ u \cap batch = {} /\ Cardinality(u) \in Nat
    BY <1>10, <1>11 DEF u
  <2>2. Cardinality(u \cap batch) = 0
    BY <2>1, FS_EmptySet
  <2>3. Cardinality(u \cup batch) = Cardinality(u) + Cardinality(batch) - Cardinality(u \cap batch)
    BY <1>3, <2>1, FS_Union
  <2>4. Cardinality(u \cup batch) = Cardinality(u) + Cardinality(batch)
    BY <1>3, <2>1, <2>2, <2>3
  <2> QED
    BY <2>4 DEF u
<1> QED
  BY <1>2, <1>3, <1>7, <1>8, <1>9, <1>11, <1>12 DEF batch, end

\* A cursor that passed as many entries as there are has passed all of them.
LEMMA CursorAtTheEnd ==
  ASSUME NEW entries, IsFiniteSet(entries), NEW cursor, NEW n \in Nat,
         n <= Cardinality(Until(entries, cursor)), n = Cardinality(entries)
  PROVE  Until(entries, cursor) = entries
<1>1. Until(entries, cursor) \in SUBSET entries
  BY DEF Until
<1>2. Cardinality(Until(entries, cursor)) <= Cardinality(entries)
  BY <1>1, FS_Subset
<1>3. Cardinality(Until(entries, cursor)) \in Nat
  BY <1>1, FS_Subset, FS_CardinalityType
<1> QED
  BY <1>1, <1>2, <1>3, FS_Subset
-----------------------------------------------------------------------------
(* The synchronization beside a verification only adds. *)

\* A table of table that was added to holds every earlier row.
Extends(new, old) == \A k \in DOMAIN old : k \in DOMAIN new /\ new[k] = old[k]
CatalogKept ==
  /\ library'.objects = library.objects /\ library'.readable = library.readable
  /\ library'.revisions = library.revisions /\ library'.heads = library.heads
  /\ library'.runs = library.runs /\ library'.checkpoints = library.checkpoints
  /\ library'.documents = library.documents /\ library'.fts = library.fts
  /\ library'.media = library.media /\ library'.placements = library.placements
Grows ==
  /\ LibraryShape' /\ UNCHANGED scan /\ scan.phase # "done" /\ version <= version'
  /\ library.objects \subseteq library'.objects /\ library.readable \subseteq library'.readable
  /\ library'.objects \ library.objects \subseteq library'.readable
  /\ DOMAIN library'.heads = DOMAIN library.heads /\ library'.media = library.media
  /\ Extends(library'.revisions, library.revisions)
  /\ Extends(library'.placements, library.placements)
  /\ Extends(library'.chain, library.chain)
  /\ version' = version => CatalogKept

LEMMA RowsStay == \A table : Extends(table, table)
  BY DEF Extends

\* Each commit but that of a manifest moves the counter of the other connection.
LEMMA CommitMoves ==
  ASSUME LibraryShape, NEW step, NEW next, Commits(step, next), DOMAIN next = {"step", "page", "object"}
  PROVE  /\ version' \in Nat /\ version < version' /\ UNCHANGED scan /\ scan.phase # "done"
         /\ DOMAIN writer' = {"step", "page", "object"}
  BY DEF Commits, WriterMoves, LibraryShape

\* A row is added under a new key.
LEMMA FreshRow ==
  ASSUME NEW table, Numbered(DOMAIN table), NEW row
  PROVE  Extends(Added(table, row), table) /\ Numbered(DOMAIN Added(table, row))
  BY FreshIsNew DEF Added, Extends

\* Steps that leave objects, revisions, placements, manifests and images alone.
LEMMA RowsUntouched ==
  ASSUME LibraryShape, NEW step, NEW next, Commits(step, next), DOMAIN next = {"step", "page", "object"},
         DOMAIN library' = DOMAIN library,
         library'.objects = library.objects, library'.readable = library.readable,
         DOMAIN library'.heads = DOMAIN library.heads, library'.media = library.media,
         library'.revisions = library.revisions, library'.placements = library.placements,
         library'.chain = library.chain
  PROVE  Grows
<1>1. version' \in Nat /\ version < version' /\ UNCHANGED scan /\ scan.phase # "done"
      /\ DOMAIN writer' = {"step", "page", "object"}
  BY CommitMoves
<1>2. LibraryShape'
  BY <1>1 DEF LibraryShape
<1>3. version' # version /\ version <= version'
  BY <1>1 DEF LibraryShape
<1> QED
  BY <1>1, <1>2, <1>3, RowsStay DEF Grows

LEMMA WriterOnlyAdds == LibraryShape /\ WriterStep => Grows
<1> SUFFICES ASSUME LibraryShape, WriterStep PROVE Grows
  OBVIOUS
<1> DEFINE Shaped(w) == DOMAIN w = {"step", "page", "object"}
<1>0. \A step : Shaped(To(step))
  BY DEF LibraryShape, To
<1>1. CASE OpenRun
  <2>1. Commits("idle", To("running"))
    BY <1>1 DEF OpenRun
  <2> DEFINE table == Added(library.runs, [succeeded |-> FALSE, candidate |-> Fresh(DOMAIN library.runs)])
  <2> HIDE DEF table
  <2>2. library' = [library EXCEPT !.runs = table]
    BY <1>1 DEF OpenRun, table
  <2> QED
    BY <1>0, <2>1, <2>2, RowsUntouched DEF LibraryShape
<1>2. CASE \E object \in 1 .. MaxRevision : PutObject(object)
  <2>1. PICK object \in 1 .. MaxRevision : PutObject(object)
    BY <1>2
  <2> DEFINE next == [writer EXCEPT !.step = "put", !.object = object]
  <2>2. Commits("running", next) /\ Shaped(next)
    BY <2>1 DEF PutObject, LibraryShape
  <2>3. version' \in Nat /\ version < version' /\ UNCHANGED scan /\ scan.phase # "done" /\ Shaped(writer')
    BY <2>2, CommitMoves
  <2>4. library' = [library EXCEPT !.objects = library.objects \cup {object},
                                   !.readable = library.readable \cup {object}]
    BY <2>1 DEF PutObject
  <2>5. LibraryShape'
    BY <2>3, <2>4 DEF LibraryShape
  <2>6. version' # version /\ version <= version'
    BY <2>3 DEF LibraryShape
  <2> QED
    BY <2>3, <2>4, <2>5, <2>6, RowsStay DEF Grows, LibraryShape
<1>3. CASE \E p \in Pages : CaptureNew(p)
  <2>1. PICK p \in Pages : CaptureNew(p)
    BY <1>3
  <2> DEFINE next == [writer EXCEPT !.step = "captured", !.page = p]
             row == [page |-> p, object |-> writer.object, parent |-> library.heads[p]]
             revision == Fresh(DOMAIN library.revisions)
             table == Added(library.revisions, row)
             heads == [library.heads EXCEPT ![p] = revision]
  <2>2. Commits("put", next) /\ Shaped(next)
    BY <2>1 DEF CaptureNew, LibraryShape
  <2>3. version' \in Nat /\ version < version' /\ UNCHANGED scan /\ scan.phase # "done" /\ Shaped(writer')
    BY <2>2, CommitMoves
  <2>4. library' = [library EXCEPT !.heads = heads, !.revisions = table]
    BY <2>1 DEF CaptureNew
  <2>5. Extends(table, library.revisions) /\ Numbered(DOMAIN table)
    BY FreshRow DEF LibraryShape
  <2>6. DOMAIN heads = DOMAIN library.heads
    OBVIOUS
  <2> HIDE DEF heads, table
  <2>7. LibraryShape'
    BY <2>3, <2>4, <2>5 DEF LibraryShape
  <2>8. version' # version /\ version <= version'
    BY <2>3 DEF LibraryShape
  <2> QED
    BY <2>3, <2>4, <2>5, <2>6, <2>7, <2>8, RowsStay DEF Grows, LibraryShape
<1>4. CASE \E p \in Pages, r \in DOMAIN library.revisions : CaptureKnown(p, r)
  <2>1. PICK p \in Pages, r \in DOMAIN library.revisions : CaptureKnown(p, r)
    BY <1>4
  <2> DEFINE next == [writer EXCEPT !.step = "captured", !.page = p]
             heads == [library.heads EXCEPT ![p] = r]
  <2>2. Commits("running", next) /\ Shaped(next)
    BY <2>1 DEF CaptureKnown, LibraryShape
  <2>3. library' = [library EXCEPT !.heads = heads] /\ DOMAIN heads = DOMAIN library.heads
    BY <2>1 DEF CaptureKnown
  <2> HIDE DEF heads, next
  <2> QED
    BY <2>2, <2>3, RowsUntouched DEF LibraryShape
<1>5. CASE IndexPage
  <2>1. Commits("captured", To("indexed"))
    BY <1>5 DEF IndexPage
  <2>2. PICK documents, fts : library' = [library EXCEPT !.documents = documents, !.fts = fts]
    BY <1>5 DEF IndexPage
  <2> QED
    BY <1>0, <2>1, <2>2, RowsUntouched DEF LibraryShape
<1>6. CASE PlaceImage
  <2>1. Commits("indexed", To("placed"))
    BY <1>6 DEF PlaceImage
  <2>2. version' \in Nat /\ version < version' /\ UNCHANGED scan /\ scan.phase # "done" /\ Shaped(writer')
    BY <1>0, <2>1, CommitMoves
  <2> DEFINE row == [revision |-> library.heads[writer.page], media |-> Min(DOMAIN library.media)]
             table == Added(library.placements, row)
  <2>3. library' = [library EXCEPT !.placements = table]
    BY <1>6 DEF PlaceImage
  <2>4. Extends(table, library.placements) /\ Numbered(DOMAIN table)
    BY FreshRow DEF LibraryShape
  <2> HIDE DEF table
  <2>5. LibraryShape'
    BY <2>2, <2>3, <2>4 DEF LibraryShape
  <2>6. version' # version /\ version <= version'
    BY <2>2 DEF LibraryShape
  <2> QED
    BY <2>2, <2>3, <2>4, <2>5, <2>6, RowsStay DEF Grows, LibraryShape
<1>7. CASE CommitRun
  <2>1. PICK step \in {"indexed", "placed"} : Commits(step, To("finished"))
    BY <1>7 DEF CommitRun
  <2>2. PICK runs, checkpoints : library' = [library EXCEPT !.runs = runs, !.checkpoints = checkpoints]
    BY <1>7 DEF CommitRun
  <2> QED
    BY <1>0, <2>1, <2>2, RowsUntouched DEF LibraryShape
<1>8. CASE WriteManifest
  <2>1. /\ UNCHANGED scan /\ scan.phase # "done" /\ version' = version /\ Shaped(writer')
    BY <1>0, <1>8 DEF WriteManifest, WriterMoves
  <2> DEFINE table(row) == Added(library.chain, row)
  <2>2. PICK row : library' = [library EXCEPT !.chain = table(row)]
    BY <1>8 DEF WriteManifest
  <2>3. Extends(table(row), library.chain) /\ Numbered(DOMAIN table(row))
    BY FreshRow DEF LibraryShape
  <2> HIDE DEF table
  <2>4. LibraryShape'
    BY <2>1, <2>2, <2>3 DEF LibraryShape
  <2>5. version \in Nat /\ version <= version'
    BY <2>1 DEF LibraryShape
  <2> QED
    BY <2>1, <2>2, <2>3, <2>4, <2>5, RowsStay DEF Grows, CatalogKept, LibraryShape
<1> QED
  BY <1>1, <1>2, <1>3, <1>4, <1>5, <1>6, <1>7, <1>8 DEF WriterStep
-----------------------------------------------------------------------------
(* What a verification has looked at stays so while it is written to. *)

\* What is asked of a record rests on the table the catalog's counter watches.
LEMMA RecordsAsked ==
  ASSUME CatalogKept
  PROVE  Records' = Records /\ \A record \in Records : RecordSound(record)' <=> RecordSound(record)
<1>1. Pages' = Pages
  BY DEF Pages, CatalogKept
<1>2. \A c \in Categories : Keys(c)' = Keys(c)
  BY <1>1 DEF Keys, CatalogKept, Categories
<1>3. Records' = Records
  BY <1>2 DEF Records
<1>4. \A r, p : IsOf(r, p)' <=> IsOf(r, p)
  BY DEF IsOf, CatalogKept
<1>5. \A k : RevisionSound(k)' <=> RevisionSound(k)
  BY <1>1 DEF RevisionSound, CatalogKept
<1>6. \A k : PageSound(k)' <=> PageSound(k)
  BY <1>4 DEF PageSound, CatalogKept
<1>7. \A k : CheckpointSound(k)' <=> CheckpointSound(k)
  BY DEF CheckpointSound, CatalogKept
<1>8. \A k : DocumentSound(k)' <=> DocumentSound(k)
  BY <1>1, <1>4 DEF DocumentSound, CatalogKept
<1>9. \A k : FtsRowSound(k)' <=> FtsRowSound(k)
  BY DEF FtsRowSound, CatalogKept
<1>10. \A k : MediaSound(k)' <=> MediaSound(k)
  BY DEF MediaSound, CatalogKept
<1>11. \A k : PlacementSound(k)' <=> PlacementSound(k)
  BY <1>1 DEF PlacementSound, CatalogKept
<1>12. \A record \in Records : record[1] \in Categories
  BY DEF Records
<1>13. ASSUME NEW record \in Records PROVE RecordSound(record)' <=> RecordSound(record)
  BY <1>5, <1>6, <1>7, <1>8, <1>9, <1>10, <1>11, <1>12 DEF RecordSound, Categories
<1> QED
  BY <1>3, <1>13

LEMMA RecordsFinite ==
  ASSUME LibraryShape
  PROVE  Records \in SUBSET (Nat \X Nat) /\ IsFiniteSet(Records) /\ Cardinality(Records) \in Nat
<1>1. IsFiniteSet(Categories) /\ IsFiniteSet(1 .. MaxRevision)
  <2>1. MaxRevision \in Int /\ 1 \in Int /\ 7 \in Int
    BY ScanAssumption
  <2> QED
    BY <2>1, FS_Interval DEF Categories
<1>2. IsFiniteSet(Categories \X (1 .. MaxRevision))
  BY <1>1, FS_Product
<1>3. Records \in SUBSET (Categories \X (1 .. MaxRevision))
  BY DEF Records
<1>4. MaxRevision \in Nat
  BY ScanAssumption
<1> QED
  BY <1>2, <1>3, <1>4, FS_Subset, FS_CardinalityType DEF Categories

LEMMA EntriesFinite ==
  ASSUME NEW objects \in SUBSET (1 .. MaxRevision)
  PROVE  /\ {<<0, o>> : o \in objects} \in SUBSET (Nat \X Nat) /\ IsFiniteSet({<<0, o>> : o \in objects})
         /\ Cardinality({<<0, o>> : o \in objects}) = Cardinality(objects)
         /\ Cardinality(objects) \in Nat
<1>1. MaxRevision \in Int /\ 1 \in Int
  BY ScanAssumption
<1>2. IsFiniteSet(1 .. MaxRevision)
  BY <1>1, FS_Interval
<1>3. IsFiniteSet(objects) /\ Cardinality(objects) \in Nat
  BY <1>2, FS_Subset, FS_CardinalityType
<1> DEFINE entries == {<<0, o>> : o \in objects}
           entry == [o \in objects |-> <<0, o>>]
<1>4. entry \in Surjection(objects, entries)
  BY DEF Surjection
<1>5. entry \in Injection(objects, entries)
  BY <1>4 DEF Surjection, Injection, IsInjective
<1>6. IsFiniteSet(entries) /\ Cardinality(entries) = Cardinality(objects)
  <2> HIDE DEF entries, entry
  <2> QED
    BY <1>3, <1>4, <1>5, FS_Surjection
<1> QED
  BY <1>1, <1>3, <1>6

LEMMA ObjectsFinite ==
  ASSUME LibraryShape
  PROVE  /\ ObjectEntries \in SUBSET (Nat \X Nat) /\ IsFiniteSet(ObjectEntries)
         /\ Cardinality(ObjectEntries) = Cardinality(library.objects)
         /\ Cardinality(library.objects) \in Nat
  BY EntriesFinite DEF LibraryShape, ObjectEntries

\* A claim that holds goes on holding: pages stay, table are never changed.
LEMMA ClaimsGoOn ==
  ASSUME DOMAIN library'.heads = DOMAIN library.heads, Extends(library'.revisions, library.revisions),
         NEW manifest, ClaimsHold(manifest)
  PROVE  ClaimsHold(manifest)'
<1>1. Pages' = Pages
  BY DEF Pages
<1>2. \A r, p : IsOf(r, p) => IsOf(r, p)' /\ library'.revisions[r] = library.revisions[r]
  BY DEF IsOf, Extends
<1>3. \A claim : RevisionClaimHolds(claim) => RevisionClaimHolds(claim)'
  BY <1>1, <1>2 DEF RevisionClaimHolds
<1>4. \A head : HeadClaimHolds(head) => HeadClaimHolds(head)'
  BY <1>1, <1>2 DEF HeadClaimHolds
<1> QED
  BY <1>3, <1>4 DEF ClaimsHold

\* The latest manifest of the list is one of it.
LEMMA LatestIsListed ==
  ASSUME LibraryShape, scan.names \subseteq DOMAIN library.chain, scan.names # {}
  PROVE  Max(scan.names) \in scan.names
<1>1. Numbered(scan.names)
  BY FS_Subset DEF LibraryShape, Numbered
<1>2. PICK n \in Nat : scan.names \in SUBSET (0 .. n)
  BY <1>1, NumbersBounded DEF Numbered
<1> QED
  BY <1>2, GreatestElement

LEMMA WriterKeepsScan == ScanInv /\ WriterStep => ScanInv'
<1> SUFFICES ASSUME ScanInv, WriterStep PROVE ScanInv'
  OBVIOUS
<1>1. LibraryShape /\ ScanShape /\ Grows
  BY WriterOnlyAdds DEF ScanInv
<1>2. LibraryShape' /\ scan' = scan /\ scan.phase # "done" /\ version <= version'
  BY <1>1 DEF Grows
<1>3. ScanShape'
  BY <1>1, <1>2 DEF ScanShape, LibraryShape
<1>4. ObjectsRead'
  <2> SUFFICES ASSUME scan.phase = "objects"
               PROVE  /\ scan.examined <= Cardinality(Until(ObjectEntries, scan.cursor)')
                      /\ ~scan.found =>
                           \A e \in Until(ObjectEntries, scan.cursor)' : e[2] \in library'.readable
                      /\ ~scan.partial => scan.target = scan.total
    BY <1>2 DEF ObjectsRead
  <2>1. /\ scan.examined <= Cardinality(Until(ObjectEntries, scan.cursor))
        /\ ~scan.found => \A e \in Until(ObjectEntries, scan.cursor) : e[2] \in library.readable
        /\ ~scan.partial => scan.target = scan.total
    BY DEF ScanInv, ObjectsRead
  <2>2. ObjectEntries \subseteq ObjectEntries'
    BY <1>1 DEF Grows, ObjectEntries
  <2>3. Until(ObjectEntries, scan.cursor) \subseteq Until(ObjectEntries, scan.cursor)'
    BY <1>2, <2>2 DEF Until, Precedes
  <2>4. IsFiniteSet(ObjectEntries)' /\ IsFiniteSet(ObjectEntries)
    <3>1. library'.objects \subseteq 1 .. MaxRevision /\ library.objects \subseteq 1 .. MaxRevision
      BY <1>1, <1>2 DEF LibraryShape
    <3> QED
      BY <3>1, EntriesFinite DEF ObjectEntries
  <2>5. /\ Cardinality(Until(ObjectEntries, scan.cursor)) <= Cardinality(Until(ObjectEntries, scan.cursor)')
        /\ Cardinality(Until(ObjectEntries, scan.cursor)) \in Nat
        /\ Cardinality(Until(ObjectEntries, scan.cursor)') \in Nat
    <3>1. IsFiniteSet(Until(ObjectEntries, scan.cursor)')
      BY <2>4, FS_Subset DEF Until
    <3> QED
      BY <2>3, <3>1, FS_Subset, FS_CardinalityType
  <2>6. scan.examined \in Nat
    BY <1>1 DEF ScanShape
  <2>7. ASSUME ~scan.found, NEW e \in Until(ObjectEntries, scan.cursor)' PROVE e[2] \in library'.readable
    <3>1. PICK o \in library'.objects : e = <<0, o>>
      BY DEF Until, ObjectEntries
    <3>2. CASE o \in library.objects
      <4>1. e \in Until(ObjectEntries, scan.cursor)
        BY <1>2, <3>1, <3>2 DEF Until, ObjectEntries, Precedes
      <4> QED
        BY <1>1, <2>1, <2>7, <4>1 DEF Grows
    <3>3. CASE o \notin library.objects
      BY <1>1, <3>1, <3>3 DEF Grows
    <3> QED
      BY <3>2, <3>3
  <2> QED
    BY <2>1, <2>5, <2>6, <2>7
<1>5. ObjectsReadable'
  BY <1>1, <1>2 DEF ScanInv, ObjectsReadable, Grows
<1>10. NothingReplayed'
  BY <1>2 DEF ScanInv, NothingReplayed
<1>6. ClaimsReplayed'
  <2> SUFFICES ASSUME scan.scope = "full", scan.phase \in {"manifests"} \cup Replayed
               PROVE  /\ scan.names \subseteq DOMAIN library'.chain /\ scan.read \subseteq scan.names
                      /\ scan.phase # "manifests" => scan.read = scan.names
                      /\ ~scan.found =>
                           /\ scan.read = 1 .. Cardinality(scan.read)
                           /\ \A n \in scan.read :
                                ClaimsHold(library.chain[n])' /\ library'.chain[n].predecessor = n - 1
    BY <1>2 DEF ClaimsReplayed
  <2>1. /\ scan.names \subseteq DOMAIN library.chain /\ scan.read \subseteq scan.names
        /\ scan.phase # "manifests" => scan.read = scan.names
        /\ ~scan.found =>
             /\ scan.read = 1 .. Cardinality(scan.read)
             /\ \A n \in scan.read : ClaimsHold(library.chain[n]) /\ library.chain[n].predecessor = n - 1
    BY DEF ScanInv, ClaimsReplayed
  <2>2. \A n \in DOMAIN library.chain : n \in DOMAIN library'.chain /\ library'.chain[n] = library.chain[n]
    BY <1>1 DEF Grows, Extends
  <2>3. ASSUME NEW n \in scan.read, ~scan.found PROVE ClaimsHold(library.chain[n])'
    <3>1. PICK manifest : manifest = library.chain[n]
      OBVIOUS
    <3>2. ClaimsHold(manifest)'
      BY <1>1, <2>1, <2>3, <3>1, ClaimsGoOn DEF Grows
    <3>3. library'.chain[n] = manifest
      BY <2>1, <2>2, <3>1
    <3> QED
      BY <3>2, <3>3 DEF ClaimsHold, RevisionClaimHolds, HeadClaimHolds
  <2> QED
    BY <2>1, <2>2, <2>3
<1>7. MediaCompared'
  <2>1. scan.scope = "full" /\ scan.phase \in Replayed /\ scan.names # {} => Latest' = Latest
    <3> SUFFICES ASSUME scan.scope = "full", scan.phase \in Replayed, scan.names # {} PROVE Latest' = Latest
      OBVIOUS
    <3>1. scan.names \subseteq DOMAIN library.chain
      BY DEF ScanInv, ClaimsReplayed
    <3>2. Max(scan.names) \in DOMAIN library.chain
      BY <1>1, <3>1, LatestIsListed
    <3> QED
      BY <1>1, <1>2, <3>2 DEF Latest, Grows, Extends
  <2>2. library'.media = library.media /\ Extends(library'.placements, library.placements)
    BY <1>1 DEF Grows
  <2>3. MediaCompared
    BY DEF ScanInv
  <2> QED
    BY <1>2, <2>1, <2>2, <2>3 DEF MediaCompared, PlacementsKept, ImagesKept, Extends
<1>8. RecordsRead'
  <2> SUFFICES ASSUME scan.phase \in Recording, scan.counter = version' PROVE RecordsRead'
    BY <1>2 DEF RecordsRead
  <2>1. version' = version
    BY <1>1, <1>2 DEF ScanShape, LibraryShape
  <2>2. CatalogKept
    BY <1>1, <2>1 DEF Grows
  <2>3. Records' = Records /\ \A record \in Records : RecordSound(record)' <=> RecordSound(record)
    BY <2>2, RecordsAsked
  <2>4. Until(Records, scan.cursor)' = Until(Records, scan.cursor) /\ Until(Records, scan.cursor) \subseteq Records
    BY <1>2, <2>3 DEF Until, Precedes
  <2>5. RecordsRead
    BY DEF ScanInv
  <2> QED
    BY <1>2, <2>1, <2>3, <2>4, <2>5 DEF RecordsRead
<1>9. RecordsSound'
  BY <1>2 DEF RecordsSound
<1> QED
  BY <1>2, <1>3, <1>4, <1>5, <1>6, <1>7, <1>8, <1>9, <1>10 DEF ScanInv
-----------------------------------------------------------------------------
(* The steps of a verification. *)

\* A look at the library changes nothing there.
LEMMA LookChangesNothing ==
  ASSUME LibraryShape, NEW phase, Looks(phase)
  PROVE  /\ LibraryShape' /\ scan.phase = phase /\ library' = library /\ version' = version
         /\ ObjectEntries' = ObjectEntries
         /\ Records' = Records /\ \A record \in Records : RecordSound(record)' <=> RecordSound(record)
         /\ \A manifest : ClaimsHold(manifest) => ClaimsHold(manifest)'
<1>1. scan.phase = phase /\ UNCHANGED <<library, version, writer>>
  BY DEF Looks
<1>2. CatalogKept
  BY <1>1 DEF CatalogKept
<1>3. LibraryShape'
  BY <1>1 DEF LibraryShape
<1>4. ObjectEntries' = ObjectEntries
  BY <1>1 DEF ObjectEntries
<1>5. Extends(library'.revisions, library.revisions) /\ DOMAIN library'.heads = DOMAIN library.heads
  BY <1>1, RowsStay
<1> QED
  BY <1>1, <1>2, <1>3, <1>4, <1>5, RecordsAsked, ClaimsGoOn

\* What was read stays read, and what was found stays found.
Onwards ==
  /\ ScanShape' /\ library' = library
  /\ scan'.scope = scan.scope /\ scan'.names = scan.names /\ scan'.read = scan.read
  /\ ~scan'.found => ~scan.found
  /\ ~scan'.partial => ~scan.partial

\* The steps before any manifest was listed have to do with objects only.
LEMMA BeforeManifests ==
  ASSUME ScanInv, NEW phase, Looks(phase), ScanShape', ObjectsRead', ObjectsReadable', scan'.read = {},
         scan'.phase \notin {"manifests"} \cup Recording,
         scan'.phase \in Replayed => scan'.scope # "full"
  PROVE  ScanInv'
<1>1. LibraryShape'
  BY LookChangesNothing DEF ScanInv
<1>2. ClaimsReplayed' /\ NothingReplayed'
  BY DEF ClaimsReplayed, NothingReplayed
<1>3. MediaCompared'
  BY DEF MediaCompared, Replayed
<1>4. RecordsRead' /\ RecordsSound'
  BY DEF RecordsRead, RecordsSound, Replayed
<1> QED
  BY <1>1, <1>2, <1>3, <1>4 DEF ScanInv

LEMMA BeginKeeps ==
  ASSUME ScanInv, NEW scope, BeginScan(scope)
  PROVE  ScanInv'
<1> DEFINE total == Cardinality(library.objects)
           target == IF scope = "quick" THEN Min({total, QuickLimit}) ELSE total
<1>1. Looks("none") /\ LibraryShape
  BY DEF BeginScan, ScanInv
<1>2. total \in Nat /\ target \in Nat
  BY <1>1, ObjectsFinite, LesserOfTwo, ScanAssumption
<1>3. scan' = [NoScan EXCEPT !.phase = "objects", !.scope = scope, !.total = total,
                  !.target = target, !.partial = target # total]
  BY DEF BeginScan
<1> HIDE DEF total, target
<1>4. /\ scan'.phase = "objects" /\ scan'.examined = 0 /\ scan'.cursor = <<0, 0>>
      /\ scan'.found = FALSE /\ (scan'.partial <=> target # total) /\ scan'.total = total
      /\ scan'.target = target /\ scan'.counter = 0 /\ scan'.read = {} /\ scan'.partial \in BOOLEAN
      /\ DOMAIN scan' = {"phase", "scope", "total", "target", "examined", "cursor", "counter", "names",
                         "read", "represented", "found", "partial"}
  BY <1>3 DEF NoScan
<1>5. version' \in Nat
  BY <1>1, LookChangesNothing DEF LibraryShape
<1>6. ScanShape'
  <2>1. scan'.total \in Nat /\ scan'.target \in Nat /\ scan'.examined \in Nat /\ scan'.counter \in Nat
    BY <1>2, <1>4
  <2>2. scan'.cursor \in Nat \X Nat
    BY <1>4
  <2>3. scan'.counter <= version'
    BY <1>4, <1>5
  <2>4. scan'.found \in BOOLEAN
    BY <1>4
  <2> QED
    BY <1>4, <2>1, <2>2, <2>3, <2>4 DEF ScanShape
<1>7. Until(ObjectEntries, <<0, 0>>) = {}
  BY <1>1, ScanAssumption DEF Until, ObjectEntries, Precedes, LibraryShape
<1>8. Until(ObjectEntries, scan.cursor)' = {}
  <2>1. ObjectEntries' = ObjectEntries
    BY <1>1, LookChangesNothing
  <2> QED
    BY <1>4, <1>7, <2>1 DEF Until, Precedes
<1>9. ObjectsRead'
  <2>1. Cardinality(Until(ObjectEntries, scan.cursor)') = 0
    BY <1>8, FS_EmptySet
  <2> QED
    BY <1>4, <1>8, <2>1 DEF ObjectsRead
<1>10. ObjectsReadable'
  BY <1>4 DEF ObjectsReadable, Reading
<1> QED
  BY <1>1, <1>4, <1>6, <1>9, <1>10, BeforeManifests DEF Recording, Replayed, Comparing

LEMMA ObjectPageKeeps == ScanInv /\ ObjectPage => ScanInv'
<1> SUFFICES ASSUME ScanInv, ObjectPage PROVE ScanInv'
  OBVIOUS
<1> DEFINE limit == Min({PageSize, scan.target - scan.examined})
           batch == PageOf(ObjectEntries, scan.cursor, limit)
<1>1. Looks("objects") /\ LibraryShape /\ ScanShape
  BY DEF ObjectPage, ScanInv
<1>2. limit \in Int
  BY <1>1, LesserOfTwo, ScanAssumption DEF ScanShape
<1>3. ObjectEntries \in SUBSET (Nat \X Nat) /\ IsFiniteSet(ObjectEntries)
  BY <1>1, ObjectsFinite
<1>4. /\ LibraryShape' /\ scan.phase = "objects" /\ library' = library /\ version' = version
      /\ ObjectEntries' = ObjectEntries
  BY <1>1, LookChangesNothing
<1>5. ObjectsRead /\ scan.read = {}
  BY <1>4 DEF ScanInv, NothingReplayed, Reading
<1> HIDE DEF limit
<1>6. CASE batch = {}
  <2>1. scan' = [scan EXCEPT !.phase = "recount", !.partial = TRUE]
    BY <1>6 DEF ObjectPage, limit, ObjectEntries
  <2>2. ScanShape' /\ scan'.phase = "recount" /\ scan'.partial /\ scan'.read = scan.read
    BY <1>1, <1>4, <2>1 DEF ScanShape
  <2>3. ObjectsRead' /\ ObjectsReadable'
    BY <2>2 DEF ObjectsRead, ObjectsReadable, Reading
  <2> QED
    BY <1>1, <1>5, <2>2, <2>3, BeforeManifests DEF Recording, Replayed, Comparing
<1>7. CASE batch # {}
  <2>1. /\ LastOf(batch) \in ObjectEntries /\ batch \subseteq ObjectEntries
        /\ Cardinality(batch) \in Nat
        /\ Until(ObjectEntries, LastOf(batch)) = Until(ObjectEntries, scan.cursor) \cup batch
        /\ Cardinality(Until(ObjectEntries, LastOf(batch)))
             = Cardinality(Until(ObjectEntries, scan.cursor)) + Cardinality(batch)
        /\ Cardinality(Until(ObjectEntries, scan.cursor)) \in Nat
    BY <1>1, <1>2, <1>3, <1>7, PagesHaveNoGap DEF ScanShape
  <2>2. scan' = [scan EXCEPT !.examined = @ + Cardinality(batch), !.cursor = LastOf(batch),
                    !.found = @ \/ \E e \in batch : e[2] \notin library.readable]
    BY <1>7 DEF ObjectPage, limit, ObjectEntries
  <2>3. PICK found \in BOOLEAN :
          found <=> (scan.found \/ \E e \in batch : e[2] \notin library.readable)
    OBVIOUS
  <2> HIDE DEF batch
  <2>4. /\ scan'.phase = "objects" /\ scan'.examined = scan.examined + Cardinality(batch)
        /\ scan'.cursor = LastOf(batch) /\ scan'.partial = scan.partial
        /\ scan'.target = scan.target /\ scan'.total = scan.total /\ scan'.counter = scan.counter
        /\ (scan'.found <=> (scan.found \/ \E e \in batch : e[2] \notin library.readable))
        /\ scan'.found \in BOOLEAN
        /\ DOMAIN scan' = DOMAIN scan /\ scan'.read = scan.read
    BY <1>1, <1>4, <2>2 DEF ScanShape
  <2>5. ScanShape'
    BY <1>1, <1>3, <1>4, <2>1, <2>4 DEF ScanShape
  <2>6. Until(ObjectEntries, scan.cursor)' = Until(ObjectEntries, scan.cursor) \cup batch
    BY <1>4, <2>1, <2>4 DEF Until, Precedes
  <2>7. ObjectsRead'
    <3>1. /\ scan.examined <= Cardinality(Until(ObjectEntries, scan.cursor))
          /\ ~scan.found => \A e \in Until(ObjectEntries, scan.cursor) : e[2] \in library.readable
          /\ ~scan.partial => scan.target = scan.total
      BY <1>4, <1>5 DEF ObjectsRead
    <3>2. Cardinality(Until(ObjectEntries, scan.cursor)')
            = Cardinality(Until(ObjectEntries, scan.cursor)) + Cardinality(batch)
      BY <2>1, <2>6
    <3>3. scan'.examined <= Cardinality(Until(ObjectEntries, scan.cursor)')
      BY <1>1, <2>1, <2>4, <3>1, <3>2 DEF ScanShape
    <3>4. ~scan'.found => \A e \in Until(ObjectEntries, scan.cursor)' : e[2] \in library'.readable
      BY <1>4, <2>4, <2>6, <3>1
    <3>5. ~scan'.partial => scan'.target = scan'.total
      BY <2>4, <3>1
    <3> QED
      BY <3>3, <3>4, <3>5 DEF ObjectsRead
  <2>8. ObjectsReadable'
    BY <2>4 DEF ObjectsReadable, Reading
  <2> QED
    BY <1>1, <1>5, <2>4, <2>5, <2>7, <2>8, BeforeManifests DEF Recording, Replayed, Comparing
<1> QED
  BY <1>6, <1>7

LEMMA ObjectRecountKeeps == ScanInv /\ ObjectRecount => ScanInv'
<1> SUFFICES ASSUME ScanInv, ObjectRecount PROVE ScanInv'
  OBVIOUS
<1>1. PICK phase \in {"objects", "recount"} :
        Looks(phase) /\ (phase = "objects" => scan.examined = scan.target)
  BY DEF ObjectRecount
<1>2. LibraryShape /\ ScanShape /\ ObjectsRead /\ ObjectsReadable
  BY DEF ScanInv
<1>3. LibraryShape' /\ scan.phase = phase /\ library' = library /\ version' = version
  BY <1>1, <1>2, LookChangesNothing
<1> DEFINE moved == Cardinality(library.objects) # scan.total
<1>4. scan' = [scan EXCEPT !.phase = IF scan.scope = "full" THEN "list" ELSE "done",
                 !.found = @ \/ moved, !.partial = @ \/ moved \/ scan.examined # scan.target]
  BY DEF ObjectRecount
<1> HIDE DEF moved
<1>5. /\ scan'.phase = IF scan.scope = "full" THEN "list" ELSE "done"
      /\ scan'.scope = scan.scope /\ scan'.read = scan.read
      /\ ~scan'.found => ~scan.found
      /\ ~scan'.partial => ~scan.partial /\ ~moved
      /\ ScanShape'
  BY <1>2, <1>3, <1>4 DEF ScanShape
<1>6. ObjectsRead'
  BY <1>5 DEF ObjectsRead
<1>7. ObjectsReadable'
  <2>1. SUFFICES ASSUME ~scan'.found, ~scan'.partial PROVE library.objects \subseteq library.readable
    BY <1>3, <1>5 DEF ObjectsReadable
  <2>2. ~scan.found /\ ~scan.partial /\ Cardinality(library.objects) = scan.total
    BY <1>5, <2>1 DEF moved
  <2>3. scan.phase = "objects"
    BY <1>1, <1>2, <1>3, <2>2 DEF ObjectsReadable
  <2>4. scan.examined = Cardinality(ObjectEntries) /\ scan.examined \in Nat /\ IsFiniteSet(ObjectEntries)
    BY <1>1, <1>2, <1>3, <2>2, <2>3, ObjectsFinite DEF ObjectsRead, ScanShape
  <2>5. Until(ObjectEntries, scan.cursor) = ObjectEntries
    BY <1>2, <2>3, <2>4, CursorAtTheEnd DEF ObjectsRead
  <2>6. \A e \in ObjectEntries : e[2] \in library.readable
    BY <1>2, <2>2, <2>3, <2>5 DEF ObjectsRead
  <2>7. \A o \in library.objects : <<0, o>> \in ObjectEntries
    BY DEF ObjectEntries
  <2> QED
    BY <2>6, <2>7
<1>8. scan.read = {}
  BY <1>1, <1>3 DEF ScanInv, NothingReplayed, Reading
<1> QED
  BY <1>1, <1>5, <1>6, <1>7, <1>8, BeforeManifests DEF Recording, Replayed, Comparing
\* Once the objects were read only the verdict on them counts.
LEMMA ReadableStands ==
  ASSUME ScanInv, library' = library, scan.phase \notin Reading, scan'.phase \notin Reading,
         ~scan'.found => ~scan.found, ~scan'.partial => ~scan.partial
  PROVE  ObjectsRead' /\ ObjectsReadable'
<1>1. ObjectsRead'
  BY DEF ObjectsRead, Reading
<1> QED
  BY <1>1 DEF ScanInv, ObjectsReadable, Reading

LEMMA ListManifestsKeeps == ScanInv /\ ListManifests => ScanInv'
<1> SUFFICES ASSUME ScanInv, ListManifests PROVE ScanInv'
  OBVIOUS
<1>1. Looks("list") /\ LibraryShape /\ ScanShape
  BY DEF ListManifests, ScanInv
<1>2. LibraryShape' /\ scan.phase = "list" /\ library' = library /\ version' = version
      /\ scan.read = {}
  BY <1>1, LookChangesNothing DEF ScanInv, NothingReplayed
<1>3. /\ scan'.phase = "manifests" /\ scan'.counter = version /\ scan'.names = DOMAIN library.chain
      /\ scan'.read = {} /\ scan'.found = scan.found /\ scan'.partial = scan.partial
      /\ ScanShape'
  BY <1>1, <1>2 DEF ListManifests, ScanShape, LibraryShape
<1>4. ObjectsRead' /\ ObjectsReadable'
  BY <1>2, <1>3, ReadableStands DEF Reading
<1>5. ClaimsReplayed'
  <2>1. {} = 1 .. Cardinality({})
    BY FS_EmptySet
  <2> QED
    BY <1>2, <1>3, <2>1 DEF ClaimsReplayed
<1>6. NothingReplayed' /\ MediaCompared' /\ RecordsRead' /\ RecordsSound'
  BY <1>3 DEF NothingReplayed, Reading, MediaCompared, RecordsRead, RecordsSound, Replayed, Comparing, Recording
<1> QED
  BY <1>2, <1>3, <1>4, <1>5, <1>6 DEF ScanInv

LEMMA ReadManifestKeeps == ScanInv /\ ReadManifest => ScanInv'
<1> SUFFICES ASSUME ScanInv, ReadManifest PROVE ScanInv'
  OBVIOUS
<1>1. Looks("manifests") /\ LibraryShape /\ ScanShape
  BY DEF ReadManifest, ScanInv
<1>2. /\ LibraryShape' /\ scan.phase = "manifests" /\ library' = library /\ version' = version
      /\ \A manifest : ClaimsHold(manifest) => ClaimsHold(manifest)'
  BY <1>1, LookChangesNothing
<1> DEFINE sequence == Min(scan.names \ scan.read)
           manifest == library.chain[sequence]
           wrong == ~Follows(sequence) \/ ~RunRecorded(manifest.run) \/ ~ClaimsHold(manifest)
<1>3. scan' = [scan EXCEPT !.read = @ \cup {sequence}, !.represented = @ \cup {manifest.run},
                 !.found = \/ @ \/ ~Follows(sequence) \/ ~RunRecorded(manifest.run)
                           \/ ~ClaimsHold(manifest)]
  BY DEF ReadManifest
<1>4. /\ scan'.phase = "manifests" /\ scan'.names = scan.names /\ scan'.read = scan.read \cup {sequence}
      /\ scan'.scope = scan.scope /\ scan'.partial = scan.partial
      /\ ~scan'.found => ~scan.found /\ Follows(sequence) /\ ClaimsHold(manifest)
      /\ ScanShape'
  <2> HIDE DEF sequence, manifest
  <2> QED
    BY <1>1, <1>2, <1>3 DEF ScanShape
<1>5. ObjectsRead' /\ ObjectsReadable'
  BY <1>2, <1>4, ReadableStands DEF Reading
<1>6. ClaimsReplayed'
  <2> SUFFICES ASSUME scan.scope = "full"
               PROVE  /\ scan.names \subseteq DOMAIN library.chain /\ scan'.read \subseteq scan.names
                      /\ ~scan'.found =>
                           /\ scan'.read = 1 .. Cardinality(scan'.read)
                           /\ \A n \in scan'.read :
                                ClaimsHold(library.chain[n])' /\ library.chain[n].predecessor = n - 1
    BY <1>2, <1>4 DEF ClaimsReplayed
  <2>1. /\ scan.names \subseteq DOMAIN library.chain /\ scan.read \subseteq scan.names
        /\ ~scan.found =>
             /\ scan.read = 1 .. Cardinality(scan.read)
             /\ \A n \in scan.read : ClaimsHold(library.chain[n]) /\ library.chain[n].predecessor = n - 1
    BY <1>2 DEF ScanInv, ClaimsReplayed
  <2>2. sequence \in scan.names \ scan.read
    <3>1. scan.names \ scan.read \in SUBSET Nat /\ scan.names \ scan.read # {}
      BY <1>1, <2>1 DEF ReadManifest, LibraryShape, Numbered
    <3> QED
      BY <3>1, LeastElement
  <2>3. sequence \in Nat
    BY <1>1, <2>1, <2>2 DEF LibraryShape, Numbered
  <2> HIDE DEF sequence
  <2>4. ASSUME ~scan'.found
        PROVE  /\ scan'.read = 1 .. Cardinality(scan'.read)
               /\ \A n \in scan'.read :
                    ClaimsHold(library.chain[n])' /\ library.chain[n].predecessor = n - 1
    <3>1. ~scan.found /\ Follows(sequence) /\ ClaimsHold(manifest)
      BY <1>4, <2>4
    <3>2. PICK k \in Nat : k = Cardinality(scan.read) /\ scan.read = 1 .. k
      <4>1. IsFiniteSet(scan.read)
        BY <1>1, <2>1, FS_Subset DEF LibraryShape, Numbered
      <4> QED
        BY <2>1, <3>1, <4>1, FS_CardinalityType
    <3>3. sequence = k + 1 /\ library.chain[sequence].predecessor = sequence - 1
      <4>1. /\ sequence = 1 \/ sequence - 1 \in 1 .. k
            /\ sequence \notin 1 .. k
            /\ library.chain[sequence].predecessor = sequence - 1
        BY <2>2, <3>1, <3>2 DEF Follows
      <4>2. sequence = k + 1
        BY <2>3, <4>1
      <4> QED
        BY <4>1, <4>2
    <3>4. scan'.read = 1 .. (k + 1)
      <4>1. scan'.read = (1 .. k) \cup {k + 1}
        BY <1>4, <3>2, <3>3
      <4>2. (1 .. k) \cup {k + 1} = 1 .. (k + 1)
        OBVIOUS
      <4> QED
        BY <4>1, <4>2
    <3>5. Cardinality(1 .. (k + 1)) = k + 1
      BY FS_Interval
    <3>6. ASSUME NEW n \in scan'.read
          PROVE  ClaimsHold(library.chain[n])' /\ library.chain[n].predecessor = n - 1
      <4>1. n \in scan.read \/ n = sequence
        BY <1>4
      <4>2. ClaimsHold(library.chain[n]) /\ library.chain[n].predecessor = n - 1
        BY <2>1, <3>1, <3>3, <4>1
      <4>3. PICK entry : entry = library.chain[n]
        OBVIOUS
      <4>4. ClaimsHold(entry)' /\ entry = library'.chain[n]
        BY <1>2, <4>2, <4>3
      <4> QED
        BY <4>2, <4>4 DEF ClaimsHold, RevisionClaimHolds, HeadClaimHolds
    <3> QED
      BY <3>4, <3>5, <3>6
  <2> QED
    BY <1>4, <2>1, <2>2, <2>4
<1>7. NothingReplayed' /\ MediaCompared' /\ RecordsRead' /\ RecordsSound'
  BY <1>4 DEF NothingReplayed, Reading, MediaCompared, RecordsRead, RecordsSound, Replayed, Comparing, Recording
<1> QED
  BY <1>2, <1>4, <1>5, <1>6, <1>7 DEF ScanInv

\* The claims stand as they were once every listed manifest was read.
LEMMA ClaimsStand ==
  ASSUME ScanInv, NEW phase, Looks(phase), Onwards,
         phase \in {"manifests"} \cup Replayed, scan'.phase \in {"manifests"} \cup Replayed,
         phase = "manifests" => scan.read = scan.names
  PROVE  /\ LibraryShape' /\ ScanShape' /\ ObjectsRead' /\ ObjectsReadable' /\ NothingReplayed'
         /\ ClaimsReplayed'
<1>1. /\ LibraryShape' /\ library' = library /\ scan.phase = phase
      /\ \A manifest : ClaimsHold(manifest) => ClaimsHold(manifest)'
  BY LookChangesNothing DEF ScanInv
<1>2. scan.phase \notin Reading /\ scan'.phase \notin Reading \cup {"list"}
  BY <1>1 DEF Reading, Replayed, Comparing, Recording
<1>3. ObjectsRead' /\ ObjectsReadable'
  BY <1>1, <1>2, ReadableStands DEF Onwards
<1>4. NothingReplayed'
  BY <1>2 DEF NothingReplayed
<1>5. \A n : ClaimsHold(library.chain[n]) => ClaimsHold(library.chain[n])'
  <2> TAKE n
  <2>1. PICK manifest : manifest = library.chain[n]
    OBVIOUS
  <2>2. manifest = library'.chain[n]
    BY <1>1, <2>1
  <2>3. ClaimsHold(manifest) => ClaimsHold(manifest)'
    BY <1>1
  <2> QED
    BY <2>1, <2>2, <2>3 DEF ClaimsHold, RevisionClaimHolds, HeadClaimHolds
<1>6. ClaimsReplayed'
  BY <1>1, <1>5 DEF ScanInv, ClaimsReplayed, Onwards
<1> QED
  BY <1>1, <1>3, <1>4, <1>6 DEF Onwards

\* The steps after the images were compared leave the earlier verdicts standing.
LEMMA VerdictsStand ==
  ASSUME ScanInv, NEW phase, Looks(phase), Onwards,
         phase \in Replayed \ {"media", "snapshot", "inventory"},
         scan'.phase \in Replayed \ Comparing
  PROVE  /\ LibraryShape' /\ ScanShape' /\ ObjectsRead' /\ ObjectsReadable' /\ NothingReplayed'
         /\ ClaimsReplayed' /\ MediaCompared'
<1>1. phase \in Replayed /\ phase # "manifests" /\ scan'.phase \in Replayed
  BY DEF Replayed, Comparing, Recording
<1>2. /\ LibraryShape' /\ ScanShape' /\ ObjectsRead' /\ ObjectsReadable' /\ NothingReplayed'
      /\ ClaimsReplayed'
  BY <1>1, ClaimsStand
<1>3. library' = library /\ scan.phase = phase
  BY DEF Looks
<1>4. MediaCompared'
  <2>1. Latest' = Latest
    BY <1>3 DEF Latest, Onwards
  <2>2. MediaCompared
    BY DEF ScanInv
  <2> QED
    BY <1>3, <2>1, <2>2 DEF MediaCompared, PlacementsKept, ImagesKept, Onwards
<1> QED
  BY <1>2, <1>4

\* What the remaining steps make of the fields they set.
LEMMA EndClaimsKeeps == ScanInv /\ EndClaims => ScanInv'
<1> SUFFICES ASSUME ScanInv, EndClaims PROVE ScanInv'
  OBVIOUS
<1>1. Looks("manifests") /\ scan.names = scan.read /\ LibraryShape /\ ScanShape
  BY DEF EndClaims, ScanInv
<1>2. library' = library /\ version' = version
  BY <1>1 DEF Looks
<1>3. Onwards /\ scan'.phase = "media"
  BY <1>1, <1>2 DEF EndClaims, Stable, Onwards, ScanShape
<1>4. /\ LibraryShape' /\ ScanShape' /\ ObjectsRead' /\ ObjectsReadable' /\ NothingReplayed'
      /\ ClaimsReplayed'
  BY <1>1, <1>3, ClaimsStand DEF Replayed
<1>5. MediaCompared' /\ RecordsRead' /\ RecordsSound'
  BY <1>3 DEF MediaCompared, RecordsRead, RecordsSound, Replayed, Comparing, Recording
<1> QED
  BY <1>4, <1>5 DEF ScanInv

LEMMA BeginMediaKeeps == ScanInv /\ BeginMedia => ScanInv'
<1> SUFFICES ASSUME ScanInv, BeginMedia PROVE ScanInv'
  OBVIOUS
<1>1. Looks("media") /\ LibraryShape /\ ScanShape
  BY DEF BeginMedia, ScanInv
<1>2. library' = library /\ version' = version
  BY <1>1 DEF Looks
<1>3. Onwards /\ scan'.phase = IF scan.names = {} THEN "runs" ELSE "snapshot"
  BY <1>1, <1>2 DEF BeginMedia, Onwards, ScanShape, LibraryShape
<1>4. /\ LibraryShape' /\ ScanShape' /\ ObjectsRead' /\ ObjectsReadable' /\ NothingReplayed'
      /\ ClaimsReplayed'
  BY <1>1, <1>3, ClaimsStand DEF Replayed, Comparing
<1>5. MediaCompared' /\ RecordsRead' /\ RecordsSound'
  BY <1>3 DEF MediaCompared, RecordsRead, RecordsSound, Replayed, Comparing, Recording, Onwards
<1> QED
  BY <1>4, <1>5 DEF ScanInv

LEMMA ComparePlacementsKeeps == ScanInv /\ ComparePlacements => ScanInv'
<1> SUFFICES ASSUME ScanInv, ComparePlacements PROVE ScanInv'
  OBVIOUS
<1>1. Looks("snapshot") /\ LibraryShape /\ ScanShape
  BY DEF ComparePlacements, ScanInv
<1>2. library' = library /\ version' = version /\ scan.phase = "snapshot"
  BY <1>1 DEF Looks
<1> DEFINE differ == Latest.placements # library.placements
<1>3. Onwards /\ scan'.phase = "inventory" /\ (~scan'.found => ~differ)
  <2> HIDE DEF differ
  <2>1. scan' = [scan EXCEPT !.phase = "inventory", !.found = @ \/ differ]
    BY DEF ComparePlacements, differ
  <2> QED
    BY <1>1, <1>2, <2>1 DEF Onwards, ScanShape
<1>4. /\ LibraryShape' /\ ScanShape' /\ ObjectsRead' /\ ObjectsReadable' /\ NothingReplayed'
      /\ ClaimsReplayed'
  BY <1>1, <1>3, ClaimsStand DEF Replayed, Comparing
<1>5. MediaCompared'
  <2>1. Latest' = Latest
    BY <1>2, <1>3 DEF Latest, Onwards
  <2>2. scan.scope = "full" => scan.names # {}
    BY <1>2 DEF ScanInv, MediaCompared, Comparing
  <2> QED
    BY <1>2, <1>3, <2>1, <2>2
       DEF MediaCompared, PlacementsKept, ImagesKept, Replayed, Comparing, Recording, Onwards
<1>6. RecordsRead' /\ RecordsSound'
  BY <1>3 DEF RecordsRead, RecordsSound, Recording
<1> QED
  BY <1>4, <1>5, <1>6 DEF ScanInv

LEMMA CompareImagesKeeps == ScanInv /\ CompareImages => ScanInv'
<1> SUFFICES ASSUME ScanInv, CompareImages PROVE ScanInv'
  OBVIOUS
<1>1. Looks("inventory") /\ LibraryShape /\ ScanShape
  BY DEF CompareImages, ScanInv
<1>2. library' = library /\ version' = version /\ scan.phase = "inventory"
  BY <1>1 DEF Looks
<1> DEFINE differ == Latest.media # library.media
<1>3. Onwards /\ scan'.phase = "compared" /\ (~scan'.found => ~differ)
  <2> HIDE DEF differ
  <2>1. scan' = [scan EXCEPT !.phase = "compared", !.found = @ \/ differ]
    BY DEF CompareImages, differ
  <2> QED
    BY <1>1, <1>2, <2>1 DEF Onwards, ScanShape
<1>4. /\ LibraryShape' /\ ScanShape' /\ ObjectsRead' /\ ObjectsReadable' /\ NothingReplayed'
      /\ ClaimsReplayed'
  BY <1>1, <1>3, ClaimsStand DEF Replayed, Comparing
<1>5. MediaCompared'
  <2>1. Latest' = Latest
    BY <1>2, <1>3 DEF Latest, Onwards
  <2>2. MediaCompared
    BY DEF ScanInv
  <2> QED
    BY <1>2, <1>3, <2>1, <2>2
       DEF MediaCompared, PlacementsKept, ImagesKept, Replayed, Comparing, Recording, Onwards
<1>6. RecordsRead' /\ RecordsSound'
  BY <1>3 DEF RecordsRead, RecordsSound, Recording
<1> QED
  BY <1>4, <1>5, <1>6 DEF ScanInv

\* The steps between the images and the records set no verdict of this invariant.
LEMMA BetweenKeeps ==
  ASSUME ScanInv, EndMedia \/ CompareRuns \/ RelistManifests \/ BeginRecords \/ CountRecords
  PROVE  ScanInv'
<1>1. PICK phase \in {"compared", "runs", "relist", "metadata", "count"} : Looks(phase)
  BY DEF EndMedia, CompareRuns, RelistManifests, BeginRecords, CountRecords
<1>2. LibraryShape /\ ScanShape /\ library' = library /\ version' = version
  BY <1>1 DEF Looks, ScanInv
<1>3. Onwards /\ scan'.phase \in {"runs", "relist", "metadata", "count", "records"}
  <2>1. CASE EndMedia
    BY <1>2, <2>1 DEF EndMedia, Stable, Onwards, ScanShape
  <2>2. CASE CompareRuns
    <3>1. PICK found : scan' = [scan EXCEPT !.phase = "relist", !.found = scan.found \/ found]
      BY <2>2 DEF CompareRuns
    <3> QED
      BY <1>2, <3>1 DEF Onwards, ScanShape
  <2>3. CASE RelistManifests
    <3>1. PICK moved : scan' = [scan EXCEPT !.phase = "metadata", !.found = scan.found \/ moved,
                                            !.partial = scan.partial \/ moved]
      BY <2>3 DEF RelistManifests
    <3> QED
      BY <1>2, <3>1 DEF Onwards, ScanShape
  <2>4. CASE BeginRecords
    BY <1>2, <2>4 DEF BeginRecords, Onwards, ScanShape, LibraryShape
  <2>5. CASE CountRecords
    <3>1. Cardinality(Records) \in Nat
      BY <1>2, RecordsFinite
    <3>2. scan' = [scan EXCEPT !.phase = "records", !.total = Cardinality(Records),
                               !.examined = 0, !.cursor = <<0, 0>>]
      BY <2>5 DEF CountRecords
    <3>3. DOMAIN scan' = DOMAIN scan /\ scan'.cursor = <<0, 0>> /\ scan'.examined = 0
          /\ scan'.total \in Nat /\ scan'.target = scan.target /\ scan'.counter = scan.counter
          /\ scan'.found = scan.found /\ scan'.partial = scan.partial /\ scan'.phase = "records"
          /\ scan'.scope = scan.scope /\ scan'.names = scan.names /\ scan'.read = scan.read
      BY <1>2, <3>1, <3>2 DEF ScanShape
    <3>4. scan'.cursor \in Nat \X Nat
      BY <3>3
    <3>5. ScanShape'
      BY <1>2, <3>3, <3>4 DEF ScanShape
    <3> QED
      BY <1>2, <3>3, <3>5 DEF Onwards
  <2> QED
    BY <2>1, <2>2, <2>3, <2>4, <2>5
<1>4. /\ LibraryShape' /\ ScanShape' /\ ObjectsRead' /\ ObjectsReadable' /\ NothingReplayed'
      /\ ClaimsReplayed' /\ MediaCompared'
  <2>1. phase \in Replayed \ {"media", "snapshot", "inventory"} /\ scan'.phase \in Replayed \ Comparing
    BY <1>3 DEF Replayed, Comparing, Recording
  <2> QED
    BY <1>1, <1>3, <2>1, VerdictsStand
<1>5. RecordsRead'
  <2> SUFFICES ASSUME scan'.phase = "records" PROVE RecordsRead'
    BY <1>3 DEF RecordsRead, Recording
  <2>1. CountRecords
    BY <1>2, <1>3 DEF EndMedia, Stable, CompareRuns, RelistManifests, BeginRecords, ScanShape
  <2>2. scan'.examined = 0 /\ scan'.cursor = <<0, 0>>
    BY <1>2, <2>1 DEF CountRecords, ScanShape
  <2>3. Until(Records, scan.cursor)' = {}
    <3>1. \A record \in Records' : record \in Categories \X (1 .. MaxRevision)
      BY DEF Records
    <3> QED
      BY <2>2, <3>1 DEF Until, Precedes, Categories
  <2>4. Cardinality(Until(Records, scan.cursor)') = 0
    BY <2>3, FS_EmptySet
  <2> QED
    BY <2>2, <2>3, <2>4 DEF RecordsRead
<1>6. RecordsSound'
  BY <1>3 DEF RecordsSound
<1> QED
  BY <1>4, <1>5, <1>6 DEF ScanInv

LEMMA RecordPageKeeps == ScanInv /\ RecordPage => ScanInv'
<1> SUFFICES ASSUME ScanInv, RecordPage PROVE ScanInv'
  OBVIOUS
<1> DEFINE limit == Min({PageSize, scan.total - scan.examined})
           batch == PageOf(Records, scan.cursor, limit)
<1>1. Looks("records") /\ LibraryShape /\ ScanShape
  BY DEF RecordPage, ScanInv
<1>2. limit \in Int
  BY <1>1, LesserOfTwo, ScanAssumption DEF ScanShape
<1>3. Records \in SUBSET (Nat \X Nat) /\ IsFiniteSet(Records)
  BY <1>1, RecordsFinite
<1>4. /\ LibraryShape' /\ scan.phase = "records" /\ library' = library /\ version' = version
      /\ Records' = Records /\ \A record \in Records : RecordSound(record)' <=> RecordSound(record)
  BY <1>1, LookChangesNothing
<1>5. RecordsRead
  BY DEF ScanInv
<1> HIDE DEF limit
<1>6. CASE batch = {}
  <2>1. scan' = [scan EXCEPT !.phase = "counted", !.partial = TRUE, !.found = TRUE]
    BY <1>6 DEF RecordPage, limit
  <2>2. Onwards /\ scan'.phase = "counted" /\ scan'.found /\ scan'.cursor = scan.cursor
        /\ scan'.examined = scan.examined /\ scan'.counter = scan.counter
    BY <1>1, <1>4, <2>1 DEF Onwards, ScanShape
  <2>3. /\ LibraryShape' /\ ScanShape' /\ ObjectsRead' /\ ObjectsReadable' /\ NothingReplayed'
        /\ ClaimsReplayed' /\ MediaCompared'
    BY <1>1, <2>2, VerdictsStand DEF Replayed, Comparing, Recording
  <2>4. RecordsRead'
    <3>1. Until(Records, scan.cursor)' = Until(Records, scan.cursor)
      BY <1>4, <2>2 DEF Until, Precedes
    <3> QED
      BY <1>4, <1>5, <2>2, <3>1 DEF RecordsRead, Recording
  <2>5. RecordsSound'
    BY <2>2 DEF RecordsSound
  <2> QED
    BY <2>3, <2>4, <2>5 DEF ScanInv
<1>7. CASE batch # {}
  <2>1. /\ LastOf(batch) \in Records /\ batch \subseteq Records
        /\ Cardinality(batch) \in Nat
        /\ Until(Records, LastOf(batch)) = Until(Records, scan.cursor) \cup batch
        /\ Cardinality(Until(Records, LastOf(batch)))
             = Cardinality(Until(Records, scan.cursor)) + Cardinality(batch)
        /\ Cardinality(Until(Records, scan.cursor)) \in Nat
    BY <1>1, <1>2, <1>3, <1>7, PagesHaveNoGap DEF ScanShape
  <2>2. scan' = [scan EXCEPT !.examined = @ + Cardinality(batch), !.cursor = LastOf(batch),
                    !.found = @ \/ \E record \in batch : ~RecordSound(record)]
    BY <1>7 DEF RecordPage, limit
  <2> DEFINE unsound == \E record \in batch : ~RecordSound(record)
  <2>3. (unsound <=> \E record \in batch : ~RecordSound(record)) /\ unsound \in BOOLEAN
    OBVIOUS
  <2> HIDE DEF batch, unsound
  <2>4. /\ scan'.phase = "records" /\ scan'.examined = scan.examined + Cardinality(batch)
        /\ scan'.cursor = LastOf(batch) /\ scan'.partial = scan.partial
        /\ scan'.target = scan.target /\ scan'.total = scan.total /\ scan'.counter = scan.counter
        /\ ~scan'.found => ~scan.found /\ ~unsound
        /\ scan'.found \in BOOLEAN
        /\ scan'.scope = scan.scope /\ scan'.names = scan.names /\ scan'.read = scan.read
        /\ DOMAIN scan' = DOMAIN scan
    <3>1. scan' = [scan EXCEPT !.examined = @ + Cardinality(batch), !.cursor = LastOf(batch),
                      !.found = @ \/ unsound]
      BY <2>2 DEF unsound
    <3> QED
      BY <1>1, <1>4, <3>1 DEF ScanShape
  <2>5. ScanShape'
    <3>1. scan'.cursor \in Nat \X Nat /\ scan'.examined \in Nat
      BY <1>1, <1>3, <2>1, <2>4 DEF ScanShape
    <3> QED
      BY <1>1, <1>4, <2>4, <3>1 DEF ScanShape
  <2>6. Onwards
    BY <1>4, <2>4, <2>5 DEF Onwards
  <2>7. /\ LibraryShape' /\ ScanShape' /\ ObjectsRead' /\ ObjectsReadable' /\ NothingReplayed'
        /\ ClaimsReplayed' /\ MediaCompared'
    BY <1>1, <2>4, <2>6, VerdictsStand DEF Replayed, Comparing, Recording
  <2>8. Until(Records, scan.cursor)' = Until(Records, scan.cursor) \cup batch
    BY <1>4, <2>1, <2>4 DEF Until, Precedes
  <2>9. RecordsRead'
    <3> SUFFICES ASSUME scan.counter = version
                 PROVE  /\ scan'.examined <= Cardinality(Until(Records, scan.cursor)')
                        /\ ~scan'.found =>
                             \A record \in Until(Records, scan.cursor)' : RecordSound(record)'
      BY <1>4, <2>4 DEF RecordsRead
    <3>1. /\ scan.examined <= Cardinality(Until(Records, scan.cursor))
          /\ ~scan.found => \A record \in Until(Records, scan.cursor) : RecordSound(record)
      BY <1>4, <1>5 DEF RecordsRead, Recording
    <3>2. Cardinality(Until(Records, scan.cursor)')
            = Cardinality(Until(Records, scan.cursor)) + Cardinality(batch)
      BY <2>1, <2>8
    <3>3. scan'.examined <= Cardinality(Until(Records, scan.cursor)')
      BY <1>1, <2>1, <2>4, <3>1, <3>2 DEF ScanShape
    <3>4. ~scan'.found => \A record \in Until(Records, scan.cursor) \cup batch : RecordSound(record)
      BY <2>3, <2>4, <3>1
    <3>5. Until(Records, scan.cursor) \cup batch \subseteq Records
      BY <2>1 DEF Until
    <3> QED
      BY <1>4, <2>8, <3>3, <3>4, <3>5
  <2>10. RecordsSound'
    BY <2>4 DEF RecordsSound
  <2> QED
    BY <2>7, <2>9, <2>10 DEF ScanInv
<1> QED
  BY <1>6, <1>7

LEMMA RecordRecountKeeps == ScanInv /\ RecordRecount => ScanInv'
<1> SUFFICES ASSUME ScanInv, RecordRecount PROVE ScanInv'
  OBVIOUS
<1>1. PICK phase \in Recording : Looks(phase)
  BY DEF RecordRecount, Recording
<1>2. LibraryShape /\ ScanShape /\ RecordsRead
  BY DEF ScanInv
<1>3. /\ LibraryShape' /\ scan.phase = phase /\ library' = library /\ version' = version
      /\ Records' = Records /\ \A record \in Records : RecordSound(record)' <=> RecordSound(record)
  BY <1>1, <1>2, LookChangesNothing
<1>4. scan' = [scan EXCEPT !.phase = "done", !.found = @ \/ CatalogMoved,
                 !.partial = @ \/ CatalogMoved \/ scan.examined # scan.total]
  BY DEF RecordRecount
<1>5. /\ scan'.phase = "done" /\ Onwards
      /\ ~scan'.found => ~scan.found /\ ~CatalogMoved
      /\ ~scan'.partial => scan.examined = scan.total
  BY <1>2, <1>3, <1>4 DEF ScanShape, Onwards
<1>6. /\ LibraryShape' /\ ScanShape' /\ ObjectsRead' /\ ObjectsReadable' /\ NothingReplayed'
      /\ ClaimsReplayed' /\ MediaCompared'
  BY <1>1, <1>5, VerdictsStand DEF Replayed, Comparing, Recording
<1>7. RecordsRead'
  BY <1>5 DEF RecordsRead, Recording
<1>8. RecordsSound'
  <2> SUFFICES ASSUME ~scan'.found, ~scan'.partial PROVE \A record \in Records : RecordSound(record)
    BY <1>3, <1>5 DEF RecordsSound
  <2>1. /\ ~scan.found /\ version = scan.counter /\ scan.examined \in Nat
        /\ scan.examined = Cardinality(Records)
    BY <1>2, <1>5 DEF CatalogMoved, OnlyCountMoved, ScanShape
  <2>2. scan.phase \in Recording
    BY <1>1, <1>3
  <2>3. IsFiniteSet(Records)
    BY <1>2, RecordsFinite
  <2>4. Until(Records, scan.cursor) = Records
    BY <1>2, <2>1, <2>2, <2>3, CursorAtTheEnd DEF RecordsRead
  <2> QED
    BY <1>2, <2>1, <2>2, <2>4 DEF RecordsRead
<1> QED
  BY <1>6, <1>7, <1>8 DEF ScanInv

LEMMA ScanInvHolds == ScanSpec => []ScanInv
<1>1. ScanInit => ScanInv
  <2> SUFFICES ASSUME ScanInit PROVE ScanInv
    OBVIOUS
  <2>1. library \in Libraries /\ version = 0 /\ writer = IdleWriter /\ scan = NoScan
    BY DEF ScanInit
  <2>2. LibraryShape
    <3>1. /\ DOMAIN library = {"objects", "readable", "revisions", "heads", "runs", "checkpoints",
                              "documents", "fts", "media", "placements", "chain"}
          /\ library.objects \subseteq 1 .. MaxRevision
          /\ DOMAIN library.revisions \subseteq 1 .. MaxRevision
          /\ DOMAIN library.placements \subseteq 1 .. MaxRevision
          /\ Numbered(DOMAIN library.chain)
      BY <2>1, ScanAssumption
    <3> QED
      BY <2>1, <3>1, BoundedIsNumbered DEF LibraryShape, IdleWriter
  <2>3. /\ scan.phase = "none" /\ scan.read = {} /\ scan.found = FALSE /\ scan.partial = FALSE
        /\ scan.total = 0 /\ scan.target = 0 /\ scan.examined = 0 /\ scan.counter = 0
        /\ scan.cursor = <<0, 0>>
        /\ DOMAIN scan = {"phase", "scope", "total", "target", "examined", "cursor", "counter", "names",
                          "read", "represented", "found", "partial"}
    BY <2>1 DEF NoScan
  <2>4. ScanShape
    <3>1. scan.cursor \in Nat \X Nat
      BY <2>3
    <3>2. scan.counter <= version
      BY <2>1, <2>3
    <3>3. scan.found \in BOOLEAN /\ scan.partial \in BOOLEAN
      BY <2>3
    <3>4. {scan.total, scan.target, scan.examined, scan.counter} \subseteq Nat
      BY <2>3
    <3> QED
      BY <2>3, <3>1, <3>2, <3>3, <3>4 DEF ScanShape
  <2> QED
    BY <2>2, <2>3, <2>4
       DEF ScanInv, ObjectsRead, ObjectsReadable, NothingReplayed, ClaimsReplayed, MediaCompared,
           RecordsRead, RecordsSound, Reading, Replayed, Comparing, Recording
<1>2. ScanInv /\ [ScanNext]_scanVars => ScanInv'
  <2> SUFFICES ASSUME ScanInv, [ScanNext]_scanVars PROVE ScanInv'
    OBVIOUS
  <2>1. CASE ScanStep
    BY <2>1, BeginKeeps, ObjectPageKeeps, ObjectRecountKeeps, ListManifestsKeeps, ReadManifestKeeps,
       EndClaimsKeeps, BeginMediaKeeps, ComparePlacementsKeeps, CompareImagesKeeps, BetweenKeeps,
       RecordPageKeeps, RecordRecountKeeps DEF ScanStep
  <2>2. CASE WriterStep
    BY <2>2, WriterKeepsScan
  <2>3. CASE UNCHANGED scanVars
    <3>1. library' = library /\ version' = version /\ scan' = scan /\ writer' = writer
      BY <2>3 DEF scanVars
    <3>2. CatalogKept
      BY <3>1 DEF CatalogKept
    <3>3. Records' = Records /\ \A record \in Records : RecordSound(record)' <=> RecordSound(record)
      BY <3>2, RecordsAsked
    <3>4. LibraryShape' /\ ScanShape'
      BY <3>1 DEF ScanInv, LibraryShape, ScanShape
    <3>5. ObjectsRead' /\ ObjectsReadable' /\ NothingReplayed' /\ MediaCompared'
      BY <3>1 DEF ScanInv, ObjectsRead, ObjectsReadable, NothingReplayed, MediaCompared, Until, ObjectEntries,
         Precedes, PlacementsKept, ImagesKept, Latest
    <3>6. ClaimsReplayed'
      BY <3>1 DEF ScanInv, ClaimsReplayed, ClaimsHold, RevisionClaimHolds, HeadClaimHolds, Pages, IsOf
    <3>7. RecordsRead' /\ RecordsSound'
      <4>1. Until(Records, scan.cursor)' = Until(Records, scan.cursor)
            /\ Until(Records, scan.cursor) \subseteq Records
        BY <3>1, <3>3 DEF Until, Precedes
      <4> QED
        BY <3>1, <3>3, <4>1 DEF ScanInv, RecordsRead, RecordsSound
    <3> QED
      BY <3>4, <3>5, <3>6, <3>7 DEF ScanInv
  <2> QED
    BY <2>1, <2>2, <2>3 DEF ScanNext
<1> QED
  BY <1>1, <1>2, PTL DEF ScanSpec

\* A library that was verified is as the report says when it ends, however many
\* runs committed between its statements: every object can be read, no record
\* dangles, the manifests form one chain and what they claim is there
\* (verify_library_with_options).
THEOREM VerifiedLibrariesAreSo == ScanSpec => []VerifiedIsSo
<1>1. ScanInv => VerifiedIsSo
  <2> SUFFICES ASSUME ScanInv, Verified PROVE VerifiedIsSo
    BY DEF VerifiedIsSo
  <2>1. scan.phase = "done" /\ ~scan.found /\ ~scan.partial
    BY DEF Verified
  <2>2. library.objects \subseteq library.readable
    BY <2>1 DEF ScanInv, ObjectsReadable, Reading
  <2>3. ASSUME scan.scope = "full"
        PROVE  /\ \A record \in Records : RecordSound(record)
               /\ scan.names = 1 .. Cardinality(scan.names)
               /\ \A n \in scan.names :
                    ClaimsHold(library.chain[n]) /\ library.chain[n].predecessor = n - 1
               /\ scan.names # {} => ImagesKept /\ PlacementsKept
    <3>1. \A record \in Records : RecordSound(record)
      BY <2>1, <2>3 DEF ScanInv, RecordsSound
    <3>2. ClaimsReplayed /\ MediaCompared /\ scan.phase \in Replayed \ ({"media", "snapshot", "inventory"})
      BY <2>1 DEF ScanInv, Replayed
    <3> QED
      BY <2>1, <2>3, <3>1, <3>2 DEF ClaimsReplayed, MediaCompared
  <2> QED
    BY <2>2, <2>3 DEF VerifiedIsSo, ImagesKept, PlacementsKept
<1> QED
  BY <1>1, ScanInvHolds, PTL
-----------------------------------------------------------------------------
(* The verdict of a verification that nothing disturbs.  Two invariants beside  *)
(* ScanInv carry it.  Of the synchronization, that each commit leaves a library *)
(* whole but for what it has yet to do (WriterInv): the document of a page just *)
(* captured is behind, the run is open, the manifest of the run is missing.  Of *)
(* the verification, that its lists name all there is (ListedAll, ComparedAll), *)
(* and that in a whole library nothing is found (NothingWrong).                 *)

\* What may be in the tables, whatever happened to them.
TablesKept ==
  /\ library.fts \subseteq 1 .. MaxRevision
  /\ DOMAIN library.revisions \subseteq 1 .. MaxRevision
  /\ DOMAIN library.heads \subseteq 1 .. MaxRevision
  /\ DOMAIN library.checkpoints \subseteq 1 .. MaxRevision
  /\ DOMAIN library.documents \subseteq 1 .. MaxRevision
  /\ DOMAIN library.media \subseteq 1 .. MaxRevision
  /\ DOMAIN library.placements \subseteq 1 .. MaxRevision
  /\ Numbered(DOMAIN library.runs)
  /\ \A r \in DOMAIN library.revisions : library.revisions[r].parent \in 0 .. r
  /\ \A d \in DOMAIN library.documents : DOMAIN library.documents[d] = {"page", "revision"}
RevisionsSound == \A r \in DOMAIN library.revisions : RevisionSound(r)
HeadsSound == \A p \in Pages : PageSound(p)
CheckpointsSound == \A c \in DOMAIN library.checkpoints : CheckpointSound(c)
IndexSound == \A d \in library.fts : FtsRowSound(d)
ImagesSound == \A m \in DOMAIN library.media : MediaSound(m)
PlacementsSound == \A x \in DOMAIN library.placements : PlacementSound(x)
RowsSound ==
  /\ RevisionsSound /\ HeadsSound /\ CheckpointsSound /\ IndexSound /\ ImagesSound /\ PlacementsSound
\* The document of the page just captured is behind until it is indexed.
DocumentsSound ==
  \A d \in DOMAIN library.documents :
    /\ library.documents[d].page \in Pages /\ d \in library.fts
    /\ DocumentSound(d) \/ (writer.step = "captured" /\ library.documents[d].page = writer.page)
ChainSound ==
  /\ DOMAIN library.chain = 1 .. Cardinality(DOMAIN library.chain)
  /\ \A n \in DOMAIN library.chain : library.chain[n].predecessor = n - 1 /\ ClaimsHold(library.chain[n])
  /\ \A m, n \in DOMAIN library.chain : library.chain[m].run = library.chain[n].run => m = n
LatestSound ==
  DOMAIN library.chain # {} =>
    LET latest == library.chain[Max(DOMAIN library.chain)]
    IN latest.placements = library.placements /\ latest.media = library.media
\* The steps of a synchronization under a run that is open.
Under == {"running", "put", "captured", "indexed", "placed"}
CurrentRun == Max(DOMAIN library.runs)
RunsSound ==
  /\ writer.step \in Under \cup {"finished"} => CurrentRun \in DOMAIN library.runs
  /\ writer.step \in Under =>
       /\ library.runs[CurrentRun] = [succeeded |-> FALSE, candidate |-> CurrentRun]
       /\ Recorded = Succeeded
  /\ writer.step = "finished" => Recorded \cup {CurrentRun} = Succeeded /\ CurrentRun \notin Recorded
  /\ writer.step = "recorded" => Recorded = Succeeded /\ LatestSound
WriterSound ==
  /\ writer.step = "put" => writer.object \in library.objects
  /\ writer.step \in {"captured", "indexed"} => writer.page \in Pages /\ library.heads[writer.page] # 0
\* Whole, but for what the synchronization has yet to do.
Kept ==
  /\ library.objects \subseteq library.readable
  /\ RowsSound /\ DocumentsSound /\ ChainSound /\ RunsSound /\ WriterSound
WriterSteps == Under \cup {"idle", "finished", "recorded"}
WriterInv ==
  /\ writer.step \in WriterSteps
  /\ writer.step = "idle" => (intact <=> Whole)
  /\ writer.step # "idle" => intact /\ Kept

\* A full verification that nothing was written beside.
Undisturbed == quiet /\ scan.scope = "full"
RunsOf(read) == {library.chain[n].run : n \in read}
\* The manifests listed are all there are, and each run among them ended once.
ListedAll ==
  /\ scan.phase \in Reading \cup {"list"} => scan.represented = {}
  /\ Undisturbed /\ scan.phase \in {"manifests"} \cup Replayed =>
       /\ scan.names = DOMAIN library.chain /\ scan.represented = RunsOf(scan.read)
       /\ ~scan.found =>
            /\ RunsOf(scan.read) \subseteq Succeeded
            /\ \A m, n \in scan.read : library.chain[m].run = library.chain[n].run => m = n
\* The latest manifest is the library's, and each run that succeeded is in one.
WithPlacements == Replayed \ {"media", "snapshot"}
WithImages == Replayed \ {"media", "snapshot", "inventory"}
WithRuns == {"relist", "metadata", "count", "done"} \cup Recording
ComparedAll ==
  Undisturbed /\ ~scan.found =>
    /\ scan.phase \in WithPlacements /\ scan.names # {} => Latest.placements = library.placements
    /\ scan.phase \in WithImages /\ scan.names # {} => Latest.media = library.media
    /\ scan.phase \in WithRuns => Succeeded \subseteq scan.represented
\* In a whole library nothing is found, and every entry is counted.
NothingWrong ==
  Undisturbed /\ Whole /\ scan.phase # "none" =>
    /\ ~scan.found /\ ~scan.partial /\ scan.phase \notin {"recount", "counted"}
    /\ scan.phase = "objects" =>
         /\ scan.target = Cardinality(library.objects) /\ scan.total = Cardinality(library.objects)
         /\ scan.examined = Cardinality(Until(ObjectEntries, scan.cursor))
    /\ scan.phase \in {"manifests", "count", "records"} \cup Comparing => scan.counter = version
    /\ scan.phase = "records" =>
         /\ scan.total = Cardinality(Records)
         /\ scan.examined = Cardinality(Until(Records, scan.cursor))
VerdictInv == TablesKept /\ WriterInv /\ ListedAll /\ ComparedAll /\ NothingWrong

-----------------------------------------------------------------------------
(* What the synchronization leaves is whole again. *)

LEMMA RecordsByTable ==
  ASSUME TablesKept
  PROVE  (\A record \in Records : RecordSound(record))
           <=> RowsSound /\ \A d \in DOMAIN library.documents : DocumentSound(d)
<1>1. \A c \in Categories : Keys(c) \subseteq 1 .. MaxRevision
  BY DEF Categories, Keys, Pages, TablesKept
<1>2. \A record : record \in Records <=>
        \E c \in Categories : \E k \in Keys(c) : record = <<c, k>>
  BY <1>1 DEF Records
<1>3. (\A record \in Records : RecordSound(record))
        <=> \A c \in Categories : \A k \in Keys(c) : RecordSound(<<c, k>>)
  BY <1>2
<1>4. /\ \A k : RecordSound(<<1, k>>) <=> RevisionSound(k)
      /\ \A k : RecordSound(<<2, k>>) <=> PageSound(k)
      /\ \A k : RecordSound(<<3, k>>) <=> CheckpointSound(k)
      /\ \A k : RecordSound(<<4, k>>) <=> DocumentSound(k)
      /\ \A k : RecordSound(<<5, k>>) <=> FtsRowSound(k)
      /\ \A k : RecordSound(<<6, k>>) <=> MediaSound(k)
      /\ \A k : RecordSound(<<7, k>>) <=> PlacementSound(k)
  BY DEF RecordSound
<1>5. /\ Keys(1) = DOMAIN library.revisions /\ Keys(2) = Pages
      /\ Keys(3) = DOMAIN library.checkpoints /\ Keys(4) = DOMAIN library.documents
      /\ Keys(5) = library.fts /\ Keys(6) = DOMAIN library.media /\ Keys(7) = DOMAIN library.placements
  BY DEF Keys
<1>6. \A c : c \in Categories <=> c \in {1, 2, 3, 4, 5, 6, 7}
  BY DEF Categories
<1>7. (\A c \in Categories : \A k \in Keys(c) : RecordSound(<<c, k>>))
        <=> /\ \A k \in Keys(1) : RecordSound(<<1, k>>)
            /\ \A k \in Keys(2) : RecordSound(<<2, k>>)
            /\ \A k \in Keys(3) : RecordSound(<<3, k>>)
            /\ \A k \in Keys(4) : RecordSound(<<4, k>>)
            /\ \A k \in Keys(5) : RecordSound(<<5, k>>)
            /\ \A k \in Keys(6) : RecordSound(<<6, k>>)
            /\ \A k \in Keys(7) : RecordSound(<<7, k>>)
  BY <1>6
<1> QED
  BY <1>3, <1>4, <1>5, <1>7
     DEF RowsSound, RevisionsSound, HeadsSound, CheckpointsSound, IndexSound, ImagesSound, PlacementsSound

LEMMA WholeByParts ==
  ASSUME TablesKept
  PROVE  Whole <=> /\ library.objects \subseteq library.readable /\ RowsSound
                   /\ \A d \in DOMAIN library.documents : DocumentSound(d)
                   /\ ChainSound /\ Recorded = Succeeded /\ LatestSound
  BY RecordsByTable DEF Whole, ChainSound, LatestSound

\* What a commit does not touch is as sound as before.
LEMMA UntouchedSound ==
  ASSUME Grows
  PROVE  /\ \A r, p : IsOf(r, p) => IsOf(r, p)'
         /\ RevisionsSound /\ library'.revisions = library.revisions => RevisionsSound'
         /\ HeadsSound /\ library'.heads = library.heads => HeadsSound'
         /\ IndexSound /\ library'.fts = library.fts /\ library'.documents = library.documents => IndexSound'
         /\ ImagesSound => ImagesSound'
         /\ PlacementsSound /\ library'.placements = library.placements => PlacementsSound'
         /\ ChainSound /\ library'.chain = library.chain => ChainSound'
         /\ library'.chain = library.chain => Recorded' = Recorded
         /\ library'.runs = library.runs => Succeeded' = Succeeded /\ CurrentRun' = CurrentRun
<1>1. Pages' = Pages /\ Extends(library'.revisions, library.revisions)
  BY DEF Grows, Pages
<1>2. \A r, p : IsOf(r, p) => IsOf(r, p)'
  BY <1>1 DEF IsOf, Extends
<1>3. RevisionsSound /\ library'.revisions = library.revisions => RevisionsSound'
  BY <1>1 DEF Grows, RevisionsSound, RevisionSound
<1>4. HeadsSound /\ library'.heads = library.heads => HeadsSound'
  BY <1>1, <1>2 DEF HeadsSound, PageSound
<1>5. IndexSound /\ library'.fts = library.fts /\ library'.documents = library.documents => IndexSound'
  BY DEF IndexSound, FtsRowSound
<1>6. ImagesSound => ImagesSound'
  BY DEF ImagesSound, MediaSound, Grows
<1>7. PlacementsSound /\ library'.placements = library.placements => PlacementsSound'
  BY <1>1 DEF PlacementsSound, PlacementSound, Grows, Extends
<1>8. ChainSound /\ library'.chain = library.chain => ChainSound'
  <2> SUFFICES ASSUME ChainSound, library'.chain = library.chain PROVE ChainSound'
    OBVIOUS
  <2>1. ASSUME NEW n \in DOMAIN library.chain PROVE ClaimsHold(library.chain[n])'
    <3>1. PICK manifest : manifest = library.chain[n]
      OBVIOUS
    <3>2. ClaimsHold(manifest)'
      BY <3>1, ClaimsGoOn DEF Grows, ChainSound
    <3> QED
      BY <3>1, <3>2 DEF ClaimsHold, RevisionClaimHolds, HeadClaimHolds
  <2> QED
    BY <2>1 DEF ChainSound
<1>9. library'.chain = library.chain => Recorded' = Recorded
  BY DEF Recorded
<1>10. library'.runs = library.runs => Succeeded' = Succeeded /\ CurrentRun' = CurrentRun
  BY DEF Succeeded, CurrentRun
<1> QED
  BY <1>2, <1>3, <1>4, <1>5, <1>6, <1>7, <1>8, <1>9, <1>10

\* Checkpoints name runs that have ended.
LEMMA CheckpointsStand ==
  ASSUME CheckpointsSound, library'.checkpoints = library.checkpoints,
         \A r \in DOMAIN library.runs :
           library.runs[r].succeeded => r \in DOMAIN library'.runs /\ library'.runs[r] = library.runs[r]
  PROVE  CheckpointsSound'
  BY DEF CheckpointsSound, CheckpointSound

LEMMA DocumentsStand ==
  ASSUME DocumentsSound, Grows, library'.documents = library.documents, library'.fts = library.fts,
         library'.heads = library.heads, writer.step # "captured"
  PROVE  DocumentsSound'
<1>1. Pages' = Pages
  BY DEF Grows, Pages
<1>2. \A r, p : IsOf(r, p) => IsOf(r, p)'
  BY UntouchedSound
<1> QED
  BY <1>1, <1>2 DEF DocumentsSound, DocumentSound

LEMMA FreshIsLast ==
  ASSUME NEW keys, Numbered(keys)
  PROVE  Max(keys \cup {Fresh(keys)}) = Fresh(keys)
<1>1. Fresh(keys) \in Nat /\ \A k \in keys : k < Fresh(keys) /\ k \in Nat
  BY FreshIsNew DEF Numbered
<1> DEFINE T == keys \cup {Fresh(keys)}
<1>2. Fresh(keys) \in T /\ \A y \in T : y <= Fresh(keys) /\ y \in Nat
  BY <1>1
<1> HIDE DEF T
<1>3. \A x \in T : (\A y \in T : y <= x) => x = Fresh(keys)
  BY <1>1, <1>2
<1>4. Max(T) = Fresh(keys)
  BY <1>2, <1>3 DEF Max
<1> QED
  BY <1>4 DEF T

LEMMA AddedRow ==
  ASSUME NEW table, Numbered(DOMAIN table), NEW row
  PROVE  /\ DOMAIN Added(table, row) = DOMAIN table \cup {Fresh(DOMAIN table)}
         /\ Added(table, row)[Fresh(DOMAIN table)] = row
         /\ \A k \in DOMAIN table : k # Fresh(DOMAIN table) /\ Added(table, row)[k] = table[k]
  BY FreshIsNew DEF Added

LEMMA OpenRunKeepsWhole ==
  ASSUME LibraryShape, TablesKept, Whole, OpenRun
  PROVE  TablesKept' /\ Kept' /\ writer'.step = "running"
<1> DEFINE runs == library.runs
           opened == Fresh(DOMAIN library.runs)
           row == [succeeded |-> FALSE, candidate |-> opened]
           table == Added(runs, row)
<1>1. library' = [library EXCEPT !.runs = table] /\ writer.step = "idle" /\ writer' = To("running")
  BY DEF OpenRun, Commits, WriterMoves
<1>2. Grows
  BY WriterOnlyAdds DEF WriterStep
<1>3. Numbered(DOMAIN runs)
  BY DEF TablesKept
<1>4. /\ DOMAIN table = DOMAIN runs \cup {opened} /\ table[opened] = row
      /\ \A k \in DOMAIN runs : k # opened /\ table[k] = runs[k]
      /\ Numbered(DOMAIN runs \cup {opened}) /\ Max(DOMAIN runs \cup {opened}) = opened
  <2> HIDE DEF row
  <2>1. PICK entries, content : entries = runs /\ content = row
    OBVIOUS
  <2>2. Numbered(DOMAIN entries)
    BY <1>3, <2>1
  <2>3. /\ DOMAIN Added(entries, content) = DOMAIN entries \cup {Fresh(DOMAIN entries)}
        /\ Added(entries, content)[Fresh(DOMAIN entries)] = content
        /\ \A k \in DOMAIN entries :
             k # Fresh(DOMAIN entries) /\ Added(entries, content)[k] = entries[k]
    BY <2>2, AddedRow
  <2>4. Numbered(DOMAIN runs \cup {opened}) /\ Max(DOMAIN runs \cup {opened}) = opened
    BY <1>3, FreshIsNew, FreshIsLast
  <2> QED
    BY <2>1, <2>3, <2>4
<1>5. /\ library'.runs = table /\ library'.objects = library.objects /\ library'.readable = library.readable
      /\ library'.revisions = library.revisions /\ library'.heads = library.heads
      /\ library'.checkpoints = library.checkpoints /\ library'.documents = library.documents
      /\ library'.fts = library.fts /\ library'.media = library.media
      /\ library'.placements = library.placements /\ library'.chain = library.chain
      /\ writer'.step = "running"
  BY <1>1 DEF LibraryShape, To
<1> HIDE DEF table, opened
<1>6. TablesKept'
  BY <1>4, <1>5 DEF TablesKept, runs
<1>7. /\ library.objects \subseteq library.readable /\ RowsSound /\ ChainSound
      /\ \A d \in DOMAIN library.documents : DocumentSound(d)
      /\ Recorded = Succeeded
  BY WholeByParts
<1>8. DocumentsSound'
  <2>1. DocumentsSound
    BY <1>7 DEF DocumentsSound, DocumentSound
  <2> QED
    BY <1>1, <1>2, <1>5, <2>1, DocumentsStand
<1>9. CheckpointsSound'
  BY <1>4, <1>5, <1>7, CheckpointsStand DEF RowsSound
<1>10. RowsSound' /\ ChainSound' /\ Recorded' = Recorded
  BY <1>2, <1>5, <1>7, <1>9, UntouchedSound DEF RowsSound
<1>11. Succeeded' = Succeeded
  BY <1>4, <1>5 DEF Succeeded
<1>12. CurrentRun' = opened
  BY <1>4, <1>5 DEF CurrentRun
<1>13. RunsSound'
  BY <1>4, <1>5, <1>7, <1>10, <1>11, <1>12 DEF RunsSound, Under
<1>14. WriterSound'
  BY <1>5 DEF WriterSound
<1> QED
  BY <1>5, <1>6, <1>7, <1>8, <1>10, <1>13, <1>14 DEF Kept

LEMMA PutObjectKeepsWhole ==
  ASSUME LibraryShape, TablesKept, Kept, NEW object \in 1 .. MaxRevision, PutObject(object)
  PROVE  TablesKept' /\ Kept' /\ writer'.step = "put"
<1>1. /\ library' = [library EXCEPT !.objects = library.objects \cup {object},
                                    !.readable = library.readable \cup {object}]
      /\ writer.step = "running" /\ writer' = [writer EXCEPT !.step = "put", !.object = object]
  BY DEF PutObject, Commits, WriterMoves
<1>2. Grows
  BY WriterOnlyAdds DEF WriterStep
<1>3. /\ library'.objects = library.objects \cup {object}
      /\ library'.readable = library.readable \cup {object}
      /\ library'.revisions = library.revisions /\ library'.heads = library.heads
      /\ library'.runs = library.runs
      /\ library'.checkpoints = library.checkpoints /\ library'.documents = library.documents
      /\ library'.fts = library.fts /\ library'.media = library.media
      /\ library'.placements = library.placements /\ library'.chain = library.chain
      /\ writer'.step = "put" /\ writer'.object = object
  BY <1>1 DEF LibraryShape
<1>4. TablesKept'
  BY <1>3 DEF TablesKept
<1>5. /\ library.objects \subseteq library.readable /\ RowsSound /\ ChainSound /\ DocumentsSound /\ RunsSound
  BY DEF Kept
<1>6. DocumentsSound'
  BY <1>1, <1>2, <1>3, <1>5, DocumentsStand
<1>7. CheckpointsSound'
  BY <1>3, <1>5, CheckpointsStand DEF RowsSound
<1>8. RowsSound' /\ ChainSound' /\ Recorded' = Recorded /\ Succeeded' = Succeeded /\ CurrentRun' = CurrentRun
  BY <1>2, <1>3, <1>5, <1>7, UntouchedSound DEF RowsSound
<1>9. RunsSound'
  BY <1>1, <1>3, <1>5, <1>8 DEF RunsSound, Under
<1>10. WriterSound'
  BY <1>3 DEF WriterSound
<1> QED
  BY <1>3, <1>4, <1>5, <1>6, <1>8, <1>9, <1>10 DEF Kept

LEMMA CaptureNewKeepsWhole ==
  ASSUME LibraryShape, TablesKept, Kept, NEW p \in Pages, CaptureNew(p)
  PROVE  TablesKept' /\ Kept' /\ writer'.step = "captured"
<1> DEFINE revisions == library.revisions
           revision == Fresh(DOMAIN library.revisions)
           row == [page |-> p, object |-> writer.object, parent |-> library.heads[p]]
           table == Added(revisions, row)
           heads == [library.heads EXCEPT ![p] = revision]
<1>1. /\ library' = [library EXCEPT !.heads = heads, !.revisions = table] /\ writer.step = "put"
      /\ writer' = [writer EXCEPT !.step = "captured", !.page = p] /\ revision <= MaxRevision
  BY DEF CaptureNew, Commits, WriterMoves
<1>2. Grows
  BY WriterOnlyAdds DEF WriterStep
<1>3. Numbered(DOMAIN revisions)
  BY DEF LibraryShape
<1>4. /\ DOMAIN table = DOMAIN revisions \cup {revision} /\ table[revision] = row
      /\ \A k \in DOMAIN revisions : k # revision /\ k < revision /\ k \in Nat \ {0} /\ table[k] = revisions[k]
      /\ revision \in Nat \ {0}
  <2> HIDE DEF row
  <2>1. PICK entries, content : entries = revisions /\ content = row
    OBVIOUS
  <2>2. Numbered(DOMAIN entries)
    BY <1>3, <2>1
  <2>3. /\ DOMAIN Added(entries, content) = DOMAIN entries \cup {Fresh(DOMAIN entries)}
        /\ Added(entries, content)[Fresh(DOMAIN entries)] = content
        /\ \A k \in DOMAIN entries :
             k # Fresh(DOMAIN entries) /\ Added(entries, content)[k] = entries[k]
    BY <2>2, AddedRow
  <2>4. revision \in Nat \ {0} /\ \A k \in DOMAIN revisions : k < revision /\ k \in Nat \ {0}
    BY <1>3, FreshIsNew DEF Numbered
  <2> QED
    BY <2>1, <2>3, <2>4
<1>5. DOMAIN heads = Pages /\ heads[p] = revision /\ \A q \in Pages \ {p} : heads[q] = library.heads[q]
  BY DEF Pages
<1>6. /\ library'.revisions = table /\ library'.heads = heads
      /\ library'.objects = library.objects /\ library'.readable = library.readable
      /\ library'.runs = library.runs
      /\ library'.checkpoints = library.checkpoints /\ library'.documents = library.documents
      /\ library'.fts = library.fts /\ library'.media = library.media
      /\ library'.placements = library.placements /\ library'.chain = library.chain
      /\ writer'.step = "captured" /\ writer'.page = p
  BY <1>1 DEF LibraryShape
<1>7. row.page = p /\ row.object = writer.object /\ row.parent = library.heads[p]
  OBVIOUS
<1>8. revision \in 1 .. MaxRevision
  BY <1>1, <1>4, ScanAssumption
<1>9. /\ library.objects \subseteq library.readable /\ RowsSound /\ ChainSound /\ DocumentsSound
      /\ RunsSound /\ WriterSound
  BY DEF Kept
<1>10. writer.object \in library.objects
  BY <1>1, <1>9 DEF WriterSound
<1>11. library.heads[p] = 0 \/ (library.heads[p] \in DOMAIN revisions
                                 /\ revisions[library.heads[p]].page = p)
  BY <1>9 DEF RowsSound, HeadsSound, PageSound, IsOf
<1> HIDE DEF revision, row, table, heads, revisions
<1>12. library.heads[p] \in Nat /\ library.heads[p] < revision
  BY <1>4, <1>11
<1>13. Pages' = Pages
  BY <1>5, <1>6 DEF Pages
<1>14. TablesKept'
  <2>1. \A r \in DOMAIN table : table[r].parent \in 0 .. r
    <3>1. row.parent \in 0 .. revision
      BY <1>4, <1>7, <1>12
    <3>2. \A r \in DOMAIN revisions : revisions[r].parent \in 0 .. r
      BY DEF TablesKept, revisions
    <3> QED
      BY <1>4, <3>1, <3>2
  <2>2. DOMAIN table \subseteq 1 .. MaxRevision
    BY <1>4, <1>8 DEF TablesKept, revisions
  <2>3. DOMAIN heads \subseteq 1 .. MaxRevision
    BY <1>5 DEF TablesKept, Pages
  <2> QED
    BY <1>6, <2>1, <2>2, <2>3 DEF TablesKept
<1>15. RevisionsSound'
  <2> SUFFICES ASSUME NEW r \in DOMAIN table
               PROVE  /\ table[r].page \in Pages /\ table[r].object \in library.objects
                      /\ table[r].parent # r
                      /\ table[r].parent \in DOMAIN table => table[table[r].parent].page = table[r].page
    BY <1>6, <1>13 DEF RevisionsSound, RevisionSound
  <2>1. CASE r = revision
    <3>1. table[r] = row
      BY <1>4, <2>1
    <3>2. row.parent \in DOMAIN table => table[row.parent].page = p
      BY <1>4, <1>7, <1>11, <1>12
    <3> QED
      BY <1>7, <1>10, <1>12, <2>1, <3>1, <3>2
  <2>2. CASE r \in DOMAIN revisions
    <3>1. table[r] = revisions[r] /\ r < revision /\ r \in Nat
      BY <1>4, <2>2
    <3>2. /\ revisions[r].page \in Pages /\ revisions[r].object \in library.objects
          /\ revisions[r].parent # r
          /\ revisions[r].parent \in DOMAIN revisions => revisions[revisions[r].parent].page = revisions[r].page
      BY <1>9, <2>2 DEF RowsSound, RevisionsSound, RevisionSound, revisions
    <3>3. revisions[r].parent \in 0 .. r
      BY <2>2 DEF TablesKept, revisions
    <3>4. revisions[r].parent # revision
      BY <1>4, <3>1, <3>3
    <3> QED
      BY <1>4, <3>1, <3>2, <3>4
  <2> QED
    BY <1>4, <2>1, <2>2
<1>16. HeadsSound'
  <2>1. ASSUME NEW q \in Pages PROVE heads[q] = 0 \/ (heads[q] \in DOMAIN table /\ table[heads[q]].page = q)
    <3>1. CASE q = p
      BY <1>4, <1>5, <1>7, <3>1
    <3>2. CASE q # p
      <4>1. library.heads[q] = 0 \/ (library.heads[q] \in DOMAIN revisions
                                       /\ revisions[library.heads[q]].page = q)
        BY <1>9 DEF RowsSound, HeadsSound, PageSound, IsOf, revisions
      <4> QED
        BY <1>4, <1>5, <3>2, <4>1
    <3> QED
      BY <3>1, <3>2
  <2> QED
    BY <1>6, <1>13, <2>1 DEF HeadsSound, PageSound, IsOf
<1>17. DocumentsSound'
  <2>1. \A r, q : IsOf(r, q) => IsOf(r, q)'
    BY <1>2, UntouchedSound
  <2> SUFFICES ASSUME NEW d \in DOMAIN library.documents
               PROVE  /\ library.documents[d].page \in Pages /\ d \in library.fts
                      /\ DocumentSound(d)' \/ library.documents[d].page = p
    BY <1>6, <1>13 DEF DocumentsSound
  <2>2. library.documents[d].page \in Pages /\ d \in library.fts /\ DocumentSound(d)
    BY <1>1, <1>9 DEF DocumentsSound
  <2> QED
    BY <1>5, <1>6, <1>13, <2>1, <2>2 DEF DocumentSound
<1>18. CheckpointsSound'
  BY <1>6, <1>9, CheckpointsStand DEF RowsSound
<1>19. RowsSound' /\ ChainSound' /\ Recorded' = Recorded /\ Succeeded' = Succeeded /\ CurrentRun' = CurrentRun
  BY <1>2, <1>6, <1>9, <1>15, <1>16, <1>18, UntouchedSound DEF RowsSound
<1>20. RunsSound'
  BY <1>1, <1>6, <1>9, <1>19 DEF RunsSound, Under
<1>21. WriterSound'
  BY <1>4, <1>5, <1>6, <1>13 DEF WriterSound
<1> QED
  BY <1>6, <1>9, <1>14, <1>17, <1>19, <1>20, <1>21 DEF Kept

LEMMA CaptureKnownKeepsWhole ==
  ASSUME LibraryShape, TablesKept, Kept, NEW p \in Pages, NEW r \in DOMAIN library.revisions,
         CaptureKnown(p, r)
  PROVE  TablesKept' /\ Kept' /\ writer'.step = "captured"
<1> DEFINE heads == [library.heads EXCEPT ![p] = r]
<1>1. /\ library' = [library EXCEPT !.heads = heads] /\ writer.step = "running"
      /\ writer' = [writer EXCEPT !.step = "captured", !.page = p] /\ IsOf(r, p)
  BY DEF CaptureKnown, Commits, WriterMoves
<1>2. Grows
  BY WriterOnlyAdds DEF WriterStep
<1>3. DOMAIN heads = Pages /\ heads[p] = r /\ \A q \in Pages \ {p} : heads[q] = library.heads[q]
  BY DEF Pages
<1>4. /\ library'.heads = heads /\ library'.revisions = library.revisions
      /\ library'.objects = library.objects /\ library'.readable = library.readable
      /\ library'.runs = library.runs
      /\ library'.checkpoints = library.checkpoints /\ library'.documents = library.documents
      /\ library'.fts = library.fts /\ library'.media = library.media
      /\ library'.placements = library.placements /\ library'.chain = library.chain
      /\ writer'.step = "captured" /\ writer'.page = p
  BY <1>1 DEF LibraryShape
<1>5. r # 0
  BY DEF TablesKept
<1> HIDE DEF heads
<1>6. /\ library.objects \subseteq library.readable /\ RowsSound /\ ChainSound /\ DocumentsSound /\ RunsSound
  BY DEF Kept
<1>7. Pages' = Pages
  BY <1>3, <1>4 DEF Pages
<1>8. TablesKept'
  BY <1>3, <1>4 DEF TablesKept, Pages
<1>9. \A x, q : IsOf(x, q) <=> IsOf(x, q)'
  BY <1>4 DEF IsOf
<1>10. HeadsSound'
  BY <1>1, <1>3, <1>4, <1>6, <1>7, <1>9 DEF RowsSound, HeadsSound, PageSound
<1>11. DocumentsSound'
  <2> SUFFICES ASSUME NEW d \in DOMAIN library.documents
               PROVE  /\ library.documents[d].page \in Pages /\ d \in library.fts
                      /\ DocumentSound(d)' \/ library.documents[d].page = p
    BY <1>4, <1>7 DEF DocumentsSound
  <2>1. library.documents[d].page \in Pages /\ d \in library.fts /\ DocumentSound(d)
    BY <1>1, <1>6 DEF DocumentsSound
  <2> QED
    BY <1>3, <1>4, <1>7, <1>9, <2>1 DEF DocumentSound
<1>12. CheckpointsSound'
  BY <1>4, <1>6, CheckpointsStand DEF RowsSound
<1>13. RowsSound' /\ ChainSound' /\ Recorded' = Recorded /\ Succeeded' = Succeeded /\ CurrentRun' = CurrentRun
  BY <1>2, <1>4, <1>6, <1>10, <1>12, UntouchedSound DEF RowsSound
<1>14. RunsSound'
  BY <1>1, <1>4, <1>6, <1>13 DEF RunsSound, Under
<1>15. WriterSound'
  BY <1>3, <1>4, <1>5, <1>7 DEF WriterSound
<1> QED
  BY <1>4, <1>6, <1>8, <1>11, <1>13, <1>14, <1>15 DEF Kept

LEMMA IndexPageKeepsWhole ==
  ASSUME LibraryShape, TablesKept, Kept, IndexPage
  PROVE  TablesKept' /\ Kept' /\ writer'.step = "indexed"
<1> DEFINE OfPage(d) == library.documents[d].page = writer.page
           indexed == DOMAIN library.documents
           documents == [d \in indexed |->
                           IF OfPage(d) THEN [library.documents[d] EXCEPT !.revision = library.heads[writer.page]]
                           ELSE library.documents[d]]
           fts == library.fts \cup {d \in indexed : OfPage(d)}
<1>1. /\ library' = [library EXCEPT !.documents = documents, !.fts = fts] /\ writer.step = "captured"
      /\ writer' = To("indexed")
  BY DEF IndexPage, Commits, WriterMoves
<1>2. Grows
  BY WriterOnlyAdds DEF WriterStep
<1>3. \A d \in indexed : DOMAIN library.documents[d] = {"page", "revision"}
  BY DEF TablesKept
<1>4. /\ DOMAIN documents = indexed
      /\ \A d \in indexed :
           /\ DOMAIN documents[d] = {"page", "revision"}
           /\ documents[d].page = library.documents[d].page
           /\ OfPage(d) => documents[d].revision = library.heads[writer.page]
           /\ ~OfPage(d) => documents[d] = library.documents[d]
  BY <1>3
<1>5. /\ library'.documents = documents /\ library'.fts = fts
      /\ library'.heads = library.heads /\ library'.revisions = library.revisions
      /\ library'.objects = library.objects /\ library'.readable = library.readable
      /\ library'.runs = library.runs /\ library'.checkpoints = library.checkpoints
      /\ library'.media = library.media
      /\ library'.placements = library.placements /\ library'.chain = library.chain
      /\ writer'.step = "indexed" /\ writer'.page = writer.page
  BY <1>1 DEF LibraryShape, To
<1>6. fts \subseteq library.fts \cup indexed /\ \A d \in indexed : OfPage(d) => d \in fts
  OBVIOUS
<1>7. library.fts \subseteq fts
  OBVIOUS
<1> HIDE DEF documents, fts
<1>8. /\ library.objects \subseteq library.readable /\ RowsSound /\ ChainSound /\ DocumentsSound
      /\ RunsSound /\ WriterSound
  BY DEF Kept
<1>9. Pages' = Pages
  BY <1>5 DEF Pages
<1>10. TablesKept'
  <2>1. fts \subseteq 1 .. MaxRevision
    BY <1>6 DEF TablesKept
  <2> QED
    BY <1>4, <1>5, <2>1 DEF TablesKept
<1>11. \A x, q : IsOf(x, q) <=> IsOf(x, q)'
  BY <1>5 DEF IsOf
<1>12. IndexSound'
  BY <1>4, <1>5, <1>6, <1>8 DEF RowsSound, IndexSound, FtsRowSound
<1>13. writer.page \in Pages /\ IsOf(library.heads[writer.page], writer.page)
  BY <1>1, <1>8 DEF WriterSound, RowsSound, HeadsSound, PageSound
<1>14. DocumentsSound'
  <2> SUFFICES ASSUME NEW d \in indexed
               PROVE  documents[d].page \in Pages /\ d \in fts /\ DocumentSound(d)'
    BY <1>4, <1>5, <1>9 DEF DocumentsSound
  <2>1. library.documents[d].page \in Pages /\ d \in library.fts
        /\ (DocumentSound(d) \/ OfPage(d))
    BY <1>8 DEF DocumentsSound
  <2>2. documents[d].page \in Pages /\ d \in fts
    BY <1>4, <1>7, <2>1
  <2>3. CASE OfPage(d)
    BY <1>4, <1>5, <1>9, <1>11, <1>13, <2>2, <2>3 DEF DocumentSound
  <2>4. CASE ~OfPage(d)
    BY <1>4, <1>5, <1>9, <1>11, <2>1, <2>2, <2>4 DEF DocumentSound
  <2> QED
    BY <2>2, <2>3, <2>4
<1>15. CheckpointsSound'
  BY <1>5, <1>8, CheckpointsStand DEF RowsSound
<1>16. RowsSound' /\ ChainSound' /\ Recorded' = Recorded /\ Succeeded' = Succeeded /\ CurrentRun' = CurrentRun
  BY <1>2, <1>5, <1>8, <1>12, <1>15, UntouchedSound DEF RowsSound
<1>17. RunsSound'
  BY <1>1, <1>5, <1>8, <1>16 DEF RunsSound, Under
<1>18. WriterSound'
  BY <1>1, <1>5, <1>8, <1>9 DEF WriterSound
<1> QED
  BY <1>5, <1>8, <1>10, <1>14, <1>16, <1>17, <1>18 DEF Kept

LEMMA PlaceImageKeepsWhole ==
  ASSUME LibraryShape, TablesKept, Kept, PlaceImage
  PROVE  TablesKept' /\ Kept' /\ writer'.step = "placed"
<1> DEFINE placements == library.placements
           place == Fresh(DOMAIN placements)
           row == [revision |-> library.heads[writer.page], media |-> Min(DOMAIN library.media)]
           table == Added(placements, row)
<1>1. /\ library' = [library EXCEPT !.placements = table] /\ writer.step = "indexed"
      /\ writer' = To("placed") /\ place <= MaxRevision /\ DOMAIN library.media # {}
  BY DEF PlaceImage, Commits, WriterMoves
<1>2. Grows
  BY WriterOnlyAdds DEF WriterStep
<1>3. Numbered(DOMAIN placements)
  BY DEF LibraryShape
<1>4. /\ DOMAIN table = DOMAIN placements \cup {place} /\ table[place] = row
      /\ \A k \in DOMAIN placements : table[k] = placements[k]
      /\ place \in Nat \ {0}
  <2> HIDE DEF row
  <2>1. PICK entries, content : entries = placements /\ content = row
    OBVIOUS
  <2>2. Numbered(DOMAIN entries)
    BY <1>3, <2>1
  <2>3. /\ DOMAIN Added(entries, content) = DOMAIN entries \cup {Fresh(DOMAIN entries)}
        /\ Added(entries, content)[Fresh(DOMAIN entries)] = content
        /\ \A k \in DOMAIN entries :
             k # Fresh(DOMAIN entries) /\ Added(entries, content)[k] = entries[k]
    BY <2>2, AddedRow
  <2>4. place \in Nat \ {0}
    BY <1>3, FreshIsNew
  <2> QED
    BY <2>1, <2>3, <2>4
<1>5. /\ library'.placements = table
      /\ library'.heads = library.heads /\ library'.revisions = library.revisions
      /\ library'.objects = library.objects /\ library'.readable = library.readable
      /\ library'.runs = library.runs /\ library'.checkpoints = library.checkpoints
      /\ library'.documents = library.documents /\ library'.fts = library.fts
      /\ library'.media = library.media /\ library'.chain = library.chain
      /\ writer'.step = "placed"
  BY <1>1 DEF LibraryShape, To
<1>6. Min(DOMAIN library.media) \in DOMAIN library.media
  <2>1. DOMAIN library.media \in SUBSET Nat
    BY ScanAssumption DEF TablesKept
  <2>2. PICK least \in DOMAIN library.media : \A y \in DOMAIN library.media : least <= y
    BY <1>1, <2>1, LeastNatural
  <2> QED
    BY <2>2 DEF Min
<1>7. row.revision = library.heads[writer.page] /\ row.media = Min(DOMAIN library.media)
  OBVIOUS
<1>8. /\ library.objects \subseteq library.readable /\ RowsSound /\ ChainSound /\ DocumentsSound
      /\ RunsSound /\ WriterSound
  BY DEF Kept
<1>9. writer.page \in Pages /\ IsOf(library.heads[writer.page], writer.page)
  BY <1>1, <1>8 DEF WriterSound, RowsSound, HeadsSound, PageSound
<1>10. place \in 1 .. MaxRevision
  BY <1>1, <1>4, ScanAssumption
<1> HIDE DEF table, row, place
<1>11. TablesKept'
  BY <1>4, <1>5, <1>10 DEF TablesKept, placements
<1>12. PlacementsSound'
  <2> SUFFICES ASSUME NEW x \in DOMAIN table
               PROVE  /\ table[x].revision \in DOMAIN library.revisions
                      /\ library.revisions[table[x].revision].page \in Pages
                      /\ table[x].media \in DOMAIN library.media
    BY <1>5 DEF PlacementsSound, PlacementSound, Pages
  <2>1. CASE x = place
    BY <1>4, <1>6, <1>7, <1>9, <2>1 DEF IsOf
  <2>2. CASE x \in DOMAIN placements
    BY <1>4, <1>8, <2>2 DEF RowsSound, PlacementsSound, PlacementSound, placements
  <2> QED
    BY <1>4, <2>1, <2>2
<1>13. DocumentsSound'
  BY <1>1, <1>2, <1>5, <1>8, DocumentsStand
<1>14. CheckpointsSound'
  BY <1>5, <1>8, CheckpointsStand DEF RowsSound
<1>15. RowsSound' /\ ChainSound' /\ Recorded' = Recorded /\ Succeeded' = Succeeded /\ CurrentRun' = CurrentRun
  BY <1>2, <1>5, <1>8, <1>12, <1>14, UntouchedSound DEF RowsSound
<1>16. RunsSound'
  BY <1>1, <1>5, <1>8, <1>15 DEF RunsSound, Under
<1>17. WriterSound'
  BY <1>5 DEF WriterSound
<1> QED
  BY <1>5, <1>8, <1>11, <1>13, <1>15, <1>16, <1>17 DEF Kept

LEMMA CommitRunKeepsWhole ==
  ASSUME LibraryShape, TablesKept, Kept, CommitRun
  PROVE  TablesKept' /\ Kept' /\ writer'.step = "finished"
<1> DEFINE opened == CurrentRun
           runs == [library.runs EXCEPT ![opened].succeeded = TRUE]
           row == [run |-> opened, through |-> opened]
           checkpoints == [library.checkpoints EXCEPT ![1] = row]
<1>1. /\ library' = [library EXCEPT !.runs = runs, !.checkpoints = checkpoints]
      /\ writer.step \in {"indexed", "placed"} /\ writer' = To("finished")
  BY DEF CommitRun, Commits, WriterMoves, CurrentRun
<1>2. Grows
  BY WriterOnlyAdds DEF WriterStep
<1>3. /\ library.objects \subseteq library.readable /\ RowsSound /\ ChainSound /\ DocumentsSound /\ RunsSound
  BY DEF Kept
<1>4. opened \in DOMAIN library.runs /\ library.runs[opened] = [succeeded |-> FALSE, candidate |-> opened]
      /\ Recorded = Succeeded
  BY <1>1, <1>3 DEF RunsSound, Under
<1>5. /\ DOMAIN runs = DOMAIN library.runs
      /\ runs[opened] = [succeeded |-> TRUE, candidate |-> opened]
      /\ \A r \in DOMAIN runs : r # opened => runs[r] = library.runs[r]
  <2>1. DOMAIN runs = DOMAIN library.runs /\ runs[opened] = [library.runs[opened] EXCEPT !.succeeded = TRUE]
    BY <1>4
  <2>2. PICK ran, key : ran = library.runs[opened] /\ key = opened
    OBVIOUS
  <2>3. ran = [succeeded |-> FALSE, candidate |-> key]
    BY <1>4, <2>2
  <2>4. PICK yes : yes = TRUE
    OBVIOUS
  <2>5. [ran EXCEPT !.succeeded = yes] = [succeeded |-> yes, candidate |-> key]
    BY <2>3
  <2>6. runs[opened] = [ran EXCEPT !.succeeded = yes]
    BY <2>1, <2>2, <2>4
  <2>7. runs[opened] = [succeeded |-> TRUE, candidate |-> opened]
    BY <2>2, <2>4, <2>5, <2>6
  <2> QED
    BY <1>4, <2>1, <2>7
<1>6. /\ DOMAIN checkpoints = DOMAIN library.checkpoints
      /\ 1 \in DOMAIN checkpoints => checkpoints[1] = row
      /\ \A c \in DOMAIN checkpoints : c # 1 => checkpoints[c] = library.checkpoints[c]
  OBVIOUS
<1>7. /\ library'.runs = runs /\ library'.checkpoints = checkpoints
      /\ library'.heads = library.heads /\ library'.revisions = library.revisions
      /\ library'.objects = library.objects /\ library'.readable = library.readable
      /\ library'.documents = library.documents /\ library'.fts = library.fts
      /\ library'.media = library.media /\ library'.placements = library.placements
      /\ library'.chain = library.chain /\ writer'.step = "finished"
  BY <1>1 DEF LibraryShape, To
<1>8. row.run = opened /\ row.through = opened
  OBVIOUS
<1> HIDE DEF opened, row, runs, checkpoints
<1>9. TablesKept'
  BY <1>5, <1>6, <1>7 DEF TablesKept
<1>10. ~library.runs[opened].succeeded /\ runs[opened].succeeded /\ runs[opened].candidate = opened
  BY <1>4, <1>5
<1>11. CheckpointsSound'
  <2> SUFFICES ASSUME NEW c \in DOMAIN checkpoints PROVE CheckpointSound(c)'
    BY <1>7 DEF CheckpointsSound
  <2>1. CASE c = 1
    <3>1. library'.checkpoints[c] = row
      BY <1>6, <1>7, <2>1
    <3>2. /\ row.run \in DOMAIN library'.runs
          /\ library'.runs[row.run] = [succeeded |-> TRUE, candidate |-> row.through]
      BY <1>4, <1>5, <1>7, <1>8
    <3> QED
      BY <3>1, <3>2 DEF CheckpointSound
  <2>2. CASE c # 1
    <3>1. CheckpointSound(c) /\ checkpoints[c] = library.checkpoints[c]
      BY <1>3, <1>6, <2>2 DEF RowsSound, CheckpointsSound
    <3>2. library.runs[checkpoints[c].run] = [succeeded |-> TRUE, candidate |-> checkpoints[c].through]
            => checkpoints[c].run # opened
      BY <1>10
    <3> QED
      BY <1>5, <1>7, <3>1, <3>2 DEF CheckpointSound
  <2> QED
    BY <2>1, <2>2
<1>12. DocumentsSound'
  BY <1>1, <1>2, <1>3, <1>7, DocumentsStand
<1>13. RowsSound' /\ ChainSound' /\ Recorded' = Recorded
  BY <1>2, <1>3, <1>7, <1>11, UntouchedSound DEF RowsSound
<1>14. CurrentRun' = opened
  BY <1>5, <1>7 DEF CurrentRun, opened
<1>15. Succeeded' = Succeeded \cup {opened} /\ opened \notin Succeeded
  <2>1. Succeeded' = {r \in DOMAIN runs : runs[r].succeeded}
    BY <1>7 DEF Succeeded
  <2> QED
    BY <1>4, <1>5, <1>10, <2>1 DEF Succeeded
<1>16. RunsSound'
  BY <1>4, <1>5, <1>7, <1>13, <1>14, <1>15 DEF RunsSound, Under
<1>17. WriterSound'
  BY <1>7 DEF WriterSound
<1> QED
  BY <1>3, <1>7, <1>9, <1>12, <1>13, <1>16, <1>17 DEF Kept

LEMMA WriteManifestKeepsWhole ==
  ASSUME LibraryShape, TablesKept, Kept, WriteManifest
  PROVE  TablesKept' /\ Kept' /\ writer'.step = "recorded"
<1> DEFINE chain == library.chain
           next == Fresh(DOMAIN chain)
           claims == {[revision |-> r, page |-> library.revisions[r].page,
                       object |-> library.revisions[r].object] :
                        r \in DOMAIN library.revisions \ Claimed(library.chain)}
           heads == {[page |-> p, revision |-> library.heads[p]] :
                       p \in {q \in Pages : library.heads[q] # 0}}
           row == [predecessor |-> Max({0} \cup DOMAIN chain), run |-> CurrentRun,
                   claims |-> claims, heads |-> heads,
                   media |-> library.media, placements |-> library.placements]
           table == Added(chain, row)
<1>1. /\ library' = [library EXCEPT !.chain = table] /\ writer.step = "finished"
      /\ writer' = To("recorded")
  BY DEF WriteManifest, WriterMoves, CurrentRun
<1>2. Grows
  BY WriterOnlyAdds DEF WriterStep
<1>3. Numbered(DOMAIN chain)
  BY DEF LibraryShape
<1>4. /\ library.objects \subseteq library.readable /\ RowsSound /\ ChainSound /\ DocumentsSound /\ RunsSound
  BY DEF Kept
<1>5. /\ library'.chain = table
      /\ library'.runs = library.runs /\ library'.checkpoints = library.checkpoints
      /\ library'.heads = library.heads /\ library'.revisions = library.revisions
      /\ library'.objects = library.objects /\ library'.readable = library.readable
      /\ library'.documents = library.documents /\ library'.fts = library.fts
      /\ library'.media = library.media /\ library'.placements = library.placements
      /\ writer'.step = "recorded"
  BY <1>1 DEF LibraryShape, To
<1>6. /\ DOMAIN table = DOMAIN chain \cup {next} /\ table[next] = row
      /\ \A k \in DOMAIN chain : k # next /\ table[k] = chain[k]
      /\ next \in Nat \ {0} /\ Max(DOMAIN chain \cup {next}) = next
  <2> HIDE DEF row
  <2>1. PICK entries, content : entries = chain /\ content = row
    OBVIOUS
  <2>2. Numbered(DOMAIN entries)
    BY <1>3, <2>1
  <2>3. /\ DOMAIN Added(entries, content) = DOMAIN entries \cup {Fresh(DOMAIN entries)}
        /\ Added(entries, content)[Fresh(DOMAIN entries)] = content
        /\ \A k \in DOMAIN entries :
             k # Fresh(DOMAIN entries) /\ Added(entries, content)[k] = entries[k]
    BY <2>2, AddedRow
  <2>4. next \in Nat \ {0} /\ Max(DOMAIN chain \cup {next}) = next
    BY <1>3, FreshIsNew, FreshIsLast
  <2> QED
    BY <2>1, <2>3, <2>4
<1>7. /\ row.predecessor = Max({0} \cup DOMAIN chain) /\ row.run = CurrentRun
      /\ row.claims = claims /\ row.heads = heads
      /\ row.media = library.media /\ row.placements = library.placements
  OBVIOUS
<1>8. next = Max({0} \cup DOMAIN chain) + 1
  BY DEF Fresh
<1>9. Pages' = Pages
  BY <1>5 DEF Pages
<1>10. \A x, q : IsOf(x, q) <=> IsOf(x, q)'
  BY <1>5 DEF IsOf
<1>11. \A claim \in claims : RevisionClaimHolds(claim)'
  <2> SUFFICES ASSUME NEW claim \in claims PROVE RevisionClaimHolds(claim)'
    OBVIOUS
  <2>1. PICK r \in DOMAIN library.revisions :
          claim = [revision |-> r, page |-> library.revisions[r].page, object |-> library.revisions[r].object]
    OBVIOUS
  <2>2. claim.revision = r /\ claim.page = library.revisions[r].page /\ claim.object = library.revisions[r].object
    BY <2>1
  <2>3. library.revisions[r].page \in Pages
    BY <1>4 DEF RowsSound, RevisionsSound, RevisionSound
  <2> QED
    BY <1>5, <1>9, <2>2, <2>3 DEF RevisionClaimHolds, IsOf
<1>12. \A head \in heads : HeadClaimHolds(head)'
  <2> SUFFICES ASSUME NEW head \in heads PROVE HeadClaimHolds(head)'
    OBVIOUS
  <2>1. PICK p \in Pages : library.heads[p] # 0 /\ head = [page |-> p, revision |-> library.heads[p]]
    OBVIOUS
  <2>2. head.page = p /\ head.revision = library.heads[p]
    BY <2>1
  <2>3. IsOf(library.heads[p], p)
    BY <1>4, <2>1 DEF RowsSound, HeadsSound, PageSound
  <2> QED
    BY <1>9, <1>10, <2>2, <2>3 DEF HeadClaimHolds
<1>13. DOMAIN chain = 1 .. Cardinality(DOMAIN chain)
  BY <1>4 DEF ChainSound
<1>14. Cardinality(DOMAIN chain) \in Nat /\ IsFiniteSet(DOMAIN chain)
  BY <1>3, FS_CardinalityType DEF Numbered
<1>15. CurrentRun \notin Recorded /\ Recorded \cup {CurrentRun} = Succeeded
  BY <1>1, <1>4 DEF RunsSound, Under
<1> HIDE DEF claims, heads, row, table, next, chain
<1>16. next = Cardinality(DOMAIN chain) + 1 /\ Max({0} \cup DOMAIN chain) = Cardinality(DOMAIN chain)
  <2> DEFINE n == Cardinality(DOMAIN chain)
  <2>1. {0} \cup (1 .. n) = 0 .. n
    BY <1>14
  <2>2. {0} \cup (1 .. n) \in SUBSET (0 .. n) /\ {0} \cup (1 .. n) # {}
    BY <2>1
  <2> HIDE DEF n
  <2>3. n \in Nat
    BY <1>14 DEF n
  <2>4. Max({0} \cup (1 .. n)) \in 0 .. n /\ \A y \in {0} \cup (1 .. n) : y <= Max({0} \cup (1 .. n))
    BY <2>2, <2>3, GreatestElement
  <2>5. n \in {0} \cup (1 .. n)
    BY <2>1, <2>3
  <2>6. Max({0} \cup (1 .. n)) = n
    BY <2>3, <2>4, <2>5
  <2>7. Max({0} \cup DOMAIN chain) = n
    BY <1>13, <2>6 DEF n
  <2> QED
    BY <1>8, <2>7 DEF n
<1>17. Cardinality(DOMAIN table) = next
  <2>1. next \notin DOMAIN chain
    BY <1>6
  <2> QED
    BY <1>6, <1>14, <1>16, <2>1, FS_AddElement
<1>18. DOMAIN table = 1 .. Cardinality(DOMAIN table)
  BY <1>6, <1>13, <1>14, <1>16, <1>17
<1>19. ASSUME NEW n \in DOMAIN table PROVE table[n].predecessor = n - 1 /\ ClaimsHold(library.chain[n])'
  <2>1. CASE n = next
    <3>1. row.predecessor = n - 1
      BY <1>7, <1>8, <1>14, <1>16, <2>1
    <3>2. PICK manifest : manifest = row
      OBVIOUS
    <3>3. ClaimsHold(manifest)'
      BY <1>7, <1>11, <1>12, <3>2 DEF ClaimsHold
    <3>4. library'.chain[n] = manifest /\ table[n] = row
      BY <1>5, <1>6, <2>1, <3>2
    <3> QED
      BY <3>1, <3>3, <3>4 DEF ClaimsHold, RevisionClaimHolds, HeadClaimHolds
  <2>2. CASE n \in DOMAIN chain
    <3>1. PICK manifest : manifest = library.chain[n]
      OBVIOUS
    <3>2. ClaimsHold(manifest) /\ manifest.predecessor = n - 1
      BY <1>4, <2>2, <3>1 DEF ChainSound, chain
    <3>3. ClaimsHold(manifest)'
      BY <1>2, <3>2, ClaimsGoOn DEF Grows
    <3>4. library'.chain[n] = manifest
      BY <1>5, <1>6, <2>2, <3>1 DEF chain
    <3> QED
      BY <1>5, <3>2, <3>3, <3>4 DEF ClaimsHold, RevisionClaimHolds, HeadClaimHolds
  <2> QED
    BY <1>6, <2>1, <2>2
<1>20. \A n \in DOMAIN chain : table[n].run \in Recorded /\ table[n].run # table[next].run
  BY <1>6, <1>7, <1>15 DEF Recorded, chain
<1>21. \A m, n \in DOMAIN table : table[m].run = table[n].run => m = n
  <2>1. \A m, n \in DOMAIN chain : chain[m].run = chain[n].run => m = n
    BY <1>4 DEF ChainSound, chain
  <2> QED
    BY <1>6, <1>20, <2>1
<1>22. ChainSound'
  BY <1>5, <1>18, <1>19, <1>21 DEF ChainSound
<1>23. Recorded' = Recorded \cup {CurrentRun}
  <2>1. Recorded' = {table[n].run : n \in DOMAIN table}
    BY <1>5 DEF Recorded
  <2>2. Recorded = {table[n].run : n \in DOMAIN chain}
    BY <1>6 DEF Recorded, chain
  <2> QED
    BY <1>6, <1>7, <2>1, <2>2
<1>24. LatestSound'
  <2>1. Max(DOMAIN table) = next
    BY <1>6
  <2> QED
    BY <1>5, <1>6, <1>7, <2>1 DEF LatestSound
<1>25. TablesKept'
  BY <1>5 DEF TablesKept
<1>26. DocumentsSound'
  BY <1>1, <1>2, <1>4, <1>5, DocumentsStand
<1>27. CheckpointsSound'
  BY <1>4, <1>5, CheckpointsStand DEF RowsSound
<1>28. RowsSound' /\ Succeeded' = Succeeded
  BY <1>2, <1>4, <1>5, <1>27, UntouchedSound DEF RowsSound
<1>29. RunsSound'
  BY <1>5, <1>15, <1>23, <1>24, <1>28 DEF RunsSound, Under
<1>30. WriterSound'
  BY <1>5 DEF WriterSound
<1> QED
  BY <1>4, <1>5, <1>22, <1>25, <1>26, <1>28, <1>29, <1>30 DEF Kept

LEMMA RecordedIsWhole ==
  ASSUME TablesKept, Kept, writer.step = "recorded"
  PROVE  Whole
<1>1. \A d \in DOMAIN library.documents : DocumentSound(d)
  BY DEF Kept, DocumentsSound
<1>2. Recorded = Succeeded /\ LatestSound
  BY DEF Kept, RunsSound
<1> QED
  BY <1>1, <1>2, WholeByParts DEF Kept

\* What is there stays so when nothing is written.
LEMMA SameLibrary ==
  ASSUME library' = library, writer' = writer
  PROVE  /\ TablesKept' <=> TablesKept
         /\ Whole' <=> Whole
         /\ Kept' <=> Kept
         /\ Recorded' = Recorded /\ Succeeded' = Succeeded
         /\ Records' = Records /\ \A record \in Records : RecordSound(record)' <=> RecordSound(record)
         /\ \A manifest : ClaimsHold(manifest)' <=> ClaimsHold(manifest)
<1>1. CatalogKept
  BY DEF CatalogKept
<1>2. Records' = Records /\ \A record \in Records : RecordSound(record)' <=> RecordSound(record)
  BY <1>1, RecordsAsked
<1>3. TablesKept' <=> TablesKept
  BY DEF TablesKept
<1>4. Recorded' = Recorded /\ Succeeded' = Succeeded /\ CurrentRun' = CurrentRun
  BY DEF Recorded, Succeeded, CurrentRun
<1>5. Pages' = Pages /\ \A r, p : IsOf(r, p)' <=> IsOf(r, p)
  BY DEF Pages, IsOf
<1>6. \A manifest : ClaimsHold(manifest)' <=> ClaimsHold(manifest)
  BY <1>5 DEF ClaimsHold, RevisionClaimHolds, HeadClaimHolds
<1>7. ChainSound' <=> ChainSound
  <2>1. \A n : ClaimsHold(library.chain[n])' <=> ClaimsHold(library.chain[n])
    BY <1>5 DEF ClaimsHold, RevisionClaimHolds, HeadClaimHolds
  <2> QED
    BY <2>1 DEF ChainSound
<1>8. LatestSound' <=> LatestSound
  BY DEF LatestSound
<1>9. Whole' <=> Whole
  <2>1. Whole <=> /\ library.objects \subseteq library.readable
                  /\ \A record \in Records : RecordSound(record)
                  /\ ChainSound /\ Recorded = Succeeded /\ LatestSound
    BY DEF Whole, ChainSound, LatestSound
  <2>2. Whole' <=> /\ library.objects \subseteq library.readable
                   /\ \A record \in Records' : RecordSound(record)'
                   /\ ChainSound' /\ Recorded' = Succeeded' /\ LatestSound'
    BY DEF Whole, ChainSound, LatestSound
  <2> QED
    BY <1>2, <1>4, <1>7, <1>8, <2>1, <2>2
<1>10. RevisionsSound' <=> RevisionsSound
  BY <1>5 DEF RevisionsSound, RevisionSound
<1>11. HeadsSound' <=> HeadsSound
  BY <1>5 DEF HeadsSound, PageSound
<1>12. CheckpointsSound' <=> CheckpointsSound
  BY DEF CheckpointsSound, CheckpointSound
<1>13. IndexSound' <=> IndexSound
  BY DEF IndexSound, FtsRowSound
<1>14. ImagesSound' <=> ImagesSound
  BY DEF ImagesSound, MediaSound
<1>15. PlacementsSound' <=> PlacementsSound
  BY <1>5 DEF PlacementsSound, PlacementSound
<1>16. DocumentsSound' <=> DocumentsSound
  BY <1>5 DEF DocumentsSound, DocumentSound
<1>17. RunsSound' <=> RunsSound
  BY <1>4, <1>8 DEF RunsSound
<1>18. WriterSound' <=> WriterSound
  BY <1>5 DEF WriterSound
<1>19. Kept' <=> Kept
  BY <1>7, <1>10, <1>11, <1>12, <1>13, <1>14, <1>15, <1>16, <1>17, <1>18 DEF Kept, RowsSound
<1> QED
  BY <1>2, <1>3, <1>4, <1>6, <1>9, <1>19

LEMMA WriterKeepsVerdict ==
  ASSUME ScanInv, VerdictInv, intact, WriterStep
  PROVE  VerdictInv'
<1>1. LibraryShape /\ TablesKept /\ WriterInv
  BY DEF ScanInv, VerdictInv
<1>2. writer.step = "idle" => Whole
  BY <1>1 DEF WriterInv
<1>3. writer.step # "idle" => Kept
  BY <1>1 DEF WriterInv
<1>4. TablesKept' /\ Kept' /\ writer'.step \in Under \cup {"finished", "recorded"}
  <2>1. CASE OpenRun
    <3>1. writer.step = "idle"
      BY <2>1 DEF OpenRun, Commits, WriterMoves
    <3> QED
      BY <1>1, <1>2, <2>1, <3>1, OpenRunKeepsWhole DEF Under
  <2>2. CASE \E object \in 1 .. MaxRevision : PutObject(object)
    <3>1. writer.step # "idle"
      BY <2>2 DEF PutObject, Commits, WriterMoves
    <3> QED
      BY <1>1, <1>3, <2>2, <3>1, PutObjectKeepsWhole DEF Under
  <2>3. CASE \E p \in Pages : CaptureNew(p)
    <3>1. writer.step # "idle"
      BY <2>3 DEF CaptureNew, Commits, WriterMoves
    <3> QED
      BY <1>1, <1>3, <2>3, <3>1, CaptureNewKeepsWhole DEF Under
  <2>4. CASE \E p \in Pages, r \in DOMAIN library.revisions : CaptureKnown(p, r)
    <3>1. writer.step # "idle"
      BY <2>4 DEF CaptureKnown, Commits, WriterMoves
    <3> QED
      BY <1>1, <1>3, <2>4, <3>1, CaptureKnownKeepsWhole DEF Under
  <2>5. CASE IndexPage
    <3>1. writer.step # "idle"
      BY <2>5 DEF IndexPage, Commits, WriterMoves
    <3> QED
      BY <1>1, <1>3, <2>5, <3>1, IndexPageKeepsWhole DEF Under
  <2>6. CASE PlaceImage
    <3>1. writer.step # "idle"
      BY <2>6 DEF PlaceImage, Commits, WriterMoves
    <3> QED
      BY <1>1, <1>3, <2>6, <3>1, PlaceImageKeepsWhole DEF Under
  <2>7. CASE CommitRun
    <3>1. writer.step # "idle"
      BY <2>7 DEF CommitRun, Commits, WriterMoves
    <3> QED
      BY <1>1, <1>3, <2>7, <3>1, CommitRunKeepsWhole
  <2>8. CASE WriteManifest
    <3>1. writer.step # "idle"
      BY <2>8 DEF WriteManifest, WriterMoves
    <3> QED
      BY <1>1, <1>3, <2>8, <3>1, WriteManifestKeepsWhole
  <2> QED
    BY <2>1, <2>2, <2>3, <2>4, <2>5, <2>6, <2>7, <2>8 DEF WriterStep
<1>5. intact' = intact /\ scan' = scan /\ (quiet' <=> scan.phase = "none")
  BY DEF WriterStep, OpenRun, PutObject, CaptureNew, CaptureKnown, IndexPage, PlaceImage, CommitRun,
         WriteManifest, Commits, WriterMoves
<1>6. WriterInv'
  BY <1>4, <1>5 DEF WriterInv, WriterSteps, Under
<1>7. Undisturbed' => scan'.phase = "none"
  BY <1>5 DEF Undisturbed
<1>8. ListedAll'
  BY <1>5, <1>7 DEF VerdictInv, ListedAll, Replayed, Comparing, Recording
<1>9. ComparedAll'
  BY <1>5, <1>7 DEF ComparedAll, WithPlacements, WithImages, WithRuns, Replayed, Comparing, Recording
<1>10. NothingWrong'
  BY <1>7 DEF NothingWrong
<1> QED
  BY <1>4, <1>6, <1>8, <1>9, <1>10 DEF VerdictInv

-----------------------------------------------------------------------------
(* What a verification that nothing disturbs concludes. *)

\* A page is empty only at the end of the entries.
LEMMA PageNotEmpty ==
  ASSUME NEW entries \in SUBSET (Nat \X Nat), IsFiniteSet(entries),
         NEW cursor \in Nat \X Nat, NEW limit \in Int, 1 <= limit,
         Until(entries, cursor) # entries
  PROVE  PageOf(entries, cursor, limit) # {}
<1> DEFINE rest == {e \in entries : Precedes(cursor, e)}
           firsts == {e[1] : e \in rest}
<1>1. rest # {} /\ rest \subseteq entries
  BY DEF Until
<1>2. firsts \in SUBSET Nat /\ firsts # {}
  BY <1>1
<1>3. PICK c \in firsts : \A d \in firsts : c <= d
  <2> HIDE DEF firsts
  <2> QED
    BY <1>2, LeastNatural
<1> DEFINE seconds == {e[2] : e \in {f \in rest : f[1] = c}}
<1>4. seconds \in SUBSET Nat /\ seconds # {}
  BY <1>1, <1>3
<1>5. PICK k \in seconds : \A l \in seconds : k <= l
  <2> HIDE DEF seconds
  <2> QED
    BY <1>4, LeastNatural
<1>6. PICK first \in rest : first[1] = c /\ first[2] = k
  BY <1>5
<1>7. \A f \in rest : ~Precedes(f, first)
  <2> SUFFICES ASSUME NEW f \in rest, Precedes(f, first) PROVE FALSE
    OBVIOUS
  <2>1. f \in Nat \X Nat /\ first \in Nat \X Nat
    BY <1>1
  <2>2. c <= f[1]
    BY <1>3
  <2>3. f[1] = c => k <= f[2]
    BY <1>5
  <2> HIDE DEF rest, firsts, seconds
  <2> QED
    BY <1>6, <2>1, <2>2, <2>3 DEF Precedes
<1>8. {f \in rest : Precedes(f, first)} = {}
  BY <1>7
<1>9. Cardinality({f \in rest : Precedes(f, first)}) < limit
  <2> HIDE DEF rest
  <2>1. Cardinality({f \in rest : Precedes(f, first)}) = 0
    BY <1>8, FS_EmptySet
  <2> QED
    BY <2>1
<1>10. first \in PageOf(entries, cursor, limit)
  BY <1>9 DEF PageOf
<1> QED
  BY <1>10

\* The verdict and the lists grow only as each step says.
Settles ==
  /\ scan'.names = scan.names /\ scan'.read = scan.read /\ scan'.represented = scan.represented
  /\ ~scan'.found => ~scan.found

LEMMA LookKeepsWriter ==
  ASSUME VerdictInv, NEW phase, Looks(phase)
  PROVE  /\ TablesKept' /\ WriterInv' /\ (Whole' <=> Whole)
         /\ scan.phase = phase /\ library' = library /\ version' = version /\ quiet' = quiet
         /\ Succeeded' = Succeeded /\ Records' = Records /\ ObjectEntries' = ObjectEntries
<1>1. scan.phase = phase /\ UNCHANGED <<library, version, writer, intact, quiet>>
  BY DEF Looks
<1>2. /\ TablesKept' <=> TablesKept
      /\ Whole' <=> Whole
      /\ Kept' <=> Kept
      /\ Succeeded' = Succeeded /\ Records' = Records
  BY <1>1, SameLibrary
<1>3. TablesKept' /\ WriterInv'
  BY <1>1, <1>2 DEF VerdictInv, WriterInv
<1> QED
  BY <1>1, <1>2, <1>3 DEF ObjectEntries

\* Steps after the manifests were listed that read none of them.
LEMMA ListStays ==
  ASSUME VerdictInv, NEW phase \in {"manifests"} \cup Replayed, Looks(phase), Settles,
         scan'.scope = scan.scope, scan'.phase \in Replayed
  PROVE  ListedAll'
<1>1. /\ scan.phase = phase /\ library' = library /\ quiet' = quiet /\ Succeeded' = Succeeded
      /\ TablesKept' /\ WriterInv'
  BY LookKeepsWriter
<1>2. scan'.phase \notin Reading \cup {"list"}
  BY DEF Replayed, Reading, Comparing, Recording
<1>3. Undisturbed' => Undisturbed
  BY <1>1 DEF Undisturbed
<1>4. RunsOf(scan.read)' = RunsOf(scan.read)
  BY <1>1 DEF RunsOf, Settles
<1> QED
  BY <1>1, <1>2, <1>3, <1>4 DEF VerdictInv, ListedAll, Settles

LEMMA ComparedStays ==
  ASSUME VerdictInv, NEW phase, Looks(phase), Settles, scan'.scope = scan.scope,
         scan'.phase \in WithPlacements => phase \in WithPlacements \/ scan.names = {}
                                             \/ scan'.found \/ Latest.placements = library.placements,
         scan'.phase \in WithImages => phase \in WithImages \/ scan.names = {}
                                         \/ scan'.found \/ Latest.media = library.media,
         scan'.phase \in WithRuns => phase \in WithRuns \/ scan'.found \/ Succeeded \subseteq scan.represented
  PROVE  ComparedAll'
<1>1. /\ scan.phase = phase /\ library' = library /\ quiet' = quiet /\ Succeeded' = Succeeded
  BY LookKeepsWriter
<1>2. Undisturbed' => Undisturbed
  BY <1>1 DEF Undisturbed
<1>3. Latest' = Latest
  BY <1>1 DEF Latest, Settles
<1>4. SUFFICES ASSUME Undisturbed, ~scan.found, ~scan'.found PROVE ComparedAll'
  BY <1>2 DEF ComparedAll, WithPlacements, WithImages, WithRuns, Settles
<1>5. /\ phase \in WithPlacements /\ scan.names # {} => Latest.placements = library.placements
      /\ phase \in WithImages /\ scan.names # {} => Latest.media = library.media
      /\ phase \in WithRuns => Succeeded \subseteq scan.represented
  BY <1>1, <1>4 DEF VerdictInv, ComparedAll, WithPlacements, WithImages, WithRuns
<1> QED
  BY <1>1, <1>3, <1>5 DEF ComparedAll, WithPlacements, WithImages, WithRuns, Settles

LEMMA BeginIsQuiet ==
  ASSUME ScanInv, VerdictInv, NEW scope, BeginScan(scope)
  PROVE  VerdictInv'
<1> DEFINE total == Cardinality(library.objects)
           target == IF scope = "quick" THEN Min({total, QuickLimit}) ELSE total
           partial == target # total
<1>1. Looks("none")
  BY DEF BeginScan
<1>2. /\ TablesKept' /\ WriterInv' /\ ObjectEntries' = ObjectEntries /\ library' = library
  BY <1>1, LookKeepsWriter
<1>3. scan' = [NoScan EXCEPT !.phase = "objects", !.scope = scope, !.total = total,
                 !.target = target, !.partial = partial]
  BY DEF BeginScan
<1> HIDE DEF total, target, partial
<1>4. /\ scan'.phase = "objects" /\ scan'.represented = {} /\ scan'.found = FALSE
      /\ scan'.total = total /\ scan'.target = target /\ scan'.examined = 0 /\ scan'.cursor = <<0, 0>>
      /\ scan'.scope = scope /\ scan'.partial = partial
  BY <1>3 DEF NoScan
<1>5. ListedAll' /\ ComparedAll'
  BY <1>4 DEF ListedAll, ComparedAll, WithPlacements, WithImages, WithRuns, Replayed, Comparing, Recording
<1>6. Cardinality(Until(ObjectEntries, scan.cursor)') = 0
  <2>1. LibraryShape
    BY DEF ScanInv
  <2>2. \A o \in library.objects : o \in Nat /\ o >= 1
    BY <2>1, ScanAssumption DEF LibraryShape
  <2>3. Until(ObjectEntries, scan.cursor)' = {}
    BY <1>2, <1>4, <2>2 DEF Until, ObjectEntries, Precedes
  <2> QED
    BY <2>3, FS_EmptySet
<1>7. NothingWrong'
  <2>1. Undisturbed' => scope = "full"
    BY <1>4 DEF Undisturbed
  <2>2. scope = "full" => target = total /\ ~partial
    BY DEF target, partial
  <2>3. Undisturbed' =>
          /\ scan'.target = Cardinality(library'.objects) /\ scan'.total = Cardinality(library'.objects)
          /\ scan'.examined = Cardinality(Until(ObjectEntries, scan.cursor)')
          /\ ~scan'.found /\ ~scan'.partial
    BY <1>2, <1>4, <1>6, <2>1, <2>2 DEF total
  <2> QED
    BY <1>4, <2>3 DEF NothingWrong, Comparing
<1> QED
  BY <1>2, <1>5, <1>7 DEF VerdictInv

LEMMA ObjectPageIsQuiet ==
  ASSUME ScanInv, VerdictInv, ObjectPage
  PROVE  VerdictInv'
<1> DEFINE limit == Min({PageSize, scan.target - scan.examined})
           batch == PageOf(ObjectEntries, scan.cursor, limit)
<1>1. Looks("objects") /\ scan.examined < scan.target /\ ScanShape /\ LibraryShape
  BY DEF ObjectPage, ScanInv
<1>2. /\ TablesKept' /\ WriterInv' /\ ObjectEntries' = ObjectEntries /\ library' = library
      /\ Whole' <=> Whole
      /\ quiet' = quiet /\ scan.phase = "objects"
  BY <1>1, LookKeepsWriter
<1>3. limit \in Int /\ 1 <= limit
  BY <1>1, LesserOfTwo, ScanAssumption DEF ScanShape
<1>4. ObjectEntries \in SUBSET (Nat \X Nat) /\ IsFiniteSet(ObjectEntries)
      /\ Cardinality(ObjectEntries) = Cardinality(library.objects)
  BY <1>1, ObjectsFinite
<1> HIDE DEF limit
<1>5. IF batch = {}
      THEN scan' = [scan EXCEPT !.phase = "recount", !.partial = TRUE]
      ELSE scan' = [scan EXCEPT !.examined = @ + Cardinality(batch), !.cursor = LastOf(batch),
                      !.found = @ \/ \E e \in batch : e[2] \notin library.readable]
  BY DEF ObjectPage, ObjectEntries, limit
<1>6. scan'.phase \in {"objects", "recount"} /\ scan'.represented = scan.represented
      /\ scan'.scope = scan.scope
  BY <1>1, <1>2, <1>5 DEF ScanShape
<1>7. ListedAll' /\ ComparedAll'
  BY <1>2, <1>6
     DEF VerdictInv, ListedAll, ComparedAll, WithPlacements, WithImages, WithRuns, Replayed, Comparing,
         Recording, Reading
<1>8. NothingWrong'
  <2> SUFFICES ASSUME Undisturbed, Whole PROVE NothingWrong'
    BY <1>2, <1>6 DEF NothingWrong, Undisturbed
  <2>1. /\ ~scan.found /\ ~scan.partial
        /\ scan.target = Cardinality(library.objects) /\ scan.total = Cardinality(library.objects)
        /\ scan.examined = Cardinality(Until(ObjectEntries, scan.cursor))
    BY <1>2 DEF VerdictInv, NothingWrong
  <2>2. Until(ObjectEntries, scan.cursor) # ObjectEntries
    BY <1>1, <1>4, <2>1 DEF ScanShape
  <2>3. batch # {}
    BY <1>1, <1>3, <1>4, <2>2, PageNotEmpty DEF ScanShape
  <2>4. /\ batch \subseteq ObjectEntries
        /\ Until(ObjectEntries, LastOf(batch)) = Until(ObjectEntries, scan.cursor) \cup batch
        /\ Cardinality(Until(ObjectEntries, LastOf(batch)))
             = Cardinality(Until(ObjectEntries, scan.cursor)) + Cardinality(batch)
    BY <1>1, <1>3, <1>4, <2>3, PagesHaveNoGap DEF ScanShape
  <2>5. ~ \E e \in batch : e[2] \notin library.readable
    BY <2>4 DEF ObjectEntries, Whole
  <2>6. scan' = [scan EXCEPT !.examined = @ + Cardinality(batch), !.cursor = LastOf(batch),
                   !.found = @ \/ \E e \in batch : e[2] \notin library.readable]
    BY <1>5, <2>3
  <2> HIDE DEF batch
  <2>7. PICK unread : unread = \E e \in batch : e[2] \notin library.readable
    OBVIOUS
  <2>8. scan' = [scan EXCEPT !.examined = @ + Cardinality(batch), !.cursor = LastOf(batch),
                   !.found = @ \/ unread]
    BY <2>6, <2>7
  <2>9. /\ scan'.phase = "objects" /\ ~scan'.found /\ ~scan'.partial
        /\ scan'.target = scan.target /\ scan'.total = scan.total
        /\ scan'.examined = scan.examined + Cardinality(batch) /\ scan'.cursor = LastOf(batch)
    BY <1>1, <1>2, <2>1, <2>5, <2>7, <2>8 DEF ScanShape
  <2>10. Until(ObjectEntries, scan.cursor)' = Until(ObjectEntries, LastOf(batch))
    BY <1>2, <2>9 DEF Until, Precedes
  <2>11. scan'.examined = Cardinality(Until(ObjectEntries, scan.cursor)')
    BY <2>1, <2>4, <2>9, <2>10
  <2> QED
    BY <1>2, <2>1, <2>9, <2>11 DEF NothingWrong, Comparing
<1> QED
  BY <1>2, <1>7, <1>8 DEF VerdictInv

LEMMA ObjectRecountIsQuiet ==
  ASSUME ScanInv, VerdictInv, ObjectRecount
  PROVE  VerdictInv'
<1> DEFINE moved == Cardinality(library.objects) # scan.total
           short == scan.examined # scan.target
<1>1. PICK phase \in {"objects", "recount"} : Looks(phase) /\ (phase = "objects" => ~short)
  BY DEF ObjectRecount
<1>2. /\ TablesKept' /\ WriterInv' /\ library' = library /\ quiet' = quiet /\ scan.phase = phase
      /\ Whole' <=> Whole
  BY <1>1, LookKeepsWriter
<1>3. scan' = [scan EXCEPT !.phase = IF scan.scope = "full" THEN "list" ELSE "done",
                 !.found = @ \/ moved, !.partial = @ \/ moved \/ short]
  BY DEF ObjectRecount
<1> HIDE DEF moved, short
<1>4. ScanShape
  BY DEF ScanInv
<1>5. /\ scan'.scope = scan.scope /\ scan'.represented = scan.represented
      /\ scan'.phase = IF scan.scope = "full" THEN "list" ELSE "done"
      /\ ~scan.found /\ ~moved => ~scan'.found
      /\ ~scan.partial /\ ~moved /\ ~short => ~scan'.partial
  BY <1>3, <1>4 DEF ScanShape
<1>6. Undisturbed' => Undisturbed /\ scan'.phase = "list"
  BY <1>2, <1>5 DEF Undisturbed
<1>7. ListedAll' /\ ComparedAll'
  <2>1. scan.represented = {}
    BY <1>1, <1>2 DEF VerdictInv, ListedAll, Reading
  <2> QED
    BY <1>5, <1>6, <2>1
       DEF ListedAll, ComparedAll, WithPlacements, WithImages, WithRuns, Replayed, Comparing,
           Recording, Reading
<1>8. NothingWrong'
  <2>1. Undisturbed /\ Whole => ~scan.found /\ ~scan.partial /\ ~moved /\ ~short
    BY <1>1, <1>2 DEF VerdictInv, NothingWrong, moved
  <2> QED
    BY <1>2, <1>5, <1>6, <2>1 DEF NothingWrong, Comparing
<1> QED
  BY <1>2, <1>7, <1>8 DEF VerdictInv

LEMMA ListManifestsIsQuiet ==
  ASSUME ScanInv, VerdictInv, ListManifests
  PROVE  VerdictInv'
<1>1. Looks("list") /\ ScanShape
  BY DEF ListManifests, ScanInv
<1>2. /\ TablesKept' /\ WriterInv' /\ library' = library /\ version' = version /\ quiet' = quiet
      /\ scan.phase = "list"
      /\ Whole' <=> Whole
  BY <1>1, LookKeepsWriter
<1>3. scan' = [scan EXCEPT !.phase = "manifests", !.counter = version, !.names = DOMAIN library.chain]
  BY DEF ListManifests
<1>4. /\ scan'.phase = "manifests" /\ scan'.counter = version /\ scan'.names = DOMAIN library.chain
      /\ scan'.read = scan.read /\ scan'.represented = scan.represented /\ scan'.scope = scan.scope
      /\ scan'.found = scan.found /\ scan'.partial = scan.partial
  BY <1>1, <1>3 DEF ScanShape
<1>5. scan.read = {} /\ scan.represented = {}
  BY <1>2 DEF ScanInv, NothingReplayed, VerdictInv, ListedAll
<1>6. ListedAll'
  BY <1>2, <1>4, <1>5 DEF ListedAll, Reading, RunsOf
<1>7. ComparedAll'
  BY <1>4 DEF ComparedAll, WithPlacements, WithImages, WithRuns, Replayed, Comparing, Recording
<1>8. NothingWrong'
  BY <1>2, <1>4 DEF VerdictInv, NothingWrong, Undisturbed
<1> QED
  BY <1>2, <1>6, <1>7, <1>8 DEF VerdictInv

LEMMA ReadManifestIsQuiet ==
  ASSUME ScanInv, VerdictInv, ReadManifest
  PROVE  VerdictInv'
<1> DEFINE sequence == Min(scan.names \ scan.read)
           manifest == library.chain[sequence]
           fails == ~Follows(sequence) \/ ~RunRecorded(manifest.run) \/ ~ClaimsHold(manifest)
<1>1. Looks("manifests") /\ scan.names # scan.read /\ ScanShape /\ LibraryShape /\ ClaimsReplayed
  BY DEF ReadManifest, ScanInv
<1>2. /\ TablesKept' /\ WriterInv' /\ library' = library /\ version' = version /\ quiet' = quiet
      /\ scan.phase = "manifests" /\ Succeeded' = Succeeded
      /\ Whole' <=> Whole
  BY <1>1, LookKeepsWriter
<1>3. scan' = [scan EXCEPT !.read = @ \cup {sequence}, !.represented = @ \cup {manifest.run},
                 !.found = @ \/ fails]
  BY DEF ReadManifest
<1> HIDE DEF fails
<1>4. /\ scan'.phase = "manifests" /\ scan'.counter = scan.counter /\ scan'.names = scan.names
      /\ scan'.read = scan.read \cup {sequence} /\ scan'.represented = scan.represented \cup {manifest.run}
      /\ scan'.scope = scan.scope /\ scan'.partial = scan.partial
      /\ ~scan'.found <=> ~scan.found /\ ~fails
  BY <1>1, <1>2, <1>3 DEF ScanShape
<1>5. ListedAll'
  <2> SUFFICES ASSUME Undisturbed
               PROVE  /\ scan.names = DOMAIN library.chain
                      /\ scan'.represented = RunsOf(scan.read)'
                      /\ ~scan'.found =>
                           /\ RunsOf(scan.read)' \subseteq Succeeded
                           /\ \A m, n \in scan'.read : library.chain[m].run = library.chain[n].run => m = n
    BY <1>2, <1>4 DEF ListedAll, Undisturbed, Reading
  <2>1. /\ scan.names = DOMAIN library.chain /\ scan.represented = RunsOf(scan.read)
        /\ ~scan.found =>
             /\ RunsOf(scan.read) \subseteq Succeeded
             /\ \A m, n \in scan.read : library.chain[m].run = library.chain[n].run => m = n
    BY <1>2 DEF VerdictInv, ListedAll
  <2>2. RunsOf(scan.read)' = RunsOf(scan.read) \cup {manifest.run}
    BY <1>2, <1>4 DEF RunsOf
  <2>3. ~fails => manifest.run \notin scan.represented /\ manifest.run \in Succeeded
    BY DEF fails, RunRecorded, Succeeded
  <2>4. \A n \in scan.read : library.chain[n].run \in RunsOf(scan.read)
    BY DEF RunsOf
  <2> HIDE DEF sequence
  <2> QED
    BY <1>4, <2>1, <2>2, <2>3, <2>4
<1>6. ComparedAll'
  BY <1>4 DEF ComparedAll, WithPlacements, WithImages, WithRuns, Replayed, Comparing, Recording
<1>7. NothingWrong'
  <2> SUFFICES ASSUME Undisturbed, Whole PROVE ~fails
    BY <1>2, <1>4 DEF VerdictInv, NothingWrong, Undisturbed
  <2>1. /\ ~scan.found /\ scan.names = DOMAIN library.chain /\ scan.represented = RunsOf(scan.read)
    BY <1>2 DEF VerdictInv, NothingWrong, ListedAll
  <2>2. scan.read \subseteq scan.names /\ scan.read = 1 .. Cardinality(scan.read)
    BY <1>1, <1>2, <2>1 DEF ClaimsReplayed, Undisturbed
  <2>3. scan.names = 1 .. Cardinality(scan.names)
    BY <2>1 DEF Whole
  <2>4. IsFiniteSet(scan.names) /\ IsFiniteSet(scan.read)
        /\ Cardinality(scan.names) \in Nat /\ Cardinality(scan.read) \in Nat
    BY <1>1, <2>1, <2>2, FS_Subset, FS_CardinalityType DEF LibraryShape, Numbered
  <2>5. sequence \in scan.names \ scan.read /\ \A n \in scan.names \ scan.read : sequence <= n
    <3>1. scan.names \subseteq Nat
      BY <1>1, <2>1 DEF LibraryShape, Numbered
    <3>2. scan.names \ scan.read \in SUBSET Nat
      BY <3>1
    <3>3. scan.names \ scan.read # {}
      BY <1>1, <2>2
    <3>4. PICK least \in scan.names \ scan.read : \A n \in scan.names \ scan.read : least <= n
      BY <3>2, <3>3, LeastNatural
    <3> QED
      BY <3>2, <3>4 DEF Min
  <2>6. sequence = 1 \/ sequence - 1 \in scan.read
    <3> DEFINE k == Cardinality(scan.read)
               n == Cardinality(scan.names)
    <3>1. k \in Nat /\ n \in Nat /\ scan.read = 1 .. k /\ scan.names = 1 .. n
      BY <2>2, <2>3, <2>4
    <3> HIDE DEF sequence, k, n
    <3>2. sequence \in Nat /\ sequence > k /\ sequence <= n /\ sequence >= 1
      BY <2>5, <3>1
    <3>3. \A i \in (k + 1) .. n : sequence <= i
      BY <2>5, <3>1
    <3>4. k + 1 \in (k + 1) .. n
      BY <3>1, <3>2
    <3>5. sequence = k + 1
      BY <3>1, <3>2, <3>3, <3>4
    <3> QED
      BY <3>1, <3>5
  <2>7. sequence \in DOMAIN library.chain
    BY <2>1, <2>5
  <2>8. Follows(sequence)
    BY <2>6, <2>7 DEF Follows, Whole
  <2>9. ClaimsHold(manifest)
    BY <2>7 DEF Whole
  <2>10. manifest.run \in Succeeded
    BY <2>7 DEF Whole, Recorded
  <2>11. manifest.run \notin RunsOf(scan.read)
    <3>1. \A m \in scan.read : library.chain[m].run # manifest.run
      BY <2>1, <2>2, <2>5, <2>7 DEF Whole
    <3> QED
      BY <3>1 DEF RunsOf
  <2>12. RunRecorded(manifest.run)
    BY <2>1, <2>10, <2>11 DEF RunRecorded, Succeeded
  <2> QED
    BY <2>8, <2>9, <2>12 DEF fails
<1> QED
  BY <1>2, <1>5, <1>6, <1>7 DEF VerdictInv

LEMMA CompareIsQuiet ==
  ASSUME ScanInv, VerdictInv, EndClaims \/ BeginMedia \/ ComparePlacements \/ CompareImages \/ EndMedia
                                \/ CompareRuns \/ RelistManifests \/ BeginRecords
  PROVE  VerdictInv'
<1>1. PICK phase \in {"manifests", "media", "snapshot", "inventory", "compared", "runs", "relist", "metadata"} :
        Looks(phase)
  BY DEF EndClaims, BeginMedia, ComparePlacements, CompareImages, EndMedia, CompareRuns, RelistManifests,
         BeginRecords
<1>2. /\ TablesKept' /\ WriterInv' /\ library' = library /\ version' = version /\ quiet' = quiet
      /\ scan.phase = phase /\ Succeeded' = Succeeded
      /\ Whole' <=> Whole
  BY <1>1, LookKeepsWriter
<1>3. ScanShape /\ ClaimsReplayed /\ MediaCompared
  BY DEF ScanInv
<1>4. PICK moved \in BOOLEAN :
        \/ /\ EndClaims /\ phase = "manifests" /\ scan.names = scan.read
           /\ (moved <=> version # scan.counter)
           /\ scan' = [scan EXCEPT !.phase = "media", !.found = @ \/ moved, !.partial = @ \/ moved]
        \/ /\ BeginMedia /\ phase = "media" /\ ~moved
           /\ scan' = [scan EXCEPT !.phase = IF scan.names = {} THEN "runs" ELSE "snapshot", !.counter = version]
        \/ /\ ComparePlacements /\ phase = "snapshot" /\ (moved <=> Latest.placements # library.placements)
           /\ scan' = [scan EXCEPT !.phase = "inventory", !.found = @ \/ moved]
        \/ /\ CompareImages /\ phase = "inventory" /\ (moved <=> Latest.media # library.media)
           /\ scan' = [scan EXCEPT !.phase = "compared", !.found = @ \/ moved]
        \/ /\ EndMedia /\ phase = "compared" /\ (moved <=> version # scan.counter)
           /\ scan' = [scan EXCEPT !.phase = "runs", !.found = @ \/ moved, !.partial = @ \/ moved]
        \/ /\ CompareRuns /\ phase = "runs" /\ (moved <=> ~(Succeeded \subseteq scan.represented))
           /\ scan' = [scan EXCEPT !.phase = "relist", !.found = @ \/ moved]
        \/ /\ RelistManifests /\ phase = "relist" /\ (moved <=> DOMAIN library.chain # scan.names)
           /\ scan' = [scan EXCEPT !.phase = "metadata", !.found = @ \/ moved, !.partial = @ \/ moved]
        \/ /\ BeginRecords /\ phase = "metadata" /\ ~moved
           /\ scan' = [scan EXCEPT !.phase = "count", !.counter = version]
  <2>1. CASE EndClaims
    BY <1>2, <2>1 DEF EndClaims, Looks, Stable
  <2>2. CASE BeginMedia
    BY <1>2, <2>2 DEF BeginMedia, Looks
  <2>3. CASE ComparePlacements
    BY <1>2, <2>3 DEF ComparePlacements, Looks
  <2>4. CASE CompareImages
    BY <1>2, <2>4 DEF CompareImages, Looks
  <2>5. CASE EndMedia
    BY <1>2, <2>5 DEF EndMedia, Looks, Stable
  <2>6. CASE CompareRuns
    <3>1. (\E r \in DOMAIN library.runs : library.runs[r].succeeded /\ r \notin scan.represented)
            <=> ~(Succeeded \subseteq scan.represented)
      BY DEF Succeeded
    <3> QED
      BY <1>2, <2>6, <3>1 DEF CompareRuns, Looks
  <2>7. CASE RelistManifests
    BY <1>2, <2>7 DEF RelistManifests, Looks
  <2>8. CASE BeginRecords
    BY <1>2, <2>8 DEF BeginRecords, Looks
  <2> QED
    BY <2>1, <2>2, <2>3, <2>4, <2>5, <2>6, <2>7, <2>8
<1>5. /\ scan'.names = scan.names /\ scan'.read = scan.read /\ scan'.represented = scan.represented
      /\ scan'.scope = scan.scope
      /\ scan'.found => scan.found \/ moved
      /\ scan'.partial => scan.partial \/ moved
      /\ ~scan'.found => ~scan.found /\ ~moved
      /\ phase = "manifests" => scan'.phase = "media"
      /\ phase = "media" => scan'.counter = version /\ scan'.phase = IF scan.names = {} THEN "runs" ELSE "snapshot"
      /\ phase = "snapshot" => scan'.phase = "inventory" /\ scan'.counter = scan.counter
      /\ phase = "inventory" => scan'.phase = "compared" /\ scan'.counter = scan.counter
      /\ phase = "compared" => scan'.phase = "runs"
      /\ phase = "runs" => scan'.phase = "relist"
      /\ phase = "relist" => scan'.phase = "metadata"
      /\ phase = "metadata" => scan'.phase = "count" /\ scan'.counter = version
  <2>1. /\ scan'.names = scan.names /\ scan'.read = scan.read /\ scan'.represented = scan.represented
        /\ scan'.scope = scan.scope
        /\ scan'.found => scan.found \/ moved
        /\ scan'.partial => scan.partial \/ moved
        /\ ~scan'.found => ~scan.found /\ ~moved
    BY <1>3, <1>4 DEF ScanShape
  <2>2. /\ phase = "manifests" => scan'.phase = "media"
        /\ phase = "media" => scan'.counter = version /\ scan'.phase = IF scan.names = {} THEN "runs" ELSE "snapshot"
        /\ phase = "snapshot" => scan'.phase = "inventory" /\ scan'.counter = scan.counter
        /\ phase = "inventory" => scan'.phase = "compared" /\ scan'.counter = scan.counter
        /\ phase = "compared" => scan'.phase = "runs"
        /\ phase = "runs" => scan'.phase = "relist"
        /\ phase = "relist" => scan'.phase = "metadata"
        /\ phase = "metadata" => scan'.phase = "count" /\ scan'.counter = version
    BY <1>3, <1>4 DEF ScanShape
  <2> QED
    BY <2>1, <2>2
<1>6. Settles /\ scan'.phase \in Replayed /\ phase \in {"manifests"} \cup Replayed
  BY <1>1, <1>5 DEF Settles, Replayed, Comparing, Recording
<1>7. ListedAll'
  BY <1>1, <1>5, <1>6, ListStays
<1>8. ComparedAll'
  <2>1. scan'.phase \in WithPlacements => phase \in WithPlacements \/ scan.names = {}
                                            \/ scan'.found \/ Latest.placements = library.placements
    BY <1>1, <1>4, <1>5 DEF WithPlacements, Replayed, Comparing, Recording
  <2>2. scan'.phase \in WithImages => phase \in WithImages \/ scan.names = {}
                                        \/ scan'.found \/ Latest.media = library.media
    BY <1>1, <1>4, <1>5 DEF WithImages, Replayed, Comparing, Recording
  <2>3. scan'.phase \in WithRuns => phase \in WithRuns \/ scan'.found \/ Succeeded \subseteq scan.represented
    BY <1>1, <1>4, <1>5 DEF WithRuns, Recording
  <2> QED
    BY <1>1, <1>5, <1>6, <2>1, <2>2, <2>3, ComparedStays
<1>9. NothingWrong'
  <2> SUFFICES ASSUME Undisturbed, Whole PROVE NothingWrong'
    BY <1>2, <1>5 DEF NothingWrong, Undisturbed
  <2>1. /\ ~scan.found /\ ~scan.partial
        /\ phase \in {"manifests"} \cup Comparing => scan.counter = version
    BY <1>1, <1>2 DEF VerdictInv, NothingWrong
  <2>2. /\ scan.names = DOMAIN library.chain /\ scan.represented = RunsOf(scan.read)
        /\ phase # "manifests" => scan.read = scan.names
    BY <1>2, <1>3, <1>6 DEF VerdictInv, ListedAll, ClaimsReplayed, Undisturbed
  <2>3. phase \in {"snapshot", "inventory"} => scan.names # {}
    BY <1>2, <1>3 DEF MediaCompared, Comparing, Undisturbed
  <2>4. scan.names # {} => Latest.placements = library.placements /\ Latest.media = library.media
    BY <2>2 DEF Whole, Latest
  <2>5. phase = "runs" => Succeeded \subseteq scan.represented
    BY <2>2 DEF Whole, Recorded, RunsOf
  <2>6. ~moved
    BY <1>1, <1>4, <2>1, <2>2, <2>3, <2>4, <2>5 DEF Comparing
  <2>7. ~scan'.found /\ ~scan'.partial
    BY <1>5, <2>1, <2>6
  <2>8. scan'.phase \in {"count"} \cup Comparing => scan'.counter = version
    BY <1>1, <1>5, <2>1 DEF Comparing
  <2>9. scan'.phase \notin {"objects", "records", "recount", "counted", "manifests"}
    BY <1>1, <1>5
  <2> QED
    BY <1>2, <2>7, <2>8, <2>9 DEF NothingWrong
<1> QED
  BY <1>2, <1>7, <1>8, <1>9 DEF VerdictInv

LEMMA CountRecordsIsQuiet ==
  ASSUME ScanInv, VerdictInv, CountRecords
  PROVE  VerdictInv'
<1>1. Looks("count") /\ ScanShape /\ LibraryShape
  BY DEF CountRecords, ScanInv
<1>2. /\ TablesKept' /\ WriterInv' /\ library' = library /\ version' = version /\ quiet' = quiet
      /\ scan.phase = "count" /\ Records' = Records
      /\ Whole' <=> Whole
  BY <1>1, LookKeepsWriter
<1>3. scan' = [scan EXCEPT !.phase = "records", !.total = Cardinality(Records),
                           !.examined = 0, !.cursor = <<0, 0>>]
  BY DEF CountRecords
<1>4. /\ scan'.phase = "records" /\ scan'.total = Cardinality(Records) /\ scan'.examined = 0
      /\ scan'.cursor = <<0, 0>> /\ scan'.counter = scan.counter
      /\ scan'.names = scan.names /\ scan'.read = scan.read /\ scan'.represented = scan.represented
      /\ scan'.scope = scan.scope /\ scan'.found = scan.found /\ scan'.partial = scan.partial
  BY <1>1, <1>3 DEF ScanShape
<1>5. Settles
  BY <1>4 DEF Settles
<1>6. ListedAll'
  BY <1>1, <1>4, <1>5, ListStays DEF Replayed, Recording
<1>7. ComparedAll'
  BY <1>1, <1>4, <1>5, ComparedStays DEF WithPlacements, WithImages, WithRuns, Replayed, Comparing, Recording
<1>8. Cardinality(Until(Records, scan.cursor)') = 0
  <2>1. Records \in SUBSET (Categories \X (1 .. MaxRevision))
    BY DEF Records
  <2>2. Until(Records, scan.cursor)' = {}
    BY <1>2, <1>4, <2>1 DEF Until, Precedes, Categories
  <2> QED
    BY <2>2, FS_EmptySet
<1>9. NothingWrong'
  BY <1>2, <1>4, <1>8 DEF VerdictInv, NothingWrong, Undisturbed, Comparing
<1> QED
  BY <1>2, <1>6, <1>7, <1>9 DEF VerdictInv

LEMMA RecordPageIsQuiet ==
  ASSUME ScanInv, VerdictInv, RecordPage
  PROVE  VerdictInv'
<1> DEFINE limit == Min({PageSize, scan.total - scan.examined})
           batch == PageOf(Records, scan.cursor, limit)
<1>1. Looks("records") /\ scan.examined < scan.total /\ ScanShape /\ LibraryShape
  BY DEF RecordPage, ScanInv
<1>2. /\ TablesKept' /\ WriterInv' /\ library' = library /\ version' = version /\ quiet' = quiet
      /\ scan.phase = "records" /\ Records' = Records
      /\ Whole' <=> Whole
  BY <1>1, LookKeepsWriter
<1>3. limit \in Int /\ 1 <= limit
  BY <1>1, LesserOfTwo, ScanAssumption DEF ScanShape
<1>4. Records \in SUBSET (Nat \X Nat) /\ IsFiniteSet(Records)
  BY <1>1, RecordsFinite
<1> HIDE DEF limit
<1>5. IF batch = {}
      THEN scan' = [scan EXCEPT !.phase = "counted", !.partial = TRUE, !.found = TRUE]
      ELSE scan' = [scan EXCEPT !.examined = @ + Cardinality(batch), !.cursor = LastOf(batch),
                      !.found = @ \/ \E record \in batch : ~RecordSound(record)]
  BY DEF RecordPage, limit
<1> HIDE DEF batch
<1>6. PICK unsound : unsound = \E record \in batch : ~RecordSound(record)
  OBVIOUS
<1>7. \/ batch = {} /\ scan' = [scan EXCEPT !.phase = "counted", !.partial = TRUE, !.found = TRUE]
      \/ /\ batch # {}
         /\ scan' = [scan EXCEPT !.examined = @ + Cardinality(batch), !.cursor = LastOf(batch),
                       !.found = @ \/ unsound]
  BY <1>5, <1>6
<1>8. /\ scan'.phase \in Recording /\ scan'.counter = scan.counter /\ scan'.total = scan.total
      /\ scan'.names = scan.names /\ scan'.read = scan.read /\ scan'.represented = scan.represented
      /\ scan'.scope = scan.scope
      /\ ~scan'.found => ~scan.found
  BY <1>1, <1>2, <1>7 DEF ScanShape, Recording
<1>9. Settles
  BY <1>8 DEF Settles
<1>10. ListedAll'
  BY <1>1, <1>8, <1>9, ListStays DEF Replayed, Recording
<1>11. ComparedAll'
  BY <1>1, <1>8, <1>9, ComparedStays DEF WithPlacements, WithImages, WithRuns, Replayed, Comparing, Recording
<1>12. NothingWrong'
  <2> SUFFICES ASSUME Undisturbed, Whole PROVE NothingWrong'
    BY <1>2, <1>8 DEF NothingWrong, Undisturbed
  <2>1. /\ ~scan.found /\ ~scan.partial /\ scan.counter = version
        /\ scan.total = Cardinality(Records)
        /\ scan.examined = Cardinality(Until(Records, scan.cursor))
    BY <1>2 DEF VerdictInv, NothingWrong
  <2>2. Until(Records, scan.cursor) # Records
    BY <1>1, <2>1 DEF ScanShape
  <2>3. batch # {}
    BY <1>1, <1>3, <1>4, <2>2, PageNotEmpty DEF ScanShape, batch
  <2>4. /\ batch \subseteq Records
        /\ Until(Records, LastOf(batch)) = Until(Records, scan.cursor) \cup batch
        /\ Cardinality(Until(Records, LastOf(batch)))
             = Cardinality(Until(Records, scan.cursor)) + Cardinality(batch)
    BY <1>1, <1>3, <1>4, <2>3, PagesHaveNoGap DEF ScanShape, batch
  <2>5. ~unsound
    BY <1>6, <2>4 DEF Whole
  <2>6. /\ scan'.phase = "records" /\ ~scan'.found /\ ~scan'.partial
        /\ scan'.examined = scan.examined + Cardinality(batch) /\ scan'.cursor = LastOf(batch)
    BY <1>1, <1>2, <1>7, <2>1, <2>3, <2>5 DEF ScanShape
  <2>7. Until(Records, scan.cursor)' = Until(Records, LastOf(batch))
    BY <1>2, <2>6 DEF Until, Precedes
  <2>8. scan'.examined = Cardinality(Until(Records, scan.cursor)')
    BY <2>1, <2>4, <2>6, <2>7
  <2> QED
    BY <1>2, <1>8, <2>1, <2>6, <2>8 DEF NothingWrong, Comparing
<1> QED
  BY <1>2, <1>10, <1>11, <1>12 DEF VerdictInv

LEMMA RecordRecountIsQuiet ==
  ASSUME ScanInv, VerdictInv, RecordRecount
  PROVE  VerdictInv'
<1> DEFINE short == scan.examined # scan.total
<1>1. PICK phase \in Recording : Looks(phase) /\ (phase = "records" => ~short)
  BY DEF RecordRecount, Recording
<1>2. /\ TablesKept' /\ WriterInv' /\ library' = library /\ version' = version /\ quiet' = quiet
      /\ scan.phase = phase /\ Records' = Records
      /\ Whole' <=> Whole
  BY <1>1, LookKeepsWriter
<1>3. ScanShape
  BY DEF ScanInv
<1>4. scan' = [scan EXCEPT !.phase = "done", !.found = @ \/ CatalogMoved,
                 !.partial = @ \/ CatalogMoved \/ short]
  BY DEF RecordRecount
<1> HIDE DEF short
<1>5. PICK moved : moved = CatalogMoved
  OBVIOUS
<1>6. scan' = [scan EXCEPT !.phase = "done", !.found = @ \/ moved, !.partial = @ \/ moved \/ short]
  BY <1>4, <1>5
<1>7. /\ scan'.phase = "done"
      /\ scan'.names = scan.names /\ scan'.read = scan.read /\ scan'.represented = scan.represented
      /\ scan'.scope = scan.scope
      /\ ~scan'.found => ~scan.found
      /\ ~scan.found /\ ~moved => ~scan'.found
      /\ ~scan.partial /\ ~moved /\ ~short => ~scan'.partial
  BY <1>3, <1>6 DEF ScanShape
<1>8. Settles /\ phase \in Replayed
  BY <1>7 DEF Settles, Replayed
<1>9. ListedAll'
  BY <1>1, <1>7, <1>8, ListStays DEF Replayed
<1>10. ComparedAll'
  BY <1>1, <1>7, <1>8, ComparedStays DEF WithPlacements, WithImages, WithRuns, Replayed, Comparing, Recording
<1>11. NothingWrong'
  <2> SUFFICES ASSUME Undisturbed, Whole PROVE ~scan'.found /\ ~scan'.partial
    BY <1>2, <1>7 DEF NothingWrong, Undisturbed, Comparing
  <2>1. /\ ~scan.found /\ ~scan.partial /\ scan.counter = version /\ phase = "records"
        /\ scan.total = Cardinality(Records)
    BY <1>1, <1>2 DEF VerdictInv, NothingWrong, Recording
  <2>2. ~moved /\ ~short
    BY <1>1, <1>5, <2>1 DEF CatalogMoved, OnlyCountMoved
  <2> QED
    BY <1>7, <2>1, <2>2
<1> QED
  BY <1>2, <1>9, <1>10, <1>11 DEF VerdictInv

LEMMA VerdictInvHolds == ScanSpec => [](ScanInv /\ VerdictInv)
<1>1. ScanInit => VerdictInv
  <2> SUFFICES ASSUME ScanInit PROVE VerdictInv
    OBVIOUS
  <2>1. library \in Libraries /\ writer = IdleWriter /\ scan = NoScan /\ intact = Whole
    BY DEF ScanInit
  <2>2. TablesKept
    <3>1. /\ library.objects \cup library.fts \subseteq 1 .. MaxRevision
          /\ DOMAIN library.revisions \subseteq 1 .. MaxRevision
          /\ DOMAIN library.heads \subseteq 1 .. MaxRevision
          /\ DOMAIN library.checkpoints \subseteq 1 .. MaxRevision
          /\ DOMAIN library.documents \subseteq 1 .. MaxRevision
          /\ DOMAIN library.media \subseteq 1 .. MaxRevision
          /\ DOMAIN library.placements \subseteq 1 .. MaxRevision
          /\ Numbered(DOMAIN library.runs)
      BY <2>1, ScanAssumption
    <3>2. /\ \A r \in DOMAIN library.revisions : library.revisions[r].parent \in 0 .. r
          /\ \A d \in DOMAIN library.documents : DOMAIN library.documents[d] = {"page", "revision"}
      BY <2>1, ScanAssumption
    <3> QED
      BY <3>1, <3>2 DEF TablesKept
  <2>3. writer.step = "idle"
    BY <2>1 DEF IdleWriter
  <2>4. WriterInv
    BY <2>1, <2>3 DEF WriterInv, WriterSteps
  <2>5. scan.phase = "none" /\ scan.represented = {}
    BY <2>1 DEF NoScan
  <2> QED
    BY <2>2, <2>4, <2>5
       DEF VerdictInv, ListedAll, ComparedAll, WithPlacements, WithImages, WithRuns, NothingWrong,
           Replayed, Comparing, Recording
<1>2. ScanInv /\ VerdictInv /\ [ScanNext]_scanVars => VerdictInv'
  <2> SUFFICES ASSUME ScanInv, VerdictInv, [ScanNext]_scanVars PROVE VerdictInv'
    OBVIOUS
  <2>1. CASE ScanStep
    BY <2>1, BeginIsQuiet, ObjectPageIsQuiet, ObjectRecountIsQuiet, ListManifestsIsQuiet, ReadManifestIsQuiet,
       CompareIsQuiet, CountRecordsIsQuiet, RecordPageIsQuiet, RecordRecountIsQuiet DEF ScanStep
  <2>2. CASE intact /\ WriterStep
    BY <2>2, WriterKeepsVerdict
  <2>3. CASE UNCHANGED scanVars
    <3>1. library' = library /\ writer' = writer /\ version' = version /\ scan' = scan
          /\ intact' = intact /\ quiet' = quiet
      BY <2>3 DEF scanVars
    <3>2. /\ TablesKept' /\ WriterInv'
          /\ Whole' <=> Whole
          /\ Succeeded' = Succeeded /\ Records' = Records
      BY <3>1, SameLibrary DEF VerdictInv, WriterInv
    <3>3. ListedAll'
      BY <3>1, <3>2 DEF VerdictInv, ListedAll, Undisturbed, RunsOf
    <3>4. ComparedAll'
      BY <3>1, <3>2 DEF VerdictInv, ComparedAll, WithPlacements, WithImages, WithRuns, Undisturbed, Latest
    <3>5. NothingWrong'
      <4>1. Until(ObjectEntries, scan.cursor)' = Until(ObjectEntries, scan.cursor)
            /\ Until(Records, scan.cursor)' = Until(Records, scan.cursor)
        BY <3>1, <3>2 DEF Until, Precedes, ObjectEntries
      <4> QED
        BY <3>1, <3>2, <4>1 DEF VerdictInv, NothingWrong, Undisturbed
    <3> QED
      BY <3>2, <3>3, <3>4, <3>5 DEF VerdictInv
  <2> QED
    BY <2>1, <2>2, <2>3 DEF ScanNext
<1> QED
  BY <1>1, <1>2, ScanInvHolds, PTL DEF ScanSpec

\* What a quiet verification ends with is what the library is.
LEMMA VerdictIsWhole ==
  ASSUME ScanInv, VerdictInv, quiet, scan.phase = "done", scan.scope = "full"
  PROVE  Verified <=> Whole
<1>1. Undisturbed
  BY DEF Undisturbed
<1>2. ASSUME Whole PROVE Verified
  BY <1>1, <1>2 DEF VerdictInv, NothingWrong, Verified
<1>3. ASSUME Verified PROVE Whole
  <2>1. ~scan.found /\ ~scan.partial
    BY <1>3 DEF Verified
  <2>2. library.objects \subseteq library.readable
    BY <2>1 DEF ScanInv, ObjectsReadable, Reading
  <2>3. \A record \in Records : RecordSound(record)
    BY <2>1 DEF ScanInv, RecordsSound
  <2>4. scan.phase \in Replayed /\ scan.phase \in {"relist", "metadata", "count", "done"} \cup Recording
        /\ scan.phase \in Replayed \ {"media", "snapshot"}
        /\ scan.phase \in Replayed \ {"media", "snapshot", "inventory"}
    BY DEF Replayed
  <2>5. /\ scan.read = scan.names /\ scan.read = 1 .. Cardinality(scan.read)
        /\ \A n \in scan.read : ClaimsHold(library.chain[n]) /\ library.chain[n].predecessor = n - 1
    BY <2>1, <2>4 DEF ScanInv, ClaimsReplayed
  <2>6. /\ scan.names = DOMAIN library.chain /\ scan.represented = RunsOf(scan.read)
        /\ RunsOf(scan.read) \subseteq Succeeded
        /\ \A m, n \in scan.read : library.chain[m].run = library.chain[n].run => m = n
    BY <1>1, <2>1, <2>4 DEF VerdictInv, ListedAll
  <2>7. /\ scan.names # {} => Latest.placements = library.placements /\ Latest.media = library.media
        /\ Succeeded \subseteq scan.represented
    BY <1>1, <2>1, <2>4 DEF VerdictInv, ComparedAll, WithPlacements, WithImages, WithRuns
  <2>8. Recorded = Succeeded
    BY <2>5, <2>6, <2>7 DEF Recorded, RunsOf
  <2>9. DOMAIN library.chain # {} =>
          LET latest == library.chain[Max(DOMAIN library.chain)]
          IN latest.placements = library.placements /\ latest.media = library.media
    BY <2>6, <2>7 DEF Latest
  <2> QED
    BY <2>2, <2>3, <2>5, <2>6, <2>8, <2>9 DEF Whole
<1> QED
  BY <1>2, <1>3

\* What a full verification concludes of a library that is not written to
\* meanwhile is so both ways, and a library a run was just recorded in is verified
\* (verify_library_with_options, replay_manifest_claims, verify_metadata_records).
THEOREM ConclusionsHold == ScanSpec => []ConclusionHolds
<1>1. ScanInv /\ VerdictInv => QuietVerdict
  <2> SUFFICES ASSUME ScanInv, VerdictInv, quiet, scan.phase = "done", scan.scope = "full"
               PROVE  /\ writer.step = "idle" => (Verified <=> intact)
                      /\ writer.step = "recorded" => Verified
    BY DEF QuietVerdict
  <2>1. Verified <=> Whole
    BY VerdictIsWhole
  <2>2. WriterInv /\ TablesKept
    BY DEF VerdictInv
  <2>3. writer.step = "idle" => (intact <=> Whole)
    BY <2>2 DEF WriterInv
  <2>4. writer.step = "recorded" => Whole
    BY <2>2, RecordedIsWhole DEF WriterInv
  <2> QED
    BY <2>1, <2>3, <2>4
<1>2. []VerifiedIsSo /\ []QuietVerdict => []ConclusionHolds
  <2>1. VerifiedIsSo /\ QuietVerdict => ConclusionHolds
    BY DEF ConclusionHolds
  <2> QED
    BY <2>1, PTL
<1> QED
  BY <1>1, <1>2, VerdictInvHolds, VerifiedLibrariesAreSo, PTL
=============================================================================
