------------------------- MODULE PageHistoryProofs -------------------------
(***************************************************************************)
(* A page that one collection selects keeps a history without gaps, for    *)
(* every policy, every number of revisions and every batch limit.          *)
(*                                                                         *)
(* NoGap is not inductive: it says nothing while the bootstrap is under    *)
(* way.  HistoryInv adds what each step of a job knows: how far the        *)
(* history is filled from above (Filling) or from below (Streaming), and   *)
(* that nothing newer than that has been captured.                         *)
(*                                                                         *)
(* An export of the pages as of a time is as good as its calendar: the     *)
(* arithmetic is taken apart into eras, centuries and spans of four years  *)
(* (EraFacts, YearOf), so that a number of days and the name of a day say  *)
(* the same (CivilOfDay, DayBesideIs).  ExportInv adds to ExportsKept what *)
(* an exporter holds at each call of install_staged_export: a staged       *)
(* directory is in no listing (StagedHeld), a backup is where it was put   *)
(* (BackupHeld), and a name keeps a whole export that is not about to go,  *)
(* in every listing that a loss of power may leave (Kept).                 *)
(***************************************************************************)
EXTENDS PageHistory, Export, TLAPS

\* Everything from the oldest promised revision to the newest captured one.
Contiguous(c) ==
  base[c] # 0 =>
    \A t \in have, r \in Revision : base[c] <= r /\ r <= t => r \in have

Bootstrapping(c) ==
  job.at \in {"capturing", "listing", "filling", "completing"} =>
    /\ base[c] = 0
    /\ job.head \in 1 .. upstream
    /\ job.at # "capturing" => job.head \in have

\* The attempt has the newest captured revision, or fills down from it.
Filling(c) ==
  /\ job.at \in {"capturing", "listing"} => \A t \in have : t <= job.head
  /\ job.at = "completing" /\ policy[c].kind = "current" => \A t \in have : t <= job.head
  /\ job.at \in {"listing", "filling"} => policy[c].kind # "current"
  /\ job.at = "filling" \/ (job.at = "completing" /\ policy[c].kind # "current") =>
       /\ job.top <= upstream /\ job.next <= job.top
       /\ \A t \in have : t <= job.top
       /\ \A r \in Revision : job.next < r /\ r <= job.top => r \in have
  /\ job.at = "completing" /\ policy[c].kind # "current" =>
       \A r \in Revision :
         Oldest(policy[c], job.head, job.top) <= r /\ r <= job.top => r \in have

Streaming(c) ==
  /\ job.at \in {"streaming", "advancing"} => base[c] # 0 /\ job.head \in 1 .. upstream
  /\ job.at = "streaming" =>
       /\ job.next \in have /\ job.next < job.head
       /\ \A t \in have : t <= job.next
  /\ job.at = "advancing" => job.head \in have

HistoryInv ==
  /\ TypeOK
  /\ \A t \in have : t <= upstream
  /\ current # 0 => current \in have
  /\ job.at = "idle" => job = Idle
  /\ \A c \in Collection :
       /\ job.at # "idle" => job.of = c
       /\ Contiguous(c) /\ Bootstrapping(c) /\ Filling(c) /\ Streaming(c)

-----------------------------------------------------------------------------
\* A page not captured yet: nothing is promised and no job has begun.
LEMMA InvInit == Init => HistoryInv
  BY PageHistoryAssumption DEF Init, HistoryInv, TypeOK, Idle, Steps, Revision,
     Contiguous, Bootstrapping, Filling, Streaming

\* Every step of a job, of the wiki and every abandoned attempt keeps HistoryInv.
LEMMA InvStep ==
  ASSUME NEW only, Collection = {only}
  PROVE  HistoryInv /\ [Next]_vars => HistoryInv'
<1> SUFFICES ASSUME HistoryInv, [Next]_vars PROVE HistoryInv'
  OBVIOUS
<1> USE PageHistoryAssumption
<1>t. TypeOK
  BY DEF HistoryInv
<1>j. /\ job.at \in Steps /\ job.of \in Collection \cup {NoCollection} /\ job.head \in 0 .. MaxRevision
      /\ job.top \in 0 .. MaxRevision /\ job.next \in 0 .. MaxRevision
      /\ job = [at |-> job.at, of |-> job.of, head |-> job.head,
                top |-> job.top, next |-> job.next]
  BY <1>t DEF TypeOK
<1>i. /\ \A t \in have : t <= upstream
      /\ current # 0 => current \in have
      /\ job.at = "idle" => job = Idle
      /\ job.at # "idle" => job.of = only
      /\ Contiguous(only) /\ Bootstrapping(only) /\ Filling(only) /\ Streaming(only)
  BY DEF HistoryInv
<1>q. ASSUME TypeOK', (\A t \in have : t <= upstream)', (current # 0 => current \in have)',
             (job.at = "idle" => job = Idle)', (job.at # "idle" => job.of = only)',
             Contiguous(only)', Bootstrapping(only)', Filling(only)', Streaming(only)'
      PROVE  HistoryInv'
  BY <1>q DEF HistoryInv, Contiguous, Bootstrapping, Filling, Streaming
<1>1. CASE Edit
  <2>1. TypeOK'
    BY <1>1, <1>t DEF Edit, TypeOK, Revision
  <2>2. Contiguous(only)' /\ Bootstrapping(only)' /\ Filling(only)' /\ Streaming(only)'
    BY <1>1, <1>t, <1>i, <1>j DEF Edit, TypeOK, Revision, Contiguous, Bootstrapping, Filling, Streaming
  <2> QED
    BY <1>1, <1>t, <1>i, <2>1, <2>2, <1>q DEF Edit, TypeOK, Revision
<1>2. ASSUME NEW c \in Collection, StartBootstrap(c) PROVE HistoryInv'
  <2>1. TypeOK'
    BY <1>2, <1>t DEF StartBootstrap, TypeOK, Revision, Steps
  <2>2. Contiguous(only)' /\ Bootstrapping(only)' /\ Filling(only)' /\ Streaming(only)'
    BY <1>2, <1>t, <1>i, <1>j DEF StartBootstrap, TypeOK, Revision, Contiguous, Bootstrapping, Filling, Streaming
  <2> QED
    BY <1>2, <1>t, <1>i, <2>1, <2>2, <1>q DEF StartBootstrap, TypeOK, Revision
<1>3. CASE CaptureHead
  <2>1. TypeOK'
    BY <1>3, <1>t, <1>i DEF CaptureHead, TypeOK, Revision, Steps, Bootstrapping
  <2>2. Contiguous(only)' /\ Bootstrapping(only)' /\ Filling(only)' /\ Streaming(only)'
    BY <1>3, <1>t, <1>i, <1>j DEF CaptureHead, TypeOK, Revision, Contiguous, Bootstrapping, Filling, Streaming
  <2> QED
    BY <1>3, <1>t, <1>i, <1>j, <2>1, <2>2, <1>q DEF CaptureHead, TypeOK, Revision, Bootstrapping
<1>4. CASE ListHistory
  <2>1. TypeOK'
    <3>1. job' \in [at : Steps, of : Collection \cup {NoCollection}, head : 0 .. MaxRevision,
                    top : 0 .. MaxRevision, next : 0 .. MaxRevision]
      <4>1. job' = [at |-> "filling", of |-> job.of, head |-> job.head,
                    top |-> upstream, next |-> upstream]
        BY <1>4, <1>t DEF ListHistory, TypeOK
      <4> QED
        BY <4>1, <1>t, <1>j DEF TypeOK, Revision, Steps
    <3> QED
      BY <1>4, <1>t, <3>1 DEF ListHistory, TypeOK
  <2>2. Contiguous(only)' /\ Bootstrapping(only)' /\ Filling(only)' /\ Streaming(only)'
    BY <1>4, <1>t, <1>i, <1>j DEF ListHistory, TypeOK, Revision, Idle, Contiguous, Bootstrapping, Filling, Streaming
  <2> QED
    BY <1>4, <1>t, <1>i, <1>j, <2>1, <2>2, <1>q DEF ListHistory, TypeOK, Revision, Idle, Bootstrapping, Filling, Streaming
<1>5. CASE CaptureOlder
  <2>1. TypeOK'
    BY <1>5, <1>t, <1>i, <1>j DEF CaptureOlder, TypeOK, Revision, Steps, Idle, Bootstrapping, Streaming
  <2>2. Contiguous(only)' /\ Bootstrapping(only)' /\ Filling(only)' /\ Streaming(only)'
    BY <1>5, <1>t, <1>i, <1>j DEF CaptureOlder, TypeOK, Revision, Idle, Contiguous, Bootstrapping, Filling, Streaming
  <2> QED
    BY <1>5, <1>t, <1>i, <1>j, <2>1, <2>2, <1>q DEF CaptureOlder, TypeOK, Revision, Idle, Bootstrapping, Filling, Streaming
<1>6. CASE HistoryFilled
  <2>1. TypeOK'
    BY <1>6, <1>t, <1>i, <1>j DEF HistoryFilled, TypeOK, Revision, Steps, Idle, Bootstrapping, Streaming
  <2>2. Contiguous(only)' /\ Bootstrapping(only)' /\ Filling(only)' /\ Streaming(only)'
    BY <1>6, <1>t, <1>i, <1>j DEF HistoryFilled, TypeOK, Revision, Idle, Contiguous, Bootstrapping, Filling, Streaming, Included, Oldest, Policy
  <2> QED
    BY <1>6, <1>t, <1>i, <1>j, <2>1, <2>2, <1>q DEF HistoryFilled, TypeOK, Revision, Idle, Bootstrapping, Filling, Streaming
<1>7. CASE CompleteBootstrap
  <2>1. TypeOK'
    BY <1>7, <1>t, <1>i, <1>j DEF CompleteBootstrap, TypeOK, Revision, Steps, Idle, Bootstrapping, Streaming, Oldest, Policy
  <2>2. Contiguous(only)' /\ Bootstrapping(only)' /\ Filling(only)' /\ Streaming(only)'
    BY <1>7, <1>t, <1>i, <1>j DEF CompleteBootstrap, TypeOK, Revision, Idle, Contiguous, Bootstrapping, Filling, Streaming, Oldest, Policy
  <2> QED
    BY <1>7, <1>t, <1>i, <1>j, <2>1, <2>2, <1>q DEF CompleteBootstrap, TypeOK, Revision, Idle, Bootstrapping, Filling, Streaming
<1>8. ASSUME NEW c \in Collection, StartReconcile(c) PROVE HistoryInv'
  <2>1. TypeOK'
    BY <1>8, <1>t, <1>i, <1>j DEF StartReconcile, TypeOK, Revision, Steps, Idle, Bootstrapping, Streaming, Tips
  <2>2. Contiguous(only)' /\ Bootstrapping(only)' /\ Filling(only)' /\ Streaming(only)'
    BY <1>8, <1>t, <1>i, <1>j DEF StartReconcile, TypeOK, Revision, Idle, Contiguous, Bootstrapping, Filling, Streaming, Tips
  <2> QED
    BY <1>8, <1>t, <1>i, <1>j, <2>1, <2>2, <1>q DEF StartReconcile, TypeOK, Revision, Idle, Bootstrapping, Filling, Streaming, Tips
<1>9. CASE CaptureNewer
  <2>1. TypeOK'
    <3>1. job.next + 1 \in Revision
      BY <1>9, <1>t, <1>i, <1>j DEF CaptureNewer, TypeOK, Revision
    <3>2. job' \in [at : Steps, of : Collection \cup {NoCollection}, head : 0 .. MaxRevision,
                    top : 0 .. MaxRevision, next : 0 .. MaxRevision]
      <4>1. job' = [at |-> IF job.next + 1 = job.head THEN "advancing" ELSE job.at,
                    of |-> job.of, head |-> job.head, top |-> job.top, next |-> job.next + 1]
        BY <1>9, <1>t DEF CaptureNewer, TypeOK
      <4> QED
        BY <4>1, <1>j, <3>1 DEF Revision, Steps
    <3> QED
      BY <1>9, <1>t, <3>1, <3>2 DEF CaptureNewer, TypeOK
  <2>2. Contiguous(only)' /\ Bootstrapping(only)' /\ Filling(only)' /\ Streaming(only)'
    BY <1>9, <1>t, <1>i, <1>j DEF CaptureNewer, TypeOK, Revision, Idle, Contiguous, Bootstrapping, Filling, Streaming
  <2> QED
    BY <1>9, <1>t, <1>i, <1>j, <2>1, <2>2, <1>q DEF CaptureNewer, TypeOK, Revision, Idle, Bootstrapping, Filling, Streaming
<1>10. CASE ExceedLimit
  <2>1. TypeOK'
    BY <1>10, <1>t, <1>i, <1>j DEF ExceedLimit, TypeOK, Revision, Steps, Idle, Bootstrapping, Streaming
  <2>2. Contiguous(only)' /\ Bootstrapping(only)' /\ Filling(only)' /\ Streaming(only)'
    BY <1>10, <1>t, <1>i, <1>j DEF ExceedLimit, TypeOK, Revision, Idle, Contiguous, Bootstrapping, Filling, Streaming
  <2> QED
    BY <1>10, <1>t, <1>i, <1>j, <2>1, <2>2, <1>q DEF ExceedLimit, TypeOK, Revision, Idle, Bootstrapping, Filling, Streaming
<1>11. CASE AdvanceHead
  <2>1. TypeOK'
    BY <1>11, <1>t, <1>i, <1>j DEF AdvanceHead, TypeOK, Revision, Steps, Idle, Bootstrapping, Streaming
  <2>2. Contiguous(only)' /\ Bootstrapping(only)' /\ Filling(only)' /\ Streaming(only)'
    BY <1>11, <1>t, <1>i, <1>j DEF AdvanceHead, TypeOK, Revision, Idle, Contiguous, Bootstrapping, Filling, Streaming
  <2> QED
    BY <1>11, <1>t, <1>i, <1>j, <2>1, <2>2, <1>q DEF AdvanceHead, TypeOK, Revision, Idle, Bootstrapping, Filling, Streaming
<1>12. CASE Abandon
  <2>1. TypeOK'
    BY <1>12, <1>t, <1>i, <1>j DEF Abandon, TypeOK, Revision, Steps, Idle, Bootstrapping, Streaming
  <2>2. Contiguous(only)' /\ Bootstrapping(only)' /\ Filling(only)' /\ Streaming(only)'
    BY <1>12, <1>t, <1>i, <1>j DEF Abandon, TypeOK, Revision, Idle, Contiguous, Bootstrapping, Filling, Streaming
  <2> QED
    BY <1>12, <1>t, <1>i, <1>j, <2>1, <2>2, <1>q DEF Abandon, TypeOK, Revision, Idle, Bootstrapping, Filling, Streaming
<1>13. CASE UNCHANGED vars
  <2>1. TypeOK'
    BY <1>13, <1>t DEF vars, TypeOK
  <2>2. Contiguous(only)' /\ Bootstrapping(only)' /\ Filling(only)' /\ Streaming(only)'
    BY <1>13, <1>i DEF vars, Contiguous, Bootstrapping, Filling, Streaming
  <2> QED
    BY <1>13, <1>i, <2>1, <2>2, <1>q DEF vars
<1> QED
  BY <1>1, <1>2, <1>3, <1>4, <1>5, <1>6, <1>7, <1>8, <1>9, <1>10, <1>11, <1>12, <1>13
     DEF Next, JobStep

\* The history of a page that one collection selects has no gap between the
\* oldest revision its policy promises and the head that is shown
\* (bootstrap_collection and reconcile_page_head, for every policy, every
\* interleaving with edits and every place an attempt can stop).
THEOREM HistoryWithoutGaps ==
  ASSUME NEW only, Collection = {only}
  PROVE  Spec => []NoGap
<1>1. HistoryInv => NoGap
  <2> SUFFICES ASSUME HistoryInv, base[only] # 0, NEW r \in base[only] .. current
               PROVE  r \in have
    BY DEF NoGap
  <2>1. TypeOK /\ (current # 0 => current \in have) /\ Contiguous(only)
    BY DEF HistoryInv
  <2>2. base[only] \in Nat /\ current \in 0 .. MaxRevision
    BY <2>1 DEF TypeOK
  <2>3. r \in Revision /\ current # 0
    BY <2>2, PageHistoryAssumption DEF Revision
  <2> QED
    BY <2>1, <2>2, <2>3 DEF Contiguous
<1>2. HistoryInv /\ [Next]_vars => HistoryInv'
  BY InvStep
<1> QED
  BY InvInit, <1>1, <1>2, PTL DEF Spec

\* The model's types, by the same invariant.
THEOREM HistoryTypes ==
  ASSUME NEW only, Collection = {only}
  PROVE  Spec => []TypeOK
<1>1. HistoryInv => TypeOK
  BY DEF HistoryInv
<1>2. HistoryInv /\ [Next]_vars => HistoryInv'
  BY InvStep
<1> QED
  BY InvInit, <1>1, <1>2, PTL DEF Spec

-----------------------------------------------------------------------------
(* The calendar.  A year begins in March. *)

Leap(y) == y % 4 = 0 /\ (y % 100 # 0 \/ y % 400 = 0)
MarchYear(y, m) == IF m <= 2 THEN y - 1 ELSE y
FromMarch(m) == IF m > 2 THEN m - 3 ELSE m + 9
DayOfYear(m, d) == DaysOfMonths(FromMarch(m)) + d - 1
EraOf(s) == s \div 400
InEra(s) == s - EraOf(s) * 400
DaysBefore(s) == 365 * s + s \div 4 - s \div 100 + s \div 400

LEMMA MonthLengths ==
  ASSUME NEW y \in Int, NEW m \in 1 .. 12
  PROVE  DaysInMonth(y, m) =
           IF m = 2 THEN (IF Leap(y) THEN 29 ELSE 28) ELSE IF m \in {4, 6, 9, 11} THEN 30 ELSE 31
BY SMT DEF DaysInMonth, Leap

LEMMA MonthOf ==
  ASSUME NEW y \in Int, NEW m \in 1 .. 12, NEW d \in 1 .. DaysInMonth(y, m)
  PROVE  /\ DayOfYear(m, d) \in Nat /\ DayOfYear(m, d) <= 365 /\ (DayOfYear(m, d) = 365 => m = 2 /\ Leap(y))
         /\ (5 * DayOfYear(m, d) + 2) \div 153 = FromMarch(m)
         /\ DayOfYear(m, d) - DaysOfMonths(FromMarch(m)) + 1 = d
<1>1. d \in Int /\ d >= 1 /\ d <= (IF m = 2 THEN (IF Leap(y) THEN 29 ELSE 28) ELSE IF m \in {4, 6, 9, 11} THEN 30 ELSE 31)
  BY MonthLengths
<1>2. m \in {1, 2, 3, 4, 5, 6, 7, 8, 9, 10, 11, 12}
  OBVIOUS
<1> QED
  BY <1>1, <1>2 DEF DayOfYear, FromMarch, DaysOfMonths

LEMMA Centuries ==
  ASSUME NEW c \in 0 .. 3, NEW w \in Nat, w <= 36524, w = 36524 => c = 3
  PROVE  (36524 * c + w) \div 36524 - (36524 * c + w) \div 146096 = c
<1>1. CASE w = 36524
  BY <1>1
<1>2. CASE w < 36524
  <2>1. c \in {0, 1, 2, 3}
    OBVIOUS
  <2>2. (36524 * c + w) \div 36524 = c /\ (36524 * c + w) \div 146096 = 0
    BY <1>2, <2>1
  <2> QED
    BY <2>2
<1> QED
  BY <1>1, <1>2

LEMMA FourYears ==
  ASSUME NEW q \in Nat, q <= 99, NEW b \in Nat, b <= 2919
  PROVE  (1460 * q + b) \div 1460 = IF b >= 1460 THEN q + 1 ELSE q
OBVIOUS

LEMMA YearsOf ==
  ASSUME NEW yoe \in Nat, yoe <= 399, NEW x \in Int, 365 * yoe <= x, x <= 365 * yoe + 364
  PROVE  x \div 365 = yoe
OBVIOUS

LEMMA YearParts ==
  ASSUME NEW yoe \in Nat, yoe <= 399
  PROVE  /\ yoe \div 100 \in 0 .. 3 /\ 100 * (yoe \div 100) <= yoe /\ yoe <= 100 * (yoe \div 100) + 99
         /\ yoe \div 4 \in Nat /\ yoe \div 4 <= 99 /\ yoe % 4 \in 0 .. 3 /\ yoe = 4 * (yoe \div 4) + (yoe % 4)
         /\ Leap(yoe + 1) => yoe % 4 = 3 /\ (yoe = 100 * (yoe \div 100) + 99 => yoe \div 100 = 3)
BY DEF Leap

LEMMA YearOf ==
  ASSUME NEW yoe \in Nat, yoe <= 399, NEW doy \in Nat, doy <= 365, doy = 365 => Leap(yoe + 1)
  PROVE  /\ DaysOfYears(yoe) + doy \in Nat /\ DaysOfYears(yoe) + doy <= 146096
         /\ YearOfEra(DaysOfYears(yoe) + doy) = yoe
<1> DEFINE c == yoe \div 100
           q == yoe \div 4
           r == yoe % 4
           doe == 365 * yoe + q - c + doy
           w == 365 * (yoe - 100 * c) + (q - 25 * c) + doy
           b == 365 * r + (q - c) + doy
<1>1. c \in 0 .. 3 /\ 100 * c <= yoe /\ yoe <= 100 * c + 99
  BY YearParts
<1>2. q \in Nat /\ q <= 99 /\ r \in 0 .. 3 /\ yoe = 4 * q + r
  BY YearParts
<1>3. doy = 365 => r = 3 /\ (yoe = 100 * c + 99 => c = 3)
  BY YearParts
<1> HIDE DEF c, q, r
<1>4. q - c \in Nat /\ q - c <= 96 /\ 25 * c <= q /\ q <= 25 * c + 24
  BY <1>1, <1>2
<1>5. w \in Nat /\ w <= 36524 /\ (w = 36524 => c = 3)
  BY <1>1, <1>2, <1>3, <1>4
<1>6. doe = 36524 * c + w /\ doe = 1460 * q + b
  BY <1>1, <1>2
<1>7. doe \in Nat /\ doe <= 146096
  BY <1>1, <1>5, <1>6
<1>8. b \in Nat /\ b <= 2919
  BY <1>2, <1>4
<1>9. doy <= 364 \/ b >= 1460
  BY <1>2, <1>3, <1>4
<1>10. b >= 1460 => (q - c) + doy >= 365
  BY <1>2, <1>4
<1> HIDE DEF w, b, doe
<1>11. doe \div 36524 - doe \div 146096 = c
  BY <1>1, <1>5, <1>6, Centuries
<1>12. doe \div 1460 = IF b >= 1460 THEN q + 1 ELSE q
  BY <1>2, <1>6, <1>8, FourYears
<1>13. LET x == doe - (IF b >= 1460 THEN q + 1 ELSE q) + c
       IN  x \in Int /\ 365 * yoe <= x /\ x <= 365 * yoe + 364
  BY <1>1, <1>2, <1>4, <1>9, <1>10 DEF doe
<1>14. doe - doe \div 1460 + doe \div 36524 - doe \div 146096 = doe - (IF b >= 1460 THEN q + 1 ELSE q) + c
  <2> DEFINE e == doe \div 1460
             f == doe \div 36524
             g == doe \div 146096
  <2>1. e \in Int /\ f \in Int /\ g \in Int
    BY <1>7
  <2>2. f - g = c /\ e = IF b >= 1460 THEN q + 1 ELSE q
    BY <1>11, <1>12
  <2> HIDE DEF e, f, g
  <2>3. doe - e + f - g = doe - (IF b >= 1460 THEN q + 1 ELSE q) + c
    BY <2>1, <2>2, <1>1, <1>2, <1>7
  <2> QED
    BY <2>3 DEF e, f, g
<1>15. DaysOfYears(yoe) + doy = doe
  BY <1>1, <1>2 DEF DaysOfYears, doe, c, q
<1>16. (doe - doe \div 1460 + doe \div 36524 - doe \div 146096) \div 365 = yoe
  BY <1>13, <1>14, YearsOf
<1>17. YearOfEra(doe) = yoe
  BY <1>16, SMT DEF YearOfEra
<1> QED
  BY <1>7, <1>15, <1>17, SMT

EraFacts(s) ==
  /\ EraOf(s) \in Int /\ InEra(s) \in Nat /\ InEra(s) <= 399 /\ s = InEra(s) + EraOf(s) * 400
  /\ DaysOfYears(InEra(s)) \in Int /\ EraOf(s) * 146097 + DaysOfYears(InEra(s)) = DaysBefore(s)
  /\ Leap(InEra(s) + 1) <=> Leap(s + 1)

LEMMA Eras == \A s \in Int : EraFacts(s)
<1> SUFFICES ASSUME NEW s \in Int PROVE EraFacts(s)
  OBVIOUS
<1> DEFINE e == EraOf(s)
           v == InEra(s)
<1>1. e \in Int /\ v \in Nat /\ v <= 399 /\ s = 400 * e + v /\ s \div 400 = e
  BY DEF EraOf, InEra
<1> HIDE DEF e, v
<1>2. s \div 4 = 100 * e + v \div 4 /\ s \div 100 = 4 * e + v \div 100
  BY <1>1
<1>3. Leap(v + 1) <=> Leap(s + 1)
  BY <1>1 DEF Leap
<1>4. v \div 4 \in Int /\ v \div 100 \in Int
  BY <1>1
<1>5. DaysOfYears(v) \in Int /\ e * 146097 + DaysOfYears(v) = DaysBefore(s)
  BY <1>1, <1>2, <1>4 DEF DaysBefore, DaysOfYears
<1> QED
  BY <1>1, <1>3, <1>5, SMT DEF e, v, EraFacts

LEMMA DaysAre ==
  ASSUME NEW y \in Int, NEW m \in 1 .. 12, NEW d \in Int
  PROVE  DaysFromCivil(y, m, d) = DaysBefore(MarchYear(y, m)) + DayOfYear(m, d) - 719468
<1> DEFINE s == MarchYear(y, m)
           k == FromMarch(m)
<1>1. s \in Int /\ k \in Int
  BY DEF MarchYear, FromMarch
<1>2. (IF m <= 2 THEN y - 1 ELSE y) = s /\ m + (IF m > 2 THEN -3 ELSE 9) = k
  BY DEF MarchYear, FromMarch
<1>3. DaysFromCivil(y, m, d) = EraOf(s) * 146097 + DaysOfYears(InEra(s)) + DaysOfMonths(k) + d - 1 - 719468
  <2> HIDE DEF s, k
  <2>1. CASE m <= 2
    <3>1. s = y - 1 /\ k = m + 9
      BY <2>1 DEF s, k, MarchYear, FromMarch
    <3> QED
      BY <2>1, <3>1, SMT DEF DaysFromCivil, EraOf, InEra
  <2>2. CASE m > 2
    <3>1. s = y /\ k = m - 3
      BY <2>2 DEF s, k, MarchYear, FromMarch
    <3> QED
      BY <2>2, <3>1, SMT DEF DaysFromCivil, EraOf, InEra
  <2> QED
    BY <2>1, <2>2, SMT
<1>4. DaysOfMonths(k) \in Int
  BY <1>1 DEF DaysOfMonths
<1> HIDE DEF s, k
<1>5. EraOf(s) * 146097 + DaysOfYears(InEra(s)) = DaysBefore(s) /\ DaysBefore(s) \in Int
  <2>1. EraFacts(s)
    BY <1>1, Eras
  <2> QED
    BY <1>1, <2>1, SMT DEF EraFacts, DaysBefore
<1> QED
  BY <1>1, <1>3, <1>4, <1>5 DEF s, k, DayOfYear

LEMMA NextYear ==
  ASSUME NEW s \in Int
  PROVE  DaysBefore(s + 1) = DaysBefore(s) + IF Leap(s + 1) THEN 366 ELSE 365
<1>1. (s + 1) \div 4 = s \div 4 + (IF (s + 1) % 4 = 0 THEN 1 ELSE 0)
  OBVIOUS
<1>2. (s + 1) \div 100 = s \div 100 + (IF (s + 1) % 100 = 0 THEN 1 ELSE 0)
  OBVIOUS
<1>3. (s + 1) \div 400 = s \div 400 + (IF (s + 1) % 400 = 0 THEN 1 ELSE 0)
  OBVIOUS
<1>4. ((s + 1) % 400 = 0 => (s + 1) % 100 = 0) /\ ((s + 1) % 100 = 0 => (s + 1) % 4 = 0)
  OBVIOUS
<1>5. s \div 4 \in Int /\ s \div 100 \in Int /\ s \div 400 \in Int
  OBVIOUS
<1> QED
  BY <1>1, <1>2, <1>3, <1>4, <1>5 DEF DaysBefore, Leap

\* A day, and the calendar's name of it.
IsDay(y, m, d) == y \in Int /\ m \in 1 .. 12 /\ d \in 1 .. DaysInMonth(y, m)

\* What the years that can be written leave of a time.
Within(time) == IF 1 <= time[1] /\ time[1] <= 9999 THEN <<time>> ELSE <<>>

LEMMA CivilOfIs ==
  ASSUME NEW y \in Int, NEW m \in 1 .. 12, NEW doy \in Int, NEW d \in Int, NEW h,
         (5 * doy + 2) \div 153 = FromMarch(m), doy - DaysOfMonths(FromMarch(m)) + 1 = d
  PROVE  CivilOf(MarchYear(y, m), doy, h) = Within(<<y, m, d, h>>)
<1> DEFINE k == FromMarch(m)
           told == IF 1 <= y /\ y <= 9999 THEN <<<<y, m, doy - DaysOfMonths(k) + 1, h>>>> ELSE <<>>
<1>0. told = Within(<<y, m, d, h>>)
  BY SMT DEF Within
<1>1. CASE m <= 2
  <2>1. k = m + 9 /\ MarchYear(y, m) = y - 1
    BY <1>1, SMT DEF FromMarch, MarchYear
  <2>2. CivilOf(y - 1, doy, h) = told
    BY <1>1, <2>1, SMT DEF CivilOf
  <2> QED
    BY <1>0, <2>1, <2>2, SMT
<1>2. CASE m > 2
  <2>1. k = m - 3 /\ MarchYear(y, m) = y
    BY <1>2, SMT DEF FromMarch, MarchYear
  <2>2. CivilOf(y, doy, h) = told
    BY <1>2, <2>1, SMT DEF CivilOf
  <2> QED
    BY <1>0, <2>1, <2>2, SMT
<1> QED
  BY <1>0, <1>1, <1>2, SMT

LEMMA CivilOfDay ==
  ASSUME NEW y, NEW m, NEW d, IsDay(y, m, d), NEW h \in 0 .. 23
  PROVE  Civil(DaysFromCivil(y, m, d) * 24 + h) = Within(<<y, m, d, h>>)
<1>1. y \in Int /\ m \in 1 .. 12 /\ d \in 1 .. DaysInMonth(y, m) /\ d \in Int
  BY MonthLengths DEF IsDay
<1> DEFINE s == MarchYear(y, m)
           doy == DayOfYear(m, d)
           n == DaysFromCivil(y, m, d)
           e == EraOf(s)
           v == InEra(s)
           w == DaysOfYears(v) + doy
           days == (n * 24 + h) \div 24 + 719468
<1>2. s \in Int /\ (m = 2 => s + 1 = y)
  BY <1>1 DEF MarchYear
<1>3. doy \in Nat /\ doy <= 365 /\ (doy = 365 => m = 2 /\ Leap(y))
  BY <1>1, MonthOf
<1>4. (5 * doy + 2) \div 153 = FromMarch(m) /\ doy - DaysOfMonths(FromMarch(m)) + 1 = d
  BY <1>1, MonthOf
<1>5. n = DaysBefore(s) + doy - 719468
  BY <1>1, DaysAre
<1> HIDE DEF s, doy, n
<1>6. /\ e \in Int /\ v \in Nat /\ v <= 399 /\ s = v + e * 400
      /\ DaysOfYears(v) \in Int /\ e * 146097 + DaysOfYears(v) = DaysBefore(s)
      /\ Leap(v + 1) <=> Leap(s + 1)
  <2>1. EraFacts(s)
    BY <1>2, Eras
  <2> QED
    BY <2>1, SMT DEF EraFacts
<1> HIDE DEF e, v
<1>7. w \in Nat /\ w <= 146096 /\ YearOfEra(w) = v
  <2>1. doy = 365 => Leap(v + 1)
    BY <1>2, <1>3, <1>6
  <2> QED
    BY <2>1, <1>3, <1>6, YearOf
<1>8. n \in Int /\ n + 719468 = e * 146097 + w
  BY <1>3, <1>5, <1>6
<1>9. w - DaysOfYears(v) = doy
  BY <1>3, <1>6
<1> HIDE DEF w
<1>10. days = e * 146097 + w /\ (n * 24 + h) % 24 = h
  <2>1. (n * 24 + h) \div 24 = n /\ (n * 24 + h) % 24 = h
    BY <1>8
  <2> QED
    BY <2>1, <1>8
<1> HIDE DEF days
<1>11. days \div 146097 = e /\ days - e * 146097 = w
  BY <1>6, <1>7, <1>10
<1>12. Civil(n * 24 + h) = CivilOf(v + e * 400, w - DaysOfYears(v), h)
  BY <1>7, <1>10, <1>11, SMT DEF Civil, days
<1>13. CivilOf(s, doy, h) = Within(<<y, m, d, h>>)
  BY <1>1, <1>3, <1>4, CivilOfIs DEF s
<1> QED
  BY <1>6, <1>9, <1>12, <1>13 DEF n

LEMMA MonthsFollow ==
  ASSUME NEW y \in Int, NEW m \in 1 .. 11
  PROVE  DaysFromCivil(y, m + 1, 1) = DaysFromCivil(y, m, DaysInMonth(y, m)) + 1
<1>1. DaysInMonth(y, m) = IF m = 2 THEN (IF Leap(y) THEN 29 ELSE 28) ELSE IF m \in {4, 6, 9, 11} THEN 30 ELSE 31
  BY MonthLengths
<1>2. DaysFromCivil(y, m + 1, 1) = DaysBefore(MarchYear(y, m + 1)) + DayOfYear(m + 1, 1) - 719468
  <2>1. m + 1 \in 1 .. 12 /\ 1 \in Int
    OBVIOUS
  <2> QED
    BY <2>1, DaysAre, SMT
<1>3. DaysFromCivil(y, m, DaysInMonth(y, m)) = DaysBefore(MarchYear(y, m)) + DayOfYear(m, DaysInMonth(y, m)) - 719468
  <2>1. m \in 1 .. 12 /\ DaysInMonth(y, m) \in Int
    BY <1>1
  <2> QED
    BY <2>1, DaysAre, SMT
<1>4. \A s \in Int : DaysBefore(s) \in Int
  BY SMT DEF DaysBefore
<1>5. CASE m = 2
  <2>1. DaysBefore(y - 1 + 1) = DaysBefore(y - 1) + IF Leap(y - 1 + 1) THEN 366 ELSE 365
    <3>1. y - 1 \in Int
      OBVIOUS
    <3> QED
      BY <3>1, NextYear, SMT
  <2>2. DaysBefore(y) = DaysBefore(y - 1) + IF Leap(y) THEN 366 ELSE 365
    <3>1. y - 1 + 1 = y
      OBVIOUS
    <3> QED
      BY <2>1, <3>1
  <2>3. MarchYear(y, m + 1) = y /\ MarchYear(y, m) = y - 1
    BY <1>5 DEF MarchYear
  <2>4. DayOfYear(m + 1, 1) = 0 /\ DayOfYear(m, DaysInMonth(y, m)) = IF Leap(y) THEN 365 ELSE 364
    BY <1>1, <1>5, SMT DEF DayOfYear, DaysOfMonths, FromMarch
  <2>5. DaysBefore(y) \in Int /\ DaysBefore(y - 1) \in Int
    BY <1>4
  <2> QED
    BY <1>2, <1>3, <2>2, <2>3, <2>4, <2>5, SMT
<1>6. CASE m # 2
  <2>1. MarchYear(y, m + 1) = MarchYear(y, m) /\ DaysBefore(MarchYear(y, m)) \in Int
    BY <1>4, <1>6 DEF MarchYear
  <2>2. m \in {1, 3, 4, 5, 6, 7, 8, 9, 10, 11}
    BY <1>6
  <2>3. DayOfYear(m + 1, 1) = DayOfYear(m, DaysInMonth(y, m)) + 1 /\ DayOfYear(m, DaysInMonth(y, m)) \in Int
    BY <1>1, <2>2, SMT DEF DayOfYear, DaysOfMonths, FromMarch
  <2> QED
    BY <1>2, <1>3, <2>1, <2>3, SMT
<1> QED
  BY <1>5, <1>6

LEMMA DaysFollow ==
  ASSUME NEW y \in Int, NEW m \in 1 .. 12, NEW d \in Int
  PROVE  /\ DaysFromCivil(y, m, d) \in Int
         /\ DaysFromCivil(y, m, d + 1) = DaysFromCivil(y, m, d) + 1
         /\ DaysFromCivil(y + 1, 1, 1) = DaysFromCivil(y, 12, 31) + 1
<1>1. \A s \in Int : DaysBefore(s) \in Int
  BY SMT DEF DaysBefore
<1>2. \A z \in Int, k \in 1 .. 12, c \in Int :
        DaysFromCivil(z, k, c) = DaysBefore(MarchYear(z, k)) + DayOfYear(k, c) - 719468
  BY DaysAre
<1>3. DayOfYear(m, d + 1) = DayOfYear(m, d) + 1 /\ DayOfYear(m, d) \in Int
  BY SMT DEF DayOfYear, DaysOfMonths, FromMarch
<1>4. DayOfYear(1, 1) = DayOfYear(12, 31) + 1 /\ DayOfYear(12, 31) \in Int
  BY SMT DEF DayOfYear, DaysOfMonths, FromMarch
<1>5. MarchYear(y, m) \in Int /\ MarchYear(y + 1, 1) = MarchYear(y, 12) /\ MarchYear(y, 12) \in Int
  BY SMT DEF MarchYear
<1>6. /\ DaysFromCivil(y, m, d) = DaysBefore(MarchYear(y, m)) + DayOfYear(m, d) - 719468
      /\ DaysFromCivil(y, m, d + 1) = DaysBefore(MarchYear(y, m)) + DayOfYear(m, d + 1) - 719468
      /\ DaysFromCivil(y + 1, 1, 1) = DaysBefore(MarchYear(y + 1, 1)) + DayOfYear(1, 1) - 719468
      /\ DaysFromCivil(y, 12, 31) = DaysBefore(MarchYear(y, 12)) + DayOfYear(12, 31) - 719468
  <2>1. d + 1 \in Int /\ y + 1 \in Int /\ 1 \in 1 .. 12 /\ 12 \in 1 .. 12 /\ 1 \in Int /\ 31 \in Int
    OBVIOUS
  <2> QED
    BY <1>2, <2>1, SMT
<1> QED
  BY <1>1, <1>3, <1>4, <1>5, <1>6, SMT

\* x is the day n days after 1970 began.
Names(x, n) ==
  \E y, m, d : x = <<y, m, d>> /\ IsDay(y, m, d) /\ DaysFromCivil(y, m, d) = n

LEMMA DayBesideIs ==
  ASSUME NEW y, NEW m, NEW d, IsDay(y, m, d)
  PROVE  /\ Names(DayAfter(y, m, d), DaysFromCivil(y, m, d) + 1)
         /\ Names(DayBefore(y, m, d), DaysFromCivil(y, m, d) - 1)
<1>1. y \in Int /\ m \in 1 .. 12 /\ d \in 1 .. DaysInMonth(y, m) /\ d \in Int
  BY MonthLengths DEF IsDay
<1>2. \A z \in Int, k \in 1 .. 12 : DaysInMonth(z, k) \in Int /\ 28 <= DaysInMonth(z, k) /\ DaysInMonth(z, 12) = 31
  BY MonthLengths
<1> DEFINE n == DaysFromCivil(y, m, d)
           last == DaysInMonth(y, m)
<1>3. n \in Int /\ last \in Int /\ 28 <= last /\ (m = 12 => last = 31) /\ d <= last /\ 1 <= d
  <2>1. n \in Int
    BY <1>1, DaysFollow
  <2> HIDE DEF n
  <2>2. last \in Int /\ 28 <= last /\ (m = 12 => last = 31)
    BY ONLY <1>1, <1>2
  <2> QED
    BY <1>1, <2>1, <2>2
<1>4. Names(DayAfter(y, m, d), n + 1)
  <2>1. CASE d < DaysInMonth(y, m)
    <3>1. IsDay(y, m, d + 1)
      <4>1. d + 1 \in 1 .. last
        BY <1>1, <1>3, <2>1
      <4> QED
        BY <1>1, <4>1 DEF IsDay
    <3>2. DaysFromCivil(y, m, d + 1) = n + 1
      BY <1>1, DaysFollow
    <3>3. DayAfter(y, m, d) = <<y, m, d + 1>>
      BY <2>1 DEF DayAfter
    <3> HIDE DEF n
    <3> QED
      BY <3>1, <3>2, <3>3 DEF Names
  <2>2. CASE d = DaysInMonth(y, m) /\ m < 12
    <3>1. IsDay(y, m + 1, 1)
      <4>1. m + 1 \in 1 .. 12
        BY <1>1, <2>2
      <4>2. DaysInMonth(y, m + 1) \in Int /\ 28 <= DaysInMonth(y, m + 1)
        BY <1>1, <1>2, <4>1
      <4>3. 1 \in 1 .. DaysInMonth(y, m + 1)
        BY <4>2
      <4> QED
        BY <1>1, <4>1, <4>3 DEF IsDay
    <3>2. DaysFromCivil(y, m + 1, 1) = n + 1
      BY <1>1, <2>2, MonthsFollow
    <3>3. DayAfter(y, m, d) = <<y, m + 1, 1>>
      BY <1>1, <2>2 DEF DayAfter
    <3> HIDE DEF n
    <3> QED
      BY <3>1, <3>2, <3>3 DEF Names
  <2>3. CASE d = DaysInMonth(y, m) /\ m = 12
    <3>1. IsDay(y + 1, 1, 1)
      BY <1>1, <1>2 DEF IsDay
    <3>2. d = 31
      BY <1>1, <1>2, <2>3
    <3>3. DaysFromCivil(y + 1, 1, 1) = n + 1
      BY <1>1, <2>3, <3>2, DaysFollow
    <3>4. DayAfter(y, m, d) = <<y + 1, 1, 1>>
      BY <1>1, <2>3 DEF DayAfter
    <3> HIDE DEF n
    <3> QED
      BY <3>1, <3>3, <3>4 DEF Names
  <2>4. d < last \/ (d = last /\ m < 12) \/ (d = last /\ m = 12)
    BY <1>1, <1>3
  <2> HIDE DEF n
  <2> QED
    BY <2>1, <2>2, <2>3, <2>4 DEF last
<1>5. Names(DayBefore(y, m, d), n - 1)
  <2>1. CASE d > 1
    <3>1. IsDay(y, m, d - 1)
      <4>1. d - 1 \in 1 .. last
        BY <1>1, <1>3, <2>1
      <4> QED
        BY <1>1, <4>1 DEF IsDay
    <3>2. DaysFromCivil(y, m, d - 1) \in Int /\ DaysFromCivil(y, m, d - 1 + 1) = DaysFromCivil(y, m, d - 1) + 1 /\ d - 1 + 1 = d
      <4>1. d - 1 \in Int /\ d - 1 + 1 = d
        BY <1>1
      <4> QED
        BY <1>1, <4>1, DaysFollow
    <3>3. DayBefore(y, m, d) = <<y, m, d - 1>>
      BY <2>1 DEF DayBefore
    <3>4. DaysFromCivil(y, m, d - 1) = n - 1
      BY <1>3, <3>2
    <3> HIDE DEF n
    <3> QED
      BY <3>1, <3>3, <3>4 DEF Names
  <2>2. CASE d = 1 /\ m > 1
    <3>1. m - 1 \in 1 .. 11 /\ m - 1 \in 1 .. 12 /\ m - 1 + 1 = m
      BY <1>1, <2>2
    <3>2. IsDay(y, m - 1, DaysInMonth(y, m - 1)) /\ DaysInMonth(y, m - 1) \in Int
      <4>1. DaysInMonth(y, m - 1) \in Int /\ 28 <= DaysInMonth(y, m - 1)
        BY <1>1, <1>2, <3>1
      <4>2. DaysInMonth(y, m - 1) \in 1 .. DaysInMonth(y, m - 1)
        BY <4>1
      <4> QED
        BY <1>1, <3>1, <4>1, <4>2 DEF IsDay
    <3>3. n = DaysFromCivil(y, m - 1, DaysInMonth(y, m - 1)) + 1
      BY <1>1, <2>2, <3>1, MonthsFollow
    <3>4. DaysFromCivil(y, m - 1, DaysInMonth(y, m - 1)) \in Int
      BY <1>1, <3>1, <3>2, DaysFollow
    <3>5. DayBefore(y, m, d) = <<y, m - 1, DaysInMonth(y, m - 1)>>
      BY <1>1, <2>2 DEF DayBefore
    <3>6. DaysFromCivil(y, m - 1, DaysInMonth(y, m - 1)) = n - 1
      BY <1>3, <3>3, <3>4
    <3> HIDE DEF n
    <3> QED
      BY <3>2, <3>5, <3>6 DEF Names
  <2>3. CASE d = 1 /\ m = 1
    <3>1. IsDay(y - 1, 12, 31)
      BY <1>1, <1>2 DEF IsDay
    <3>2. y - 1 \in Int /\ y - 1 + 1 = y /\ 12 \in 1 .. 12 /\ 31 \in Int
      BY <1>1
    <3>3. DaysFromCivil(y - 1 + 1, 1, 1) = DaysFromCivil(y - 1, 12, 31) + 1 /\ DaysFromCivil(y - 1, 12, 31) \in Int
      BY <3>2, DaysFollow
    <3>4. DaysFromCivil(y - 1, 12, 31) = n - 1
      BY <1>3, <2>3, <3>2, <3>3
    <3>5. DayBefore(y, m, d) = <<y - 1, 12, 31>>
      BY <2>3 DEF DayBefore
    <3> HIDE DEF n
    <3> QED
      BY <3>1, <3>4, <3>5 DEF Names
  <2>4. d > 1 \/ (d = 1 /\ m > 1) \/ (d = 1 /\ m = 1)
    BY <1>1, <1>3
  <2> HIDE DEF n
  <2> QED
    BY <2>1, <2>2, <2>3, <2>4
<1> QED
  BY <1>4, <1>5

\* A time with an offset of less than a day.
IsTime(t) == t.time \in Int \X Int \X Int \X Int /\ t.offset \in Int /\ -24 < t.offset /\ t.offset < 24

LEMMA CivilOfNamed ==
  ASSUME NEW x, NEW n \in Int, Names(x, n), NEW h \in 0 .. 23
  PROVE  Civil(n * 24 + h) = Within(AtHour(x, h))
<1>1. PICK y, m, d : x = <<y, m, d>> /\ IsDay(y, m, d) /\ DaysFromCivil(y, m, d) = n
  BY DEF Names
<1>2. AtHour(x, h) = <<y, m, d, h>>
  BY <1>1 DEF AtHour
<1>3. Civil(DaysFromCivil(y, m, d) * 24 + h) = Within(<<y, m, d, h>>)
  BY <1>1, CivilOfDay
<1> QED
  BY <1>1, <1>2, <1>3

(* The arithmetic of the code agrees with the calendar: the cutoff of a time
   with an offset of less than a day, written out again, is that time in UTC,
   unless its year cannot be written (parse_rfc3339, days_from_civil and
   canonical_mediawiki_timestamp of export.rs, for every year). *)
THEOREM CutoffsAreUtc ==
  ASSUME NEW t, IsTime(t), ParseTime(t) # <<>>
  PROVE  Civil(ParseTime(t)[1]) = Within(UtcTime(t))
<1>1. PICK y \in Int, m \in Int, d \in Int, h \in Int : t.time = <<y, m, d, h>>
  BY DEF IsTime
<1>2. t.time[1] = y /\ t.time[2] = m /\ t.time[3] = d /\ t.time[4] = h
  BY <1>1
<1>3. m \in 1 .. 12 /\ d \in 1 .. DaysInMonth(y, m) /\ h \in 0 .. 23
  BY <1>2, SMT DEF ParseTime
<1> DEFINE n == DaysFromCivil(y, m, d)
           hour == h - t.offset
<1>4. ParseTime(t)[1] = n * 24 + h - t.offset
  BY <1>2, <1>3, SMT DEF ParseTime
<1>5. n \in Int /\ IsDay(y, m, d)
  BY <1>1, <1>3, DaysFollow DEF IsDay
<1>6. AtHour(t.time, hour) = AtHour(<<y, m, d>>, hour)
  BY <1>2 DEF AtHour
<1>7. hour \in Int /\ -24 < hour /\ hour < 47
  <2> DEFINE o == t.offset
  <2>1. o \in Int /\ -24 < o /\ o < 24
    BY DEF IsTime
  <2> HIDE DEF o
  <2>2. h - o \in Int /\ -24 < h - o /\ h - o < 47
    BY <1>3, <2>1
  <2> QED
    BY <2>2 DEF o
<1>8. Names(DayAfter(y, m, d), n + 1) /\ Names(DayBefore(y, m, d), n - 1) /\ Names(<<y, m, d>>, n)
  BY <1>5, DayBesideIs DEF Names
<1> HIDE DEF n
<1>9. ParseTime(t)[1] = n * 24 + hour
  <2>1. t.offset \in Int /\ h \in Int
    BY <1>3 DEF IsTime
  <2> QED
    BY <1>4, <1>5, <2>1
<1> HIDE DEF hour
<1>10. CASE hour < 0
  <2>1. hour + 24 \in 0 .. 23 /\ n - 1 \in Int /\ n * 24 + hour = (n - 1) * 24 + (hour + 24)
    BY <1>5, <1>7, <1>10
  <2>2. UtcTime(t) = AtHour(DayBefore(y, m, d), hour + 24)
    BY <1>2, <1>10 DEF UtcTime, hour
  <2>3. Civil((n - 1) * 24 + (hour + 24)) = Within(AtHour(DayBefore(y, m, d), hour + 24))
    BY <1>8, <2>1, CivilOfNamed
  <2> QED
    BY <1>9, <2>1, <2>2, <2>3
<1>11. CASE hour > 23
  <2>1. hour - 24 \in 0 .. 23 /\ n + 1 \in Int /\ n * 24 + hour = (n + 1) * 24 + (hour - 24)
    BY <1>5, <1>7, <1>11
  <2>2. UtcTime(t) = AtHour(DayAfter(y, m, d), hour - 24)
    BY <1>2, <1>7, <1>11 DEF UtcTime, hour
  <2>3. Civil((n + 1) * 24 + (hour - 24)) = Within(AtHour(DayAfter(y, m, d), hour - 24))
    BY <1>8, <2>1, CivilOfNamed
  <2> QED
    BY <1>9, <2>1, <2>2, <2>3
<1>12. CASE hour \in 0 .. 23
  <2>1. UtcTime(t) = AtHour(<<y, m, d>>, hour)
    <3>0. hour = t.time[4] - t.offset
      BY <1>2 DEF hour
    <3>1. ~(hour < 0) /\ ~(hour > 23)
      BY <1>7, <1>12
    <3>2. UtcTime(t) = AtHour(t.time, hour)
      BY <3>0, <3>1 DEF UtcTime
    <3> QED
      BY <1>6, <3>2
  <2>2. Civil(n * 24 + hour) = Within(AtHour(<<y, m, d>>, hour))
    BY <1>5, <1>8, <1>12, CivilOfNamed
  <2> QED
    BY <1>9, <2>1, <2>2
<1> QED
  BY <1>7, <1>10, <1>11, <1>12

-----------------------------------------------------------------------------
(* Exports. *)

Sequential(s) == Len(s) \in Nat /\ s = [i \in 1 .. Len(s) |-> s[i]]

\* What an exporter has taken so far.
Reading == {"choosing", "building"}
ShapedReader(s) == DOMAIN s = {"at", "target", "name", "cutoff", "heads", "shows", "paths", "known"}
Exactly(target, shows, known) ==
  target.kind = "time" =>
    \A i \in DOMAIN shows : shows[i] = NewestOf({r \in known[i] : ~Earlier(UtcTime(target), r.time)})
PathsApart(shows, paths) ==
  /\ \A i \in DOMAIN shows : shows[i] # None => paths[i] # <<>>
  /\ \A i, j \in DOMAIN shows : i # j /\ shows[i] # None => paths[i] # paths[j]
ReaderSound(s) ==
  s.at \in Reading =>
    /\ ShapedReader(s) /\ s.target \in Targets
    /\ s.target.kind = "time" => ParseTime(s.target) # <<>> /\ s.cutoff = ParseTime(s.target)[1]
    /\ Sequential(s.shows) /\ Sequential(s.paths) /\ Sequential(s.known)
    /\ Len(s.paths) = Len(s.shows) /\ Len(s.known) = Len(s.shows)
    /\ Len(s.shows) <= Len(ExportPages)
    /\ s.at = "building" <=> Len(s.shows) = Len(ExportPages)
    /\ Exactly(s.target, s.shows, s.known) /\ PathsApart(s.shows, s.paths)

\* An export as it was built.
ExportShaped(e) == DOMAIN e = {"name", "target", "shows", "paths", "known", "whole", "durable"}
ExportsSound ==
  /\ Sequential(exports)
  /\ \A n \in DOMAIN exports : ExportShaped(exports[n]) /\ Exact(exports[n]) /\ OnePathEach(exports[n])

\* A listing that a loss of power may leave.
ListingSound(list, made) ==
  /\ \A e \in list : e = <<<<e[1][1], e[1][2]>>, e[2]>> /\ e[2] \in DOMAIN made /\ made[e[2]].durable
  /\ \A e, f \in list : e[1] = f[1] \/ e[2] = f[2] => e = f
  /\ \A e \in list : e[1][2] = 0 => made[e[2]].whole
ListingsSound == listed \in listings /\ \A list \in listings : ListingSound(list, exports)

\* What an exporter holds that has staged its directory.
Staged == {"staged", "installing", "fresh", "aside", "replacing"}
Backing == {"settling", "dropping", "dropped"}
Holding == Staged \cup Backing \cup {"ending"}
SaverShaped(s) == s.at \in Holding => DOMAIN s = {"at", "name", "is"}
SaversSound ==
  /\ saver = [p \in Saver |-> saver[p]]
  /\ \A p \in Saver : ReaderSound(saver[p]) /\ SaverShaped(saver[p])
StagedHeld(p) ==
  LET s == saver[p] IN
  s.at \in Staged =>
    /\ s.is \in DOMAIN exports /\ exports[s.is].whole
    /\ s.at # "staged" => exports[s.is].durable
    /\ \A list \in listings : \A e \in list : e[2] # s.is
    /\ \A q \in Saver \ {p} : saver[q].at \in Staged => saver[q].is # s.is
BackupHeld(p) ==
  LET s == saver[p] IN
  /\ s.at = "aside" => ~Listed(Backup(p))
  /\ s.at = "replacing" => \E e \in listed : e[1] = Backup(p) /\ exports[e[2]].whole
  /\ s.at = "settling" => Listed(Backup(p))
  /\ s.at \in {"dropping", "dropped"} => \E n \in DOMAIN exports : \A list \in listings : <<Backup(p), n>> \in list
Held == \A p \in Saver : StagedHeld(p) /\ BackupHeld(p)

\* A backup that is to go, and what an exporter owes to a name.
Going(e) == \E p \in Saver : saver[p].at \in {"dropping", "dropped"} /\ e[1] = Backup(p)
ToGo(e) == \E p \in Saver : saver[p].at \in Backing /\ e[1] = Backup(p)
Owed(name) == name \in acknowledged \/ \E p \in Saver : saver[p].at \in Backing \cup {"ending"} /\ saver[p].name = name
Kept ==
  /\ \A list \in listings, name \in acknowledged :
       \E e \in list : e[1][1] = name /\ exports[e[2]].whole /\ ~Going(e)
  /\ \A name : Owed(name) => \E e \in listed : e[1][1] = name /\ exports[e[2]].whole /\ ~ToGo(e)

ExportInv == SaversSound /\ ExportsSound /\ ListingsSound /\ Held /\ Kept

-----------------------------------------------------------------------------
LEMMA Appended ==
  ASSUME NEW s, Sequential(s), NEW e
  PROVE  /\ Sequential(Append(s, e)) /\ Len(Append(s, e)) = Len(s) + 1
         /\ DOMAIN s = 1 .. Len(s) /\ DOMAIN Append(s, e) = 1 .. Len(s) + 1
         /\ \A i \in 1 .. Len(s) : Append(s, e)[i] = s[i]
         /\ Append(s, e)[Len(s) + 1] = e
<1> DEFINE n == Len(s)
           S == {s[i] : i \in 1 .. n} \cup {e}
<1>1. n \in Nat /\ s = [i \in 1 .. n |-> s[i]]
  BY DEF Sequential
<1>2. s \in Seq(S) /\ e \in S
  <2>1. s \in [1 .. n -> S]
    BY <1>1
  <2> QED
    BY <1>1, <2>1
<1> HIDE DEF S
<1>3. Append(s, e) \in Seq(S) /\ Len(Append(s, e)) = Len(s) + 1
      /\ \A i \in 1 .. Len(s) : Append(s, e)[i] = s[i]
  BY <1>2
<1>4. Append(s, e)[Len(s) + 1] = e
  BY <1>2
<1>5. \A t \in Seq(S) : Sequential(t) /\ DOMAIN t = 1 .. Len(t)
  BY DEF Sequential
<1> QED
  BY <1>2, <1>3, <1>4, <1>5

LEMMA PagesAre == Len(ExportPages) \in Nat /\ Pages = 1 .. Len(ExportPages)
BY ExportAssumption DEF Pages

LEMMA StemsAre == \A page \in Pages : Stem(page) # <<>> /\ SuffixedStem(page) # <<>>
<1> SUFFICES ASSUME NEW page \in Pages PROVE Stem(page) # <<>> /\ SuffixedStem(page) # <<>>
  OBVIOUS
<1> DEFINE x == ExportPages[page]
           L == STRING \cup Nat \cup {"wiki"}
<1>1. x.id \in STRING /\ x.wiki \in Nat /\ x.slug \in Seq(STRING)
  <2> DEFINE R == [wiki : Nat, id : STRING, slug : Seq(STRING)]
  <2>1. ExportPages \in Seq(R)
    BY ExportAssumption
  <2> HIDE DEF R
  <2>2. x \in R
    BY <2>1 DEF Pages
  <2> HIDE DEF x
  <2> QED
    BY <2>2 DEF R
<1> HIDE DEF x
<1>2. <<x.id>> \in Seq(L) /\ x.slug \in Seq(L) /\ <<"wiki", x.wiki>> \in Seq(L) /\ Len(<<x.id>>) = 1
  <2>1. x.id \in L /\ x.wiki \in L /\ "wiki" \in L
    <3>1. STRING \subseteq L /\ Nat \subseteq L
      OBVIOUS
    <3>2. "wiki" \in L
      OBVIOUS
    <3> HIDE DEF L
    <3> QED
      BY <1>1, <3>1, <3>2
  <2>2. x.slug \in Seq(L)
    <3>1. x.slug \in [1 .. Len(x.slug) -> STRING] /\ Len(x.slug) \in Nat
      BY <1>1
    <3>2. x.slug \in [1 .. Len(x.slug) -> L]
      BY <3>1
    <3> QED
      BY <3>1, <3>2
  <2> HIDE DEF L
  <2> QED
    BY <2>1, <2>2
<1>3. <<x.id>> \o x.slug \in Seq(L) /\ Len(<<x.id>> \o x.slug) = 1 + Len(x.slug) /\ Len(x.slug) \in Nat
  BY <1>2
<1> DEFINE stem == <<x.id>> \o x.slug
<1> HIDE DEF stem
<1>4. stem \in Seq(L) /\ Len(stem) >= 1
  BY <1>3 DEF stem
<1>5. Len(stem \o <<"wiki", x.wiki>>) = Len(stem) + Len(<<"wiki", x.wiki>>) /\ Len(<<"wiki", x.wiki>>) \in Nat
  BY <1>2, <1>4
<1>6. Len(stem) # 0 /\ Len(stem \o <<"wiki", x.wiki>>) # 0 /\ Len(<<>>) = 0
  BY <1>4, <1>5
<1>7. Stem(page) = stem /\ SuffixedStem(page) = stem \o <<"wiki", x.wiki>>
  BY DEF Stem, SuffixedStem, stem, x
<1> QED
  BY <1>6, <1>7

-----------------------------------------------------------------------------
(* Readers. *)

LEMMA BegunSound ==
  ASSUME NEW p \in Saver, NEW t \in Targets, Cutoff(t) # <<>>,
         NEW s, s = [at |-> IF ExportPages = <<>> THEN "building" ELSE "choosing", target |-> t, name |-> OutputName(t),
                cutoff |-> Cutoff(t)[1], heads |-> head, shows |-> <<>>, paths |-> <<>>, known |-> <<>>]
  PROVE  s.at \in Reading /\ ReaderSound(s) /\ SaverShaped(s)
<1>1. s.at \in Reading /\ (s.at = "building" <=> Len(ExportPages) = 0)
  <2>1. ExportPages = <<>> <=> Len(ExportPages) = 0
    BY ExportAssumption
  <2> QED
    BY <2>1 DEF Reading
<1>2. Sequential(<<>>) /\ Len(<<>>) = 0 /\ DOMAIN <<>> = {}
  BY DEF Sequential
<1>3. s.target = t /\ s.cutoff = Cutoff(t)[1] /\ s.shows = <<>> /\ s.paths = <<>> /\ s.known = <<>>
  OBVIOUS
<1>4. t.kind = "time" => Cutoff(t) = ParseTime(t)
  BY DEF Cutoff
<1>5. ShapedReader(s)
  BY DEF ShapedReader
<1>6. Exactly(t, <<>>, <<>>) /\ PathsApart(<<>>, <<>>)
  BY <1>2 DEF Exactly, PathsApart
<1>7. ReaderSound(s)
  BY <1>1, <1>2, <1>3, <1>4, <1>5, <1>6, PagesAre DEF ReaderSound
<1> QED
  BY <1>1, <1>7 DEF SaverShaped, Holding, Staged, Backing, Reading

\* One page more.
Taken(s, revision, path, known) ==
  [s EXCEPT !.shows = Append(@, revision), !.paths = Append(@, path), !.known = Append(@, known),
            !.at = IF Len(s.shows) + 1 = Len(ExportPages) THEN "building" ELSE "choosing"]
LEMMA TakenIs ==
  ASSUME NEW s, ShapedReader(s), NEW revision, NEW path, NEW known
  PROVE  LET t == Taken(s, revision, path, known) IN
         /\ ShapedReader(t) /\ t.target = s.target /\ t.cutoff = s.cutoff
         /\ t.at = IF Len(s.shows) + 1 = Len(ExportPages) THEN "building" ELSE "choosing"
         /\ t.shows = Append(s.shows, revision) /\ t.paths = Append(s.paths, path) /\ t.known = Append(s.known, known)
<1> DEFINE at == IF Len(s.shows) + 1 = Len(ExportPages) THEN "building" ELSE "choosing"
           t == [s EXCEPT !.shows = Append(@, revision), !.paths = Append(@, path), !.known = Append(@, known), !.at = at]
<1> HIDE DEF at
<1>1. ShapedReader(t)
  BY DEF ShapedReader
<1>2. t.target = s.target /\ t.cutoff = s.cutoff /\ t.name = s.name /\ t.at = at
  BY DEF ShapedReader
<1>3. t.shows = Append(s.shows, revision) /\ t.paths = Append(s.paths, path) /\ t.known = Append(s.known, known)
  BY DEF ShapedReader
<1>4. Taken(s, revision, path, known) = t
  BY DEF Taken, at
<1> HIDE DEF t
<1> QED
  BY <1>1, <1>2, <1>3, <1>4 DEF at

LEMMA TakenSound ==
  ASSUME NEW s, ReaderSound(s), s.at = "choosing", NEW revision, NEW path, NEW known,
         s.target.kind = "time" =>
           revision = NewestOf({r \in known : ~Earlier(UtcTime(s.target), r.time)}),
         IF revision = None THEN path = <<>> ELSE path # <<>> /\ path \notin ToSet(s.paths)
  PROVE  LET t == Taken(s, revision, path, known) IN
         t.at \in Reading /\ ReaderSound(t) /\ SaverShaped(t)
<1> DEFINE t == Taken(s, revision, path, known)
           n == Len(s.shows)
<1>1. /\ ShapedReader(s) /\ s.target \in Targets
      /\ s.target.kind = "time" => ParseTime(s.target) # <<>> /\ s.cutoff = ParseTime(s.target)[1]
      /\ Sequential(s.shows) /\ Sequential(s.paths) /\ Sequential(s.known)
      /\ Len(s.paths) = n /\ Len(s.known) = n /\ n <= Len(ExportPages) /\ n # Len(ExportPages)
      /\ Exactly(s.target, s.shows, s.known) /\ PathsApart(s.shows, s.paths)
  BY DEF ReaderSound, Reading
<1>2. /\ ShapedReader(t) /\ t.target = s.target /\ t.cutoff = s.cutoff
      /\ t.at = IF n + 1 = Len(ExportPages) THEN "building" ELSE "choosing"
      /\ t.shows = Append(s.shows, revision) /\ t.paths = Append(s.paths, path) /\ t.known = Append(s.known, known)
  BY <1>1, TakenIs
<1> HIDE DEF t
<1>3. n \in Nat /\ n + 1 <= Len(ExportPages) /\ Len(ExportPages) \in Nat
  BY <1>1, PagesAre DEF Sequential
<1>4. /\ Sequential(t.shows) /\ Len(t.shows) = n + 1 /\ DOMAIN s.shows = 1 .. n /\ DOMAIN t.shows = 1 .. n + 1
      /\ \A i \in 1 .. n : t.shows[i] = s.shows[i]
      /\ t.shows[n + 1] = revision
  BY <1>1, <1>2, Appended
<1>5. /\ Sequential(t.paths) /\ Len(t.paths) = n + 1 /\ DOMAIN s.paths = 1 .. n
      /\ \A i \in 1 .. n : t.paths[i] = s.paths[i]
      /\ t.paths[n + 1] = path
  BY <1>1, <1>2, Appended
<1>6. /\ Sequential(t.known) /\ Len(t.known) = n + 1
      /\ \A i \in 1 .. n : t.known[i] = s.known[i]
      /\ t.known[n + 1] = known
  BY <1>1, <1>2, Appended
<1> HIDE DEF n
<1>7. Exactly(t.target, t.shows, t.known)
  <2> SUFFICES ASSUME s.target.kind = "time", NEW i \in DOMAIN t.shows
               PROVE  t.shows[i] = NewestOf({r \in t.known[i] : ~Earlier(UtcTime(s.target), r.time)})
    BY <1>2 DEF Exactly
  <2>1. CASE i = n + 1
    BY <1>4, <1>6, <2>1
  <2>2. CASE i \in 1 .. n
    <3>1. s.shows[i] = NewestOf({r \in s.known[i] : ~Earlier(UtcTime(s.target), r.time)})
      BY <1>1, <1>4, <2>2 DEF Exactly
    <3> QED
      BY <1>4, <1>6, <2>2, <3>1
  <2> QED
    BY <1>3, <1>4, <2>1, <2>2
<1>8. PathsApart(t.shows, t.paths)
  <2>1. \A i \in 1 .. n : s.shows[i] # None => s.paths[i] # <<>>
    BY <1>1, <1>4 DEF PathsApart
  <2>2. \A i, j \in 1 .. n : i # j /\ s.shows[i] # None => s.paths[i] # s.paths[j]
    BY <1>1, <1>4 DEF PathsApart
  <2>3. revision # None => \A i \in 1 .. n : path # s.paths[i]
    BY <1>5 DEF ToSet
  <2>4. \A i \in 1 .. n + 1 : i \in 1 .. n \/ i = n + 1
    BY <1>3
  <2>5. \A i \in 1 .. n + 1 : t.shows[i] # None => t.paths[i] # <<>>
    BY <1>4, <1>5, <2>1, <2>4
  <2>6. \A i \in 1 .. n : t.shows[i] # None => t.paths[i] # t.paths[n + 1]
    <3> SUFFICES ASSUME NEW i \in 1 .. n, s.shows[i] # None PROVE s.paths[i] # path
      BY <1>4, <1>5
    <3> QED
      BY <2>1, <2>3
  <2>7. \A i, j \in 1 .. n + 1 : i # j /\ t.shows[i] # None => t.paths[i] # t.paths[j]
    <3> SUFFICES ASSUME NEW i \in 1 .. n + 1, NEW j \in 1 .. n + 1, i # j, t.shows[i] # None
                 PROVE  t.paths[i] # t.paths[j]
      OBVIOUS
    <3>1. CASE i \in 1 .. n /\ j \in 1 .. n
      BY <1>4, <1>5, <2>2, <3>1
    <3>2. CASE i \in 1 .. n /\ j = n + 1
      BY <2>6, <3>2
    <3>3. CASE i = n + 1 /\ j \in 1 .. n
      BY <1>4, <1>5, <2>3, <3>3
    <3> QED
      BY <2>4, <3>1, <3>2, <3>3
  <2> QED
    BY <1>4, <2>5, <2>7 DEF PathsApart
<1>9. t.at \in Reading /\ (t.at = "building" <=> n + 1 = Len(ExportPages))
  BY <1>2 DEF Reading
<1>10. ReaderSound(t)
  BY <1>1, <1>2, <1>3, <1>4, <1>5, <1>6, <1>7, <1>8, <1>9 DEF ReaderSound
<1> QED
  BY <1>9, <1>10 DEF SaverShaped, Holding, Staged, Backing, Reading, t

-----------------------------------------------------------------------------
(* Steps of one exporter. *)

Others(p) == saver' = [q \in Saver |-> saver'[q]] /\ \A q \in Saver \ {p} : saver'[q] = saver[q]
Grown(made, more) ==
  \A n \in DOMAIN made :
    n \in DOMAIN more /\ more[n].whole = made[n].whole /\ (made[n].durable => more[n].durable)

LEMMA Turns ==
  ASSUME SaversSound, NEW p \in Saver, NEW x, saver' = [saver EXCEPT ![p] = x]
  PROVE  Others(p) /\ saver'[p] = x
<1>1. saver = [q \in Saver |-> saver[q]]
  BY DEF SaversSound
<1>2. saver' = [q \in Saver |-> IF q = p THEN x ELSE saver[q]]
  BY <1>1
<1> QED
  BY <1>2 DEF Others

LEMMA GoneTo ==
  ASSUME SaversSound, NEW p \in Saver, saver[p].at \in Holding, NEW where, Goes(p, where), where \in Holding
  PROVE  /\ Others(p) /\ saver'[p].at = where /\ saver'[p].name = saver[p].name /\ saver'[p].is = saver[p].is
         /\ ReaderSound(saver'[p]) /\ SaverShaped(saver'[p])
<1> DEFINE s == saver[p]
           x == [s EXCEPT !.at = where]
<1>1. DOMAIN s = {"at", "name", "is"}
  BY DEF SaversSound, SaverShaped
<1>2. saver' = [saver EXCEPT ![p] = x]
  BY DEF SaversSound, Goes
<1> HIDE DEF s
<1>3. x.at = where /\ x.name = s.name /\ x.is = s.is /\ DOMAIN x = {"at", "name", "is"}
  BY <1>1
<1> HIDE DEF x
<1>4. Others(p) /\ saver'[p] = x
  BY <1>2, Turns
<1>5. ReaderSound(x) /\ SaverShaped(x)
  BY <1>3 DEF ReaderSound, SaverShaped, Reading, Holding, Staged, Backing
<1> QED
  BY <1>3, <1>4, <1>5 DEF s

LEMMA Ended ==
  ASSUME SaversSound, NEW p \in Saver, EndExport(p)
  PROVE  /\ Others(p) /\ saver'[p].at = "rest"
         /\ ReaderSound(saver'[p]) /\ SaverShaped(saver'[p])
<1>1. Others(p) /\ saver'[p] = Resting
  BY Turns DEF EndExport
<1>2. Resting.at = "rest"
  BY DEF Resting
<1> HIDE DEF Resting
<1> QED
  BY <1>1, <1>2 DEF ReaderSound, SaverShaped, Reading, Holding, Staged, Backing

LEMMA SaversTurn ==
  ASSUME SaversSound, NEW p \in Saver, Others(p), ReaderSound(saver'[p]), SaverShaped(saver'[p])
  PROVE  SaversSound'
BY DEF SaversSound, Others

LEMMA Steady ==
  ASSUME ExportInv, NEW p \in Saver, Others(p), UNCHANGED <<listed, listings, acknowledged>>,
         ExportsSound', Grown(exports, exports'),
         ReaderSound(saver'[p]), SaverShaped(saver'[p]), saver'[p].at \notin Backing \cup {"ending"},
         StagedHeld(p)', BackupHeld(p)'
  PROVE  ExportInv'
<1>1. SaversSound'
  BY SaversTurn DEF ExportInv
<1>2. /\ listed' = listed /\ listings' = listings /\ acknowledged' = acknowledged
      /\ \A n \in DOMAIN exports : /\ n \in DOMAIN exports' /\ exports'[n].whole = exports[n].whole
                                   /\ exports[n].durable => exports'[n].durable
  BY DEF Grown
<1>3. \A q \in Saver \ {p} : saver'[q] = saver[q]
  BY DEF Others
<1>4. ListingsSound'
  <2>1. listed \in listings /\ \A list \in listings : ListingSound(list, exports)
    BY DEF ExportInv, ListingsSound
  <2>2. \A list \in listings : ListingSound(list, exports')
    BY <1>2, <2>1 DEF ListingSound
  <2> QED
    BY <1>2, <2>1, <2>2 DEF ListingsSound
<1>5. Held'
  <2> SUFFICES ASSUME NEW q \in Saver \ {p} PROVE StagedHeld(q)' /\ BackupHeld(q)'
    BY DEF Held
  <2>1. StagedHeld(q) /\ BackupHeld(q) /\ saver'[q] = saver[q]
    BY <1>3 DEF ExportInv, Held
  <2>2. StagedHeld(q)'
    BY <1>2, <1>3, <2>1 DEF StagedHeld
  <2>3. BackupHeld(q)'
    <3>1. Backup(q)' = Backup(q) /\ Listed(Backup(q))' = Listed(Backup(q))
      BY <1>2, <2>1 DEF Backup, Listed
    <3>2. \A e \in listed : e[2] \in DOMAIN exports
      BY DEF ExportInv, ListingsSound, ListingSound
    <3> HIDE DEF Backup
    <3> QED
      BY <1>2, <2>1, <3>1, <3>2 DEF BackupHeld
  <2> QED
    BY <2>2, <2>3
<1>6. Kept'
  <2>1. \A e : (Going(e)' => Going(e)) /\ (ToGo(e)' => ToGo(e))
    BY <1>3 DEF Going, ToGo, Backing, Backup
  <2>2. \A name : Owed(name)' => Owed(name)
    BY <1>2, <1>3 DEF Owed
  <2>3. \A list \in listings : \A e \in list : e[2] \in DOMAIN exports
    BY DEF ExportInv, ListingsSound, ListingSound
  <2>4. listed \in listings
    BY DEF ExportInv, ListingsSound
  <2>5. \A list \in listings', name \in acknowledged' : \E e \in list : e[1][1] = name /\ exports'[e[2]].whole /\ ~Going(e)'
    BY <1>2, <2>1, <2>3 DEF ExportInv, Kept
  <2>6. \A name : Owed(name)' => \E e \in listed' : e[1][1] = name /\ exports'[e[2]].whole /\ ~ToGo(e)'
    BY <1>2, <2>1, <2>2, <2>3, <2>4 DEF ExportInv, Kept
  <2> QED
    BY <2>5, <2>6 DEF Kept
<1> QED
  BY <1>1, <1>4, <1>5, <1>6 DEF ExportInv

LEMMA EndedKeeps ==
  ASSUME ExportInv, NEW p \in Saver, EndExport(p), UNCHANGED <<exports, listed, listings, acknowledged>>
  PROVE  ExportInv'
<1>1. Others(p) /\ saver'[p].at = "rest" /\ ReaderSound(saver'[p]) /\ SaverShaped(saver'[p])
  BY Ended DEF ExportInv
<1>2. StagedHeld(p)' /\ BackupHeld(p)'
  BY <1>1 DEF StagedHeld, BackupHeld, Staged
<1>3. ExportsSound' /\ Grown(exports, exports')
  BY DEF ExportInv, ExportsSound, Grown, Exact, OnePathEach
<1> QED
  BY <1>1, <1>2, <1>3, Steady DEF Backing

LEMMA ListingOpened ==
  ASSUME ListingsSound, NEW list \in listings
  PROVE  /\ listed \in listings
         /\ \A e \in list : e = <<<<e[1][1], e[1][2]>>, e[2]>> /\ e[2] \in DOMAIN exports /\ exports[e[2]].durable
         /\ \A e, f \in list : e[1] = f[1] \/ e[2] = f[2] => e = f
         /\ \A e \in list : e[1][2] = 0 => exports[e[2]].whole
BY DEF ListingsSound, ListingSound

\* A renaming that leaves the backups of other exporters where they are.
LEMMA Renamed ==
  ASSUME ExportInv, NEW p \in Saver, Others(p), UNCHANGED <<exports, acknowledged>>,
         listings' = listings \cup {listed'}, ListingSound(listed', exports),
         ReaderSound(saver'[p]), SaverShaped(saver'[p]), saver'[p].at \notin {"dropping", "dropped"},
         StagedHeld(p)', BackupHeld(p)',
         \A q \in Saver \ {p} : saver[q].at \in Staged => \A e \in listed' : e[2] # saver[q].is,
         \A e : e[1][2] \notin {0, p} => (e \in listed' <=> e \in listed),
         \A name : Owed(name)' => \E e \in listed' : e[1][1] = name /\ exports[e[2]].whole /\ ~ToGo(e)'
  PROVE  ExportInv'
<1>1. SaversSound'
  BY SaversTurn DEF ExportInv
<1>2. \A q \in Saver \ {p} : saver'[q] = saver[q]
  BY DEF Others
<1>3. ExportsSound'
  BY DEF ExportInv, ExportsSound, Exact, OnePathEach
<1>4. ListingsSound'
  BY DEF ExportInv, ListingsSound
<1>5. Held'
  <2> SUFFICES ASSUME NEW q \in Saver \ {p} PROVE StagedHeld(q)' /\ BackupHeld(q)'
    BY DEF Held
  <2>1. StagedHeld(q) /\ BackupHeld(q) /\ saver'[q] = saver[q]
    BY <1>2 DEF ExportInv, Held
  <2>2. StagedHeld(q)'
    BY <1>2, <2>1 DEF StagedHeld
  <2>3. Backup(q)' = Backup(q) /\ Backup(q)[2] = q /\ q \notin {0, p}
    BY <2>1, ExportAssumption DEF Backup
  <2> HIDE DEF Backup
  <2>4. \A e : e[1] = Backup(q) => (e \in listed' <=> e \in listed)
    BY <2>3
  <2>5. Listed(Backup(q))' = Listed(Backup(q))
    BY <2>3, <2>4 DEF Listed
  <2>6. listed \in listings
    BY DEF ExportInv, ListingsSound
  <2>7. \A n : <<Backup(q), n>> \in listed => <<Backup(q), n>> \in listed'
    BY <2>4
  <2>8. BackupHeld(q)'
    BY <2>1, <2>3, <2>4, <2>5, <2>6, <2>7 DEF BackupHeld
  <2> QED
    BY <2>2, <2>8
<1>6. Kept'
  <2>1. \A e : (Going(e)' => Going(e)) /\ (Going(e)' => ToGo(e)')
    BY <1>2 DEF Going, ToGo, Backing, Backup
  <2>2. \A name \in acknowledged : Owed(name)'
    BY DEF Owed
  <2>3. \A list \in listings', name \in acknowledged' : \E e \in list : e[1][1] = name /\ exports'[e[2]].whole /\ ~Going(e)'
    <3> SUFFICES ASSUME NEW list \in listings', NEW name \in acknowledged
                 PROVE  \E e \in list : e[1][1] = name /\ exports[e[2]].whole /\ ~Going(e)'
      OBVIOUS
    <3>1. CASE list \in listings
      BY <2>1, <3>1 DEF ExportInv, Kept
    <3>2. CASE list = listed'
      BY <2>1, <2>2, <3>2
    <3> QED
      BY <3>1, <3>2
  <2> QED
    BY <2>3 DEF Kept
<1> QED
  BY <1>1, <1>3, <1>4, <1>5, <1>6 DEF ExportInv

\* A staging directory becomes the output.
LEMMA EnteringSound ==
  ASSUME ExportInv, NEW p \in Saver, saver[p].at \in Staged \ {"staged"}, ~Listed(Output(saver[p].name))
  PROVE  /\ ListingSound(Entering(p), exports)
         /\ \A q \in Saver \ {p} : saver[q].at \in Staged => \A e \in Entering(p) : e[2] # saver[q].is
         /\ \A e : e[1][2] \notin {0, p} => (e \in Entering(p) <=> e \in listed)
         /\ exports[saver[p].is].whole
<1> DEFINE new == <<Output(saver[p].name), saver[p].is>>
<1>1. /\ new = <<<<saver[p].name, 0>>, saver[p].is>> /\ Output(saver[p].name) = <<saver[p].name, 0>>
      /\ new[1] = Output(saver[p].name) /\ new[2] = saver[p].is /\ new[1][2] = 0 /\ new[1][1] = saver[p].name
  BY DEF Output
<1>2. StagedHeld(p)
  BY DEF ExportInv, Held
<1>3. ListingsSound /\ listed \in listings
  BY DEF ExportInv, ListingsSound
<1>4. new[2] \in DOMAIN exports /\ exports[new[2]].whole /\ exports[new[2]].durable /\ \A e \in listed : e[2] # new[2]
  BY <1>1, <1>2, <1>3 DEF StagedHeld
<1>5. \A e \in listed : e[1] # new[1]
  BY <1>1 DEF Listed
<1>6. new = <<<<new[1][1], new[1][2]>>, new[2]>>
  BY <1>1
<1>7. Entering(p) = listed \cup {new}
  BY DEF Entering
<1>8. \A q \in Saver \ {p} : saver[q].at \in Staged => new[2] # saver[q].is /\ \A e \in listed : e[2] # saver[q].is
  <2>1. \A q \in Saver : StagedHeld(q)
    BY DEF ExportInv, Held
  <2> QED
    BY <1>1, <1>3, <2>1 DEF StagedHeld
<1> HIDE DEF new
<1>9. ListingSound(Entering(p), exports)
  BY <1>3, <1>4, <1>5, <1>6, <1>7, ListingOpened DEF ListingSound
<1> QED
  BY <1>1, <1>4, <1>7, <1>8, <1>9

\* A directory goes to another place of its name.
LEMMA MoveSound ==
  ASSUME ExportInv, NEW name, NEW i, NEW j, ~Listed(<<name, j>>),
         \A e \in listed : e[1] = <<name, i>> => exports[e[2]].whole
  PROVE  /\ ListingSound(Move(<<name, i>>, <<name, j>>), exports)
         /\ \A e \in Move(<<name, i>>, <<name, j>>) : \E f \in listed : f[2] = e[2]
         /\ \A e : e[1][2] \notin {i, j} => (e \in Move(<<name, i>>, <<name, j>>) <=> e \in listed)
         /\ \A e \in listed : IF e[1] = <<name, i>> THEN <<<<name, j>>, e[2]>> \in Move(<<name, i>>, <<name, j>>)
                              ELSE e \in Move(<<name, i>>, <<name, j>>)
<1> DEFINE from == <<name, i>>
           to == <<name, j>>
           Moved(e) == IF e[1] = from THEN <<to, e[2]>> ELSE e
           M == Move(from, to)
<1>1. M = {Moved(e) : e \in listed}
  BY DEF Move
<1>2. \A e \in listed : /\ Moved(e)[2] = e[2]
                        /\ e[1] = from => Moved(e)[1] = to /\ Moved(e) = <<to, e[2]>>
                        /\ e[1] # from => Moved(e) = e
  OBVIOUS
<1>3. from = <<from[1], from[2]>> /\ to = <<to[1], to[2]>> /\ to[2] = j /\ from[2] = i /\ to[1] = name
  OBVIOUS
<1>4. ListingsSound /\ listed \in listings
  BY DEF ExportInv, ListingsSound
<1>5. \A e \in listed : e[1] # to
  BY DEF Listed
<1>6. \A e \in listed : e[1] = from => exports[e[2]].whole
  OBVIOUS
<1> HIDE DEF from, to, Moved, M
<1>7. \A e \in listed : Moved(e) = <<<<Moved(e)[1][1], Moved(e)[1][2]>>, Moved(e)[2]>>
  <2> SUFFICES ASSUME NEW e \in listed PROVE Moved(e) = <<<<Moved(e)[1][1], Moved(e)[1][2]>>, Moved(e)[2]>>
    OBVIOUS
  <2>1. CASE e[1] = from
    BY <1>2, <1>3, <2>1
  <2>2. CASE e[1] # from
    BY <1>2, <1>4, <2>2, ListingOpened
  <2> QED
    BY <2>1, <2>2
<1>8. \A e, f \in listed : Moved(e)[1] = Moved(f)[1] \/ Moved(e)[2] = Moved(f)[2] => Moved(e) = Moved(f)
  BY <1>2, <1>4, <1>5, ListingOpened
<1>9. \A e \in listed : Moved(e)[1][2] = 0 => exports[Moved(e)[2]].whole
  BY <1>2, <1>4, <1>6, ListingOpened
<1>10. ListingSound(M, exports)
  BY <1>1, <1>2, <1>4, <1>7, <1>8, <1>9, ListingOpened DEF ListingSound
<1>11. \A e : e[1][2] \notin {i, j} => (e \in M <=> e \in listed)
  BY <1>1, <1>2, <1>3
<1>12. \A e \in listed : IF e[1] = from THEN <<to, e[2]>> \in M ELSE e \in M
  BY <1>1, <1>2
<1> QED
  BY <1>1, <1>2, <1>10, <1>11, <1>12 DEF M, from, to

LEMMA OwedAfter ==
  ASSUME NEW p \in Saver, Others(p), acknowledged' = acknowledged
  PROVE  /\ \A e : ToGo(e)' => ToGo(e) \/ (saver'[p].at \in Backing /\ e[1] = <<saver'[p].name, p>>)
         /\ \A name : Owed(name)' =>
              Owed(name) \/ (saver'[p].at \in Backing \cup {"ending"} /\ name = saver'[p].name)
<1>1. \A q \in Saver : q = p \/ saver'[q] = saver[q]
  BY DEF Others
<1>2. \A e : ToGo(e)' => ToGo(e) \/ (saver'[p].at \in Backing /\ e[1] = <<saver'[p].name, p>>)
  BY <1>1 DEF ToGo, Backup
<1>3. \A name : Owed(name)' =>
              Owed(name) \/ (saver'[p].at \in Backing \cup {"ending"} /\ name = saver'[p].name)
  BY <1>1 DEF Owed
<1> QED
  BY <1>2, <1>3

LEMMA OwedNow ==
  ASSUME ExportInv, NEW name, Owed(name)
  PROVE  \E e \in listed : e[1][1] = name /\ exports[e[2]].whole /\ ~ToGo(e)
BY DEF ExportInv, Kept

LEMMA BackupsArePlaces == \A q \in Saver : q # 0 /\ Backup(q) = <<saver[q].name, q>>
BY ExportAssumption DEF Backup

LEMMA InstallFreshKeeps ==
  ASSUME ExportInv, NEW p \in Saver, InstallFresh(p)
  PROVE  ExportInv'
<1>1. /\ saver[p].at = "fresh"
      /\ IF Listed(Output(saver[p].name)) THEN EndExport(p) /\ ListingKept
         ELSE Rename(Entering(p)) /\ Goes(p, "ending")
      /\ UNCHANGED <<exports, acknowledged>>
  BY DEF InstallFresh
<1>2. CASE Listed(Output(saver[p].name))
  BY <1>1, <1>2, EndedKeeps DEF ListingKept
<1>3. CASE ~Listed(Output(saver[p].name))
  <2>1. listed' = Entering(p) /\ listings' = listings \cup {listed'} /\ Goes(p, "ending")
    BY <1>1, <1>3 DEF Rename
  <2>2. /\ Others(p) /\ saver'[p].at = "ending" /\ saver'[p].name = saver[p].name
        /\ ReaderSound(saver'[p]) /\ SaverShaped(saver'[p])
    BY <1>1, <2>1, GoneTo DEF ExportInv, Holding, Staged
  <2>3. /\ ListingSound(listed', exports) /\ exports[saver[p].is].whole
        /\ \A q \in Saver \ {p} : saver[q].at \in Staged => \A e \in listed' : e[2] # saver[q].is
        /\ \A e : e[1][2] \notin {0, p} => (e \in listed' <=> e \in listed)
    BY <1>1, <1>3, <2>1, EnteringSound DEF Staged
  <2>4. StagedHeld(p)' /\ BackupHeld(p)'
    BY <2>2 DEF StagedHeld, BackupHeld, Staged
  <2>5. \A name : Owed(name)' => \E e \in listed' : e[1][1] = name /\ exports[e[2]].whole /\ ~ToGo(e)'
    <3> SUFFICES ASSUME NEW name, Owed(name)'
                 PROVE  \E e \in listed' : e[1][1] = name /\ exports[e[2]].whole /\ ~ToGo(e)'
      OBVIOUS
    <3>1. \A e : ToGo(e)' => ToGo(e)
      BY <1>1, <2>2, OwedAfter DEF Backing
    <3>2. CASE Owed(name)
      <4>1. PICK e \in listed : e[1][1] = name /\ exports[e[2]].whole /\ ~ToGo(e)
        BY <3>2, OwedNow
      <4>2. e \in listed'
        BY <2>1 DEF Entering
      <4> QED
        BY <3>1, <4>1, <4>2
    <3>3. CASE name = saver[p].name
      <4> DEFINE e == <<<<saver[p].name, 0>>, saver[p].is>>
      <4>1. e \in listed' /\ e[1][1] = name /\ exports[e[2]].whole
        BY <2>1, <2>3, <3>3 DEF Entering, Output
      <4>2. ~ToGo(e)
        BY BackupsArePlaces DEF ToGo
      <4> QED
        BY <3>1, <4>1, <4>2
    <3> QED
      BY <1>1, <2>2, <3>2, <3>3, OwedAfter
  <2> QED
    BY <1>1, <2>1, <2>2, <2>3, <2>4, <2>5, Renamed
<1> QED
  BY <1>2, <1>3

LEMMA SetAsideKeeps ==
  ASSUME ExportInv, NEW p \in Saver, SetAside(p)
  PROVE  ExportInv'
<1> DEFINE out == <<saver[p].name, 0>>
           back == <<saver[p].name, p>>
<1>1. /\ saver[p].at = "aside" /\ Output(saver[p].name) = out /\ Backup(p) = back
      /\ IF Listed(out) THEN Rename(Move(out, back)) /\ Goes(p, "replacing") ELSE EndExport(p) /\ ListingKept
      /\ UNCHANGED <<exports, acknowledged>>
  BY DEF SetAside, Output, Backup
<1>2. CASE ~Listed(out)
  BY <1>1, <1>2, EndedKeeps DEF ListingKept
<1>3. CASE Listed(out)
  <2>1. listed' = Move(out, back) /\ listings' = listings \cup {listed'} /\ Goes(p, "replacing")
    BY <1>1, <1>3 DEF Rename
  <2>2. /\ Others(p) /\ saver'[p].at = "replacing" /\ saver'[p].name = saver[p].name /\ saver'[p].is = saver[p].is
        /\ ReaderSound(saver'[p]) /\ SaverShaped(saver'[p])
    BY <1>1, <2>1, GoneTo DEF ExportInv, Holding, Staged
  <2>3. ~Listed(back) /\ StagedHeld(p)
    BY <1>1 DEF ExportInv, Held, BackupHeld
  <2>4. ListingsSound /\ listed \in listings /\ \A e \in listed : e[1] = out => exports[e[2]].whole
    <3>1. ListingsSound /\ listed \in listings /\ out[2] = 0
      BY DEF ExportInv, ListingsSound
    <3> HIDE DEF out
    <3> QED
      BY <3>1, ListingOpened
  <2>5. /\ ListingSound(listed', exports)
        /\ \A e \in listed' : \E f \in listed : f[2] = e[2]
        /\ \A e : e[1][2] \notin {0, p} => (e \in listed' <=> e \in listed)
        /\ \A e \in listed : IF e[1] = out THEN <<back, e[2]>> \in listed' ELSE e \in listed'
    BY <2>1, <2>3, <2>4, MoveSound
  <2>6. \A q \in Saver : saver[q].at \in Staged => \A e \in listed' : e[2] # saver[q].is
    <3>1. \A q \in Saver : saver[q].at \in Staged => \A f \in listed : f[2] # saver[q].is
      BY <2>4 DEF ExportInv, Held, StagedHeld
    <3> QED
      BY <2>5, <3>1
  <2>7. StagedHeld(p)'
    <3>1. \A q \in Saver \ {p} : saver'[q] = saver[q]
      BY <2>2 DEF Others
    <3> QED
      BY <1>1, <2>1, <2>2, <2>3, <2>6, <3>1 DEF StagedHeld, Staged
  <2>8. BackupHeld(p)'
    <3>1. PICK f \in listed : f[1] = out
      BY <1>3 DEF Listed
    <3> DEFINE e == <<back, f[2]>>
    <3>2. e \in listed' /\ e[1] = back /\ exports[e[2]].whole
      BY <2>4, <2>5, <3>1
    <3>3. Backup(p)' = back
      BY <2>2 DEF Backup
    <3> HIDE DEF e, back
    <3> QED
      BY <1>1, <2>2, <3>2, <3>3 DEF BackupHeld
  <2>9. \A name : Owed(name)' => \E e \in listed' : e[1][1] = name /\ exports[e[2]].whole /\ ~ToGo(e)'
    <3> SUFFICES ASSUME NEW name, Owed(name)'
                 PROVE  \E e \in listed' : e[1][1] = name /\ exports[e[2]].whole /\ ~ToGo(e)'
      OBVIOUS
    <3>1. (\A e : ToGo(e)' => ToGo(e)) /\ Owed(name)
      BY <1>1, <2>2, OwedAfter DEF Backing
    <3>2. PICK e \in listed : e[1][1] = name /\ exports[e[2]].whole /\ ~ToGo(e)
      BY <3>1, OwedNow
    <3>3. CASE e[1] = out
      <4>1. PICK f \in listed' : f[1] = back /\ f[1][1] = name /\ exports[f[2]].whole
        <5>1. <<back, e[2]>> \in listed'
          BY <2>5, <3>2, <3>3
        <5> QED
          BY <3>2, <3>3, <5>1
      <4>2. ~ToGo(f)'
        <5>1. \A q \in Saver : saver'[q].at \in Backing => q # p
          BY <2>2 DEF Backing
        <5>2. \A q \in Saver : Backup(q)' = <<saver'[q].name, q>>
          BY DEF Backup
        <5> QED
          BY <4>1, <5>1, <5>2 DEF ToGo
      <4> QED
        BY <4>1, <4>2
    <3>4. CASE e[1] # out
      BY <2>5, <3>1, <3>2, <3>4
    <3> QED
      BY <3>3, <3>4
  <2> HIDE DEF out, back
  <2> QED
    BY <1>1, <2>1, <2>2, <2>5, <2>6, <2>7, <2>8, <2>9, Renamed
<1> QED
  BY <1>2, <1>3

LEMMA ReplaceKeeps ==
  ASSUME ExportInv, NEW p \in Saver, Replace(p)
  PROVE  ExportInv'
<1>1. /\ saver[p].at = "replacing"
      /\ IF Listed(Output(saver[p].name)) THEN EndExport(p) /\ ListingKept
         ELSE Rename(Entering(p)) /\ Goes(p, "settling")
      /\ UNCHANGED <<exports, acknowledged>>
  BY DEF Replace
<1>2. CASE Listed(Output(saver[p].name))
  BY <1>1, <1>2, EndedKeeps DEF ListingKept
<1>3. CASE ~Listed(Output(saver[p].name))
  <2>1. listed' = Entering(p) /\ listings' = listings \cup {listed'} /\ Goes(p, "settling")
    BY <1>1, <1>3 DEF Rename
  <2>2. /\ Others(p) /\ saver'[p].at = "settling" /\ saver'[p].name = saver[p].name
        /\ ReaderSound(saver'[p]) /\ SaverShaped(saver'[p])
    BY <1>1, <2>1, GoneTo DEF ExportInv, Holding, Staged, Backing
  <2>3. /\ ListingSound(listed', exports) /\ exports[saver[p].is].whole
        /\ \A q \in Saver \ {p} : saver[q].at \in Staged => \A e \in listed' : e[2] # saver[q].is
        /\ \A e : e[1][2] \notin {0, p} => (e \in listed' <=> e \in listed)
    BY <1>1, <1>3, <2>1, EnteringSound DEF Staged
  <2>4. \A e \in listed : e \in listed'
    BY <2>1 DEF Entering
  <2>5. StagedHeld(p)' /\ BackupHeld(p)'
    <3>1. \E e \in listed : e[1] = Backup(p)
      BY <1>1 DEF ExportInv, Held, BackupHeld
    <3>2. Backup(p)' = Backup(p)
      BY <2>2 DEF Backup
    <3> HIDE DEF Backup
    <3>3. Listed(Backup(p))'
      BY <2>4, <3>1, <3>2 DEF Listed
    <3> QED
      BY <2>2, <3>3 DEF StagedHeld, BackupHeld, Staged
  <2>6. \A name : Owed(name)' => \E e \in listed' : e[1][1] = name /\ exports[e[2]].whole /\ ~ToGo(e)'
    <3> SUFFICES ASSUME NEW name, Owed(name)'
                 PROVE  \E e \in listed' : e[1][1] = name /\ exports[e[2]].whole /\ ~ToGo(e)'
      OBVIOUS
    <3>1. \A e : ToGo(e)' => ToGo(e) \/ e[1] = <<saver[p].name, p>>
      BY <1>1, <2>2, OwedAfter
    <3>2. CASE name # saver[p].name
      <4>1. Owed(name)
        BY <1>1, <2>2, <3>2, OwedAfter
      <4>2. PICK e \in listed : e[1][1] = name /\ exports[e[2]].whole /\ ~ToGo(e)
        BY <4>1, OwedNow
      <4>3. e[1] # <<saver[p].name, p>>
        BY <3>2, <4>2
      <4> QED
        BY <2>4, <3>1, <4>2, <4>3
    <3>3. CASE name = saver[p].name
      <4> DEFINE e == <<<<saver[p].name, 0>>, saver[p].is>>
      <4>1. e \in listed' /\ e[1][1] = name /\ exports[e[2]].whole
        BY <2>1, <2>3, <3>3 DEF Entering, Output
      <4>2. ~ToGo(e) /\ e[1] # <<saver[p].name, p>>
        BY BackupsArePlaces DEF ToGo
      <4> QED
        BY <3>1, <4>1, <4>2
    <3> QED
      BY <3>2, <3>3
  <2> QED
    BY <1>1, <2>1, <2>2, <2>3, <2>5, <2>6, Renamed
<1> QED
  BY <1>2, <1>3

LEMMA RestoreBackupKeeps ==
  ASSUME ExportInv, NEW p \in Saver, RestoreBackup(p)
  PROVE  ExportInv'
<1> DEFINE out == <<saver[p].name, 0>>
           back == <<saver[p].name, p>>
<1>1. /\ saver[p].at = "replacing" /\ Output(saver[p].name) = out /\ Backup(p) = back
      /\ IF Listed(out) THEN ListingKept ELSE Rename(Move(back, out))
      /\ EndExport(p) /\ UNCHANGED <<exports, acknowledged>>
  BY DEF RestoreBackup, Output, Backup
<1>2. CASE Listed(out)
  BY <1>1, <1>2, EndedKeeps DEF ListingKept
<1>3. CASE ~Listed(out)
  <2>1. listed' = Move(back, out) /\ listings' = listings \cup {listed'}
    BY <1>1, <1>3 DEF Rename
  <2>2. Others(p) /\ saver'[p].at = "rest" /\ ReaderSound(saver'[p]) /\ SaverShaped(saver'[p])
    BY <1>1, Ended DEF ExportInv
  <2>3. ListingsSound /\ listed \in listings
    BY DEF ExportInv, ListingsSound
  <2>4. \A e \in listed : e[1] = back => exports[e[2]].whole
    <3>1. \E e \in listed : e[1] = back /\ exports[e[2]].whole
      BY <1>1 DEF ExportInv, Held, BackupHeld
    <3> HIDE DEF back
    <3> QED
      BY <2>3, <3>1, ListingOpened
  <2>5. /\ ListingSound(listed', exports)
        /\ \A e \in listed' : \E f \in listed : f[2] = e[2]
        /\ \A e : e[1][2] \notin {0, p} => (e \in listed' <=> e \in listed)
        /\ \A e \in listed : IF e[1] = back THEN <<out, e[2]>> \in listed' ELSE e \in listed'
    BY <1>3, <2>1, <2>4, MoveSound
  <2>6. \A q \in Saver : saver[q].at \in Staged => \A e \in listed' : e[2] # saver[q].is
    <3>1. \A q \in Saver : saver[q].at \in Staged => \A f \in listed : f[2] # saver[q].is
      BY <2>3 DEF ExportInv, Held, StagedHeld
    <3> QED
      BY <2>5, <3>1
  <2>7. StagedHeld(p)' /\ BackupHeld(p)'
    BY <2>2 DEF StagedHeld, BackupHeld, Staged
  <2>8. \A name : Owed(name)' => \E e \in listed' : e[1][1] = name /\ exports[e[2]].whole /\ ~ToGo(e)'
    <3> SUFFICES ASSUME NEW name, Owed(name)'
                 PROVE  \E e \in listed' : e[1][1] = name /\ exports[e[2]].whole /\ ~ToGo(e)'
      OBVIOUS
    <3>1. (\A e : ToGo(e)' => ToGo(e)) /\ Owed(name)
      BY <1>1, <2>2, OwedAfter DEF Backing
    <3>2. PICK e \in listed : e[1][1] = name /\ exports[e[2]].whole /\ ~ToGo(e)
      BY <3>1, OwedNow
    <3>3. CASE e[1] = back
      <4>1. PICK f \in listed' : f[1][1] = name /\ f[1][2] = 0 /\ exports[f[2]].whole
        <5>1. <<out, e[2]>> \in listed'
          BY <2>5, <3>2, <3>3
        <5> QED
          BY <3>2, <3>3, <5>1
      <4>2. ~ToGo(f)
        BY <4>1, BackupsArePlaces DEF ToGo
      <4> QED
        BY <3>1, <4>1, <4>2
    <3>4. CASE e[1] # back
      BY <2>5, <3>1, <3>2, <3>4
    <3> QED
      BY <3>3, <3>4
  <2> HIDE DEF out, back
  <2> QED
    BY <1>1, <2>1, <2>2, <2>5, <2>6, <2>7, <2>8, Renamed
<1> QED
  BY <1>2, <1>3

LEMMA RemoveBackupKeeps ==
  ASSUME ExportInv, NEW p \in Saver, RemoveBackup(p)
  PROVE  ExportInv'
<1>1. /\ saver[p].at = "dropped" /\ listed' = {e \in listed : e[1] # Backup(p)} /\ listings' = listings \cup {listed'}
      /\ Goes(p, "ending") /\ UNCHANGED <<exports, acknowledged>>
  BY DEF RemoveBackup, Rename
<1>2. /\ Others(p) /\ saver'[p].at = "ending" /\ saver'[p].name = saver[p].name
      /\ ReaderSound(saver'[p]) /\ SaverShaped(saver'[p])
  BY <1>1, GoneTo DEF ExportInv, Holding, Backing
<1>3. ListingsSound /\ listed \in listings
  BY DEF ExportInv, ListingsSound
<1>4. ListingSound(listed', exports)
  BY <1>1, <1>3, ListingOpened DEF ListingSound
<1>5. \A q \in Saver : saver[q].at \in Staged => \A e \in listed' : e[2] # saver[q].is
  BY <1>1, <1>3 DEF ExportInv, Held, StagedHeld
<1>6. StagedHeld(p)' /\ BackupHeld(p)'
  BY <1>2 DEF StagedHeld, BackupHeld, Staged
<1>7. \A e : e[1][2] \notin {0, p} => (e \in listed' <=> e \in listed)
  <2>1. Backup(p)[2] = p
    BY BackupsArePlaces
  <2> HIDE DEF Backup
  <2> QED
    BY <1>1, <2>1
<1>8. \A name : Owed(name)' => \E e \in listed' : e[1][1] = name /\ exports[e[2]].whole /\ ~ToGo(e)'
  <2> SUFFICES ASSUME NEW name, Owed(name)'
               PROVE  \E e \in listed' : e[1][1] = name /\ exports[e[2]].whole /\ ~ToGo(e)'
    OBVIOUS
  <2>1. \A e : ToGo(e)' => ToGo(e)
    BY <1>1, <1>2, OwedAfter DEF Backing
  <2>2. Owed(name)
    <3>1. Owed(name) \/ name = saver[p].name
      BY <1>1, <1>2, OwedAfter
    <3> QED
      BY <1>1, <3>1 DEF Owed, Backing
  <2>3. PICK e \in listed : e[1][1] = name /\ exports[e[2]].whole /\ ~ToGo(e)
    BY <2>2, OwedNow
  <2>4. e[1] # Backup(p)
    BY <1>1, <2>3 DEF ToGo, Backing
  <2> QED
    BY <1>1, <2>1, <2>3, <2>4
<1> QED
  BY <1>1, <1>2, <1>4, <1>5, <1>6, <1>7, <1>8, Renamed

-----------------------------------------------------------------------------
(* Syncing the listing. *)

LEMMA Synced ==
  ASSUME ExportInv, NEW p \in Saver, Others(p), UNCHANGED <<exports, listed>>, listings' = {listed},
         ReaderSound(saver'[p]), SaverShaped(saver'[p]), saver'[p].at \notin Staged, BackupHeld(p)',
         \A name \in acknowledged' : Owed(name),
         \A e : ToGo(e)' => ToGo(e),
         \A name : Owed(name)' => Owed(name)
  PROVE  ExportInv'
<1>1. SaversSound'
  BY SaversTurn DEF ExportInv
<1>2. \A q \in Saver \ {p} : saver'[q] = saver[q]
  BY DEF Others
<1>3. ExportsSound'
  BY DEF ExportInv, ExportsSound, Exact, OnePathEach
<1>4. ListingsSound' /\ listed \in listings
  BY DEF ExportInv, ListingsSound
<1>5. Held'
  <2>1. StagedHeld(p)'
    BY DEF StagedHeld
  <2> SUFFICES ASSUME NEW q \in Saver \ {p} PROVE StagedHeld(q)' /\ BackupHeld(q)'
    BY <2>1 DEF Held
  <2>2. StagedHeld(q) /\ BackupHeld(q) /\ saver'[q] = saver[q]
    BY <1>2 DEF ExportInv, Held
  <2>3. StagedHeld(q)'
    BY <1>2, <1>4, <2>2 DEF StagedHeld
  <2>4. Backup(q)' = Backup(q) /\ Listed(Backup(q))' = Listed(Backup(q))
    BY <2>2 DEF Backup, Listed
  <2> HIDE DEF Backup
  <2>5. BackupHeld(q)'
    BY <1>4, <2>2, <2>4 DEF BackupHeld
  <2> QED
    BY <2>3, <2>5
<1>6. Kept'
  <2>1. \A e : Going(e)' => ToGo(e)'
    BY DEF Going, ToGo, Backing, Backup
  <2> QED
    BY <2>1 DEF ExportInv, Kept
<1> QED
  BY <1>1, <1>3, <1>4, <1>5, <1>6 DEF ExportInv

LEMMA SettleKeeps ==
  ASSUME ExportInv, NEW p \in Saver, Settle(p)
  PROVE  ExportInv'
<1>1. /\ saver[p].at = "settling" /\ listings' = {listed} /\ Goes(p, "dropping")
      /\ UNCHANGED <<exports, listed, acknowledged>>
  BY DEF Settle
<1>2. /\ Others(p) /\ saver'[p].at = "dropping" /\ saver'[p].name = saver[p].name
      /\ ReaderSound(saver'[p]) /\ SaverShaped(saver'[p])
  BY <1>1, GoneTo DEF ExportInv, Holding, Backing
<1>3. BackupHeld(p)'
  <2>1. Listed(Backup(p)) /\ ListingsSound /\ listed \in listings
    BY <1>1 DEF ExportInv, Held, BackupHeld, ListingsSound
  <2>2. PICK e \in listed : e[1] = Backup(p)
    BY <2>1 DEF Listed
  <2>3. e = <<<<e[1][1], e[1][2]>>, e[2]>> /\ e[2] \in DOMAIN exports
    BY <2>1, ListingOpened
  <2>4. Backup(p)' = Backup(p)
    BY <1>2 DEF Backup
  <2> HIDE DEF Backup
  <2>5. <<Backup(p), e[2]>> \in listed
    <3>1. e = <<e[1], e[2]>>
      BY <2>3
    <3> QED
      BY <2>2, <3>1
  <2> QED
    BY <1>1, <1>2, <2>3, <2>4, <2>5 DEF BackupHeld
<1>4. \A e : ToGo(e)' => ToGo(e)
  <2>1. \A e : ToGo(e)' => ToGo(e) \/ e[1] = <<saver[p].name, p>>
    BY <1>1, <1>2, OwedAfter
  <2> QED
    BY <1>1, <2>1 DEF ToGo, Backing, Backup
<1>5. \A name : Owed(name)' => Owed(name)
  <2>1. \A name : Owed(name)' => Owed(name) \/ name = saver[p].name
    BY <1>1, <1>2, OwedAfter
  <2> QED
    BY <1>1, <2>1 DEF Owed, Backing
<1>6. \A name \in acknowledged' : Owed(name)
  BY <1>1 DEF Owed
<1> QED
  BY <1>1, <1>2, <1>3, <1>4, <1>5, <1>6, Synced DEF Staged

LEMMA AcknowledgeKeeps ==
  ASSUME ExportInv, NEW p \in Saver, Acknowledge(p)
  PROVE  ExportInv'
<1>1. /\ saver[p].at = "ending" /\ listings' = {listed} /\ EndExport(p)
      /\ acknowledged' = acknowledged \cup {saver[p].name} /\ UNCHANGED <<exports, listed>>
  BY DEF Acknowledge
<1>2. Others(p) /\ saver'[p].at = "rest" /\ ReaderSound(saver'[p]) /\ SaverShaped(saver'[p])
  BY <1>1, Ended DEF ExportInv
<1>3. BackupHeld(p)'
  BY <1>2 DEF BackupHeld
<1>4. \A name \in acknowledged' : Owed(name)
  BY <1>1 DEF Owed
<1>5. \A q \in Saver : q = p \/ saver'[q] = saver[q]
  BY <1>2 DEF Others
<1>6. \A e : ToGo(e)' => ToGo(e)
  BY <1>2, <1>5 DEF ToGo, Backing, Backup
<1>7. \A name : Owed(name)' => Owed(name)
  BY <1>2, <1>4, <1>5 DEF Owed, Backing
<1> QED
  BY <1>1, <1>2, <1>3, <1>4, <1>6, <1>7, Synced DEF Staged

-----------------------------------------------------------------------------
(* What becomes of the exports. *)

LEMMA EntryPut ==
  ASSUME NEW s, Sequential(s), NEW n \in DOMAIN s, NEW x
  PROVE  LET t == [s EXCEPT ![n] = x] IN
         /\ Sequential(t) /\ DOMAIN t = DOMAIN s /\ Len(t) = Len(s)
         /\ t[n] = x /\ \A m \in DOMAIN s : m # n => t[m] = s[m]
<1> DEFINE k == Len(s)
           S == {s[i] : i \in 1 .. k} \cup {x}
           t == [s EXCEPT ![n] = x]
<1>1. k \in Nat /\ s = [i \in 1 .. k |-> s[i]]
  BY DEF Sequential
<1>2. s \in [1 .. k -> S]
  BY <1>1
<1>3. t \in [1 .. k -> S] /\ t[n] = x /\ DOMAIN s = 1 .. k /\ \A m \in DOMAIN s : m # n => t[m] = s[m]
  BY <1>1, <1>2
<1> HIDE DEF S, t, k
<1>4. s \in Seq(S) /\ t \in Seq(S)
  BY <1>1, <1>2, <1>3
<1>5. Len(t) = k /\ DOMAIN t = 1 .. k
  BY <1>1, <1>3, <1>4
<1> QED
  BY <1>1, <1>3, <1>4, <1>5 DEF Sequential, k, t

LEMMA EntryMarked ==
  ASSUME NEW e, ExportShaped(e), Exact(e), OnePathEach(e), NEW b
  PROVE  /\ ExportShaped([e EXCEPT !.whole = b]) /\ ExportShaped([e EXCEPT !.durable = b])
         /\ Exact([e EXCEPT !.whole = b]) /\ Exact([e EXCEPT !.durable = b])
         /\ OnePathEach([e EXCEPT !.whole = b]) /\ OnePathEach([e EXCEPT !.durable = b])
         /\ [e EXCEPT !.whole = b].durable = e.durable /\ [e EXCEPT !.durable = b].whole = e.whole
         /\ [e EXCEPT !.whole = b].whole = b /\ [e EXCEPT !.durable = b].durable = b
<1> DEFINE w == [e EXCEPT !.whole = b]
           d == [e EXCEPT !.durable = b]
<1>1. DOMAIN e = {"name", "target", "shows", "paths", "known", "whole", "durable"}
  BY DEF ExportShaped
<1>2. /\ w.target = e.target /\ w.shows = e.shows /\ w.paths = e.paths /\ w.known = e.known
      /\ w.durable = e.durable /\ w.whole = b /\ DOMAIN w = DOMAIN e
  BY <1>1
<1>3. /\ d.target = e.target /\ d.shows = e.shows /\ d.paths = e.paths /\ d.known = e.known
      /\ d.whole = e.whole /\ d.durable = b /\ DOMAIN d = DOMAIN e
  BY <1>1
<1> HIDE DEF w, d
<1>4. ExportShaped(w) /\ Exact(w) /\ OnePathEach(w)
  BY <1>1, <1>2 DEF ExportShaped, Exact, OnePathEach
<1>5. ExportShaped(d) /\ Exact(d) /\ OnePathEach(d)
  BY <1>1, <1>3 DEF ExportShaped, Exact, OnePathEach
<1> QED
  BY <1>2, <1>3, <1>4, <1>5 DEF w, d

LEMMA DropBackupKeeps ==
  ASSUME ExportInv, NEW p \in Saver, DropBackup(p)
  PROVE  ExportInv'
<1> DEFINE gone == Occupant(Backup(p))
<1>1. /\ saver[p].at = "dropping" /\ Goes(p, "dropped") /\ exports' = [exports EXCEPT ![gone].whole = FALSE]
      /\ UNCHANGED <<listed, listings, acknowledged>>
  BY DEF DropBackup, ListingKept
<1>2. /\ Others(p) /\ saver'[p].at = "dropped" /\ saver'[p].name = saver[p].name
      /\ ReaderSound(saver'[p]) /\ SaverShaped(saver'[p])
  BY <1>1, GoneTo DEF ExportInv, Holding, Backing
<1>3. ListingsSound /\ listed \in listings
  BY DEF ExportInv, ListingsSound
<1>4. PICK n \in DOMAIN exports : \A list \in listings : <<Backup(p), n>> \in list
  BY <1>1 DEF ExportInv, Held, BackupHeld
<1>5. \A q \in Saver : q # 0 /\ Backup(q)[2] = q /\ (saver'[q].name = saver[q].name => Backup(q)' = Backup(q))
  BY ExportAssumption DEF Backup
<1>6. \A q \in Saver \ {p} : saver'[q] = saver[q]
  BY <1>2 DEF Others
<1>7. \A q \in Saver : Backup(q)' = Backup(q)
  BY <1>2, <1>5, <1>6
<1>8. gone = n
  <2> HIDE DEF Backup
  <2>1. \E e \in listed : e[1] = Backup(p)
    BY <1>3, <1>4
  <2>2. (CHOOSE e \in listed : e[1] = Backup(p)) \in listed /\ (CHOOSE e \in listed : e[1] = Backup(p))[1] = Backup(p)
    BY <2>1
  <2> DEFINE e == CHOOSE e \in listed : e[1] = Backup(p)
             f == <<Backup(p), n>>
  <2>3. e \in listed /\ f \in listed /\ e[1] = f[1] /\ f[2] = n
    BY <1>3, <1>4, <2>2
  <2>4. gone = e[2]
    BY DEF Occupant
  <2> HIDE DEF e, f
  <2> QED
    BY <1>3, <2>3, <2>4, ListingOpened
<1> HIDE DEF gone, Backup
<1>9. \A list \in listings : \A e \in list : e[2] = n => e[1] = Backup(p)
  <2> SUFFICES ASSUME NEW list \in listings, NEW e \in list, e[2] = n PROVE e[1] = Backup(p)
    OBVIOUS
  <2> DEFINE f == <<Backup(p), n>>
  <2>1. f \in list /\ f[2] = n /\ f[1] = Backup(p)
    BY <1>4
  <2> HIDE DEF f
  <2> QED
    BY <1>3, <2>1, ListingOpened
<1>10. Sequential(exports) /\ \A m \in DOMAIN exports : ExportShaped(exports[m]) /\ Exact(exports[m]) /\ OnePathEach(exports[m])
  BY DEF ExportInv, ExportsSound
<1>11. /\ DOMAIN exports' = DOMAIN exports /\ Sequential(exports')
       /\ \A m \in DOMAIN exports : m # n => exports'[m] = exports[m]
       /\ exports'[n] = [exports[n] EXCEPT !.whole = FALSE]
  <2>1. exports' = [exports EXCEPT ![n] = [exports[n] EXCEPT !.whole = FALSE]]
    BY <1>1, <1>8
  <2> QED
    BY <1>4, <1>10, <2>1, EntryPut
<1>12. /\ ExportShaped(exports'[n]) /\ Exact(exports'[n]) /\ OnePathEach(exports'[n])
       /\ exports'[n].durable = exports[n].durable
  <2>1. ExportShaped(exports[n]) /\ Exact(exports[n]) /\ OnePathEach(exports[n])
    BY <1>4, <1>10
  <2> DEFINE x == [exports[n] EXCEPT !.whole = FALSE]
  <2>2. ExportShaped(x) /\ Exact(x) /\ OnePathEach(x) /\ x.durable = exports[n].durable
    BY <2>1, EntryMarked
  <2>3. exports'[n] = x
    BY <1>11
  <2> HIDE DEF x
  <2> QED
    BY <2>2, <2>3
<1>13. \A m \in DOMAIN exports : exports'[m].durable = exports[m].durable /\ (m # n => exports'[m].whole = exports[m].whole)
  BY <1>11, <1>12
<1>14. ExportsSound'
  <2>1. \A m \in DOMAIN exports' : ExportShaped(exports'[m]) /\ Exact(exports'[m]) /\ OnePathEach(exports'[m])
    BY <1>10, <1>11, <1>12
  <2> QED
    BY <1>11, <2>1 DEF ExportsSound
<1>15. SaversSound'
  BY <1>2, SaversTurn DEF ExportInv
<1>16. ListingsSound'
  <2> SUFFICES ASSUME NEW list \in listings PROVE ListingSound(list, exports')
    BY <1>1, <1>3 DEF ListingsSound
  <2>1. \A e \in list : e[1][2] = 0 => e[2] # n
    BY <1>5, <1>9
  <2> QED
    BY <1>3, <1>11, <1>13, <2>1, ListingOpened DEF ListingSound
<1>17. Held'
  <2> SUFFICES ASSUME NEW q \in Saver PROVE StagedHeld(q)' /\ BackupHeld(q)'
    BY DEF Held
  <2>1. StagedHeld(q) /\ BackupHeld(q)
    BY DEF ExportInv, Held
  <2>2. CASE q = p
    <3>1. StagedHeld(p)'
      BY <1>2 DEF StagedHeld, Staged
    <3>2. BackupHeld(p)'
      BY <1>1, <1>2, <1>4, <1>7, <1>11 DEF BackupHeld
    <3> QED
      BY <2>2, <3>1, <3>2
  <2>3. CASE q # p
    <3>1. saver'[q] = saver[q]
      BY <1>6, <2>3
    <3>2. saver[q].at \in Staged => saver[q].is # n
      BY <1>3, <1>4, <2>1 DEF StagedHeld
    <3>3. StagedHeld(q)'
      <4>1. \A r \in Saver \ {q} : saver'[r].at \in Staged => saver[r].at \in Staged /\ saver'[r].is = saver[r].is
        BY <1>2, <1>6 DEF Staged
      <4>2. saver[q].at \in Staged =>
              /\ saver[q].is \in DOMAIN exports' /\ exports'[saver[q].is].whole
              /\ saver[q].at # "staged" => exports'[saver[q].is].durable
        BY <1>11, <1>13, <2>1, <3>2 DEF StagedHeld
      <4>3. saver[q].at \in Staged =>
              /\ \A list \in listings : \A e \in list : e[2] # saver[q].is
              /\ \A r \in Saver \ {q} : saver'[r].at \in Staged => saver'[r].is # saver[q].is
        BY <2>1, <4>1 DEF StagedHeld
      <4> QED
        BY <1>1, <3>1, <4>2, <4>3 DEF StagedHeld
    <3>4. \A e \in listed : e[1] = Backup(q) => e[2] # n /\ e[2] \in DOMAIN exports
      <4>1. Backup(q) # Backup(p)
        BY <1>5, <2>3
      <4> QED
        BY <1>3, <1>9, <4>1, ListingOpened
    <3>5. BackupHeld(q)'
      <4>1. saver[q].at = "replacing" => \E e \in listed : e[1] = Backup(q) /\ exports'[e[2]].whole
        BY <1>13, <2>1, <3>4 DEF BackupHeld
      <4>2. saver[q].at \in {"dropping", "dropped"} =>
              \E m \in DOMAIN exports' : \A list \in listings : <<Backup(q), m>> \in list
        BY <1>11, <2>1 DEF BackupHeld
      <4>3. Listed(Backup(q))' = Listed(Backup(q)) /\ Backup(q)' = Backup(q)
        BY <1>1, <1>7 DEF Listed
      <4> QED
        BY <1>1, <2>1, <3>1, <4>1, <4>2, <4>3 DEF BackupHeld
    <3> QED
      BY <3>3, <3>5
  <2> QED
    BY <2>2, <2>3
<1>18. Kept'
  <2>1. \A e : Going(e)' => ToGo(e) /\ Going(e)
    BY <1>1, <1>2, <1>6, <1>7 DEF Going, ToGo, Backing
  <2>2. \A e : ToGo(e)' => ToGo(e)
    BY <1>1, <1>2, <1>6, <1>7 DEF ToGo, Backing
  <2>3. \A name : Owed(name)' => Owed(name)
    <3>1. \A name : Owed(name)' => Owed(name) \/ name = saver[p].name
      BY <1>1, <1>2, OwedAfter
    <3> QED
      BY <1>1, <3>1 DEF Owed, Backing
  <2>4. \A e : e[1] = Backup(p) => Going(e) /\ ToGo(e)
    BY <1>1 DEF Going, ToGo, Backing
  <2>5. \A list \in listings : \A e \in list : ~Going(e) => exports'[e[2]].whole = exports[e[2]].whole
    BY <1>3, <1>9, <1>13, <2>4, ListingOpened
  <2>6. \A e \in listed : ~ToGo(e) => exports'[e[2]].whole = exports[e[2]].whole
    BY <1>3, <1>9, <1>13, <2>4, ListingOpened
  <2>7. \A list \in listings, name \in acknowledged :
          \E e \in list : e[1][1] = name /\ exports[e[2]].whole /\ ~Going(e)
    BY DEF ExportInv, Kept
  <2>8. \A list \in listings, name \in acknowledged :
          \E e \in list : e[1][1] = name /\ exports'[e[2]].whole /\ ~Going(e)'
    BY <2>1, <2>5, <2>7
  <2>9. \A name : Owed(name)' => \E e \in listed : e[1][1] = name /\ exports'[e[2]].whole /\ ~ToGo(e)'
    <3> SUFFICES ASSUME NEW name, Owed(name)'
                 PROVE  \E e \in listed : e[1][1] = name /\ exports'[e[2]].whole /\ ~ToGo(e)'
      OBVIOUS
    <3>1. PICK e \in listed : e[1][1] = name /\ exports[e[2]].whole /\ ~ToGo(e)
      BY <2>3, OwedNow
    <3> QED
      BY <2>2, <2>6, <3>1
  <2> QED
    BY <1>1, <2>8, <2>9 DEF Kept
<1> QED
  BY <1>14, <1>15, <1>16, <1>17, <1>18 DEF ExportInv

LEMMA EntriesMapped ==
  ASSUME NEW s, Sequential(s), NEW t, t = [n \in DOMAIN s |-> t[n]]
  PROVE  Sequential(t) /\ DOMAIN t = DOMAIN s
<1> DEFINE k == Len(s)
           S == {t[i] : i \in 1 .. k}
<1>1. k \in Nat /\ DOMAIN s = 1 .. k
  BY DEF Sequential
<1>2. t \in [1 .. k -> S]
  BY <1>1
<1> HIDE DEF S, k
<1>3. t \in Seq(S) /\ DOMAIN t = 1 .. k
  BY <1>1, <1>2
<1>4. Len(t) = k
  BY <1>1, <1>3
<1> QED
  BY <1>1, <1>2, <1>3, <1>4 DEF Sequential

LEMMA LosePowerKeeps ==
  ASSUME ExportInv, LosePower
  PROVE  ExportInv'
<1>1. /\ listed' \in listings /\ listings' = {listed'} /\ acknowledged' = acknowledged
      /\ exports' = [n \in DOMAIN exports |-> [exports[n] EXCEPT !.whole = @ /\ exports[n].durable]]
      /\ saver' = [p \in Saver |-> Resting]
  BY DEF LosePower
<1>2. Sequential(exports) /\ \A n \in DOMAIN exports : ExportShaped(exports[n]) /\ Exact(exports[n]) /\ OnePathEach(exports[n])
  BY DEF ExportInv, ExportsSound
<1>3. Sequential(exports') /\ DOMAIN exports' = DOMAIN exports
  BY <1>1, <1>2, EntriesMapped
<1>4. ASSUME NEW n \in DOMAIN exports
      PROVE  /\ ExportShaped(exports'[n]) /\ Exact(exports'[n]) /\ OnePathEach(exports'[n])
             /\ exports'[n].durable = exports[n].durable
             /\ exports'[n].whole = (exports[n].whole /\ exports[n].durable)
  <2>1. PICK b : b = (exports[n].whole /\ exports[n].durable)
    OBVIOUS
  <2> DEFINE x == [exports[n] EXCEPT !.whole = b]
  <2>2. exports'[n] = x
    BY <1>1, <2>1
  <2>3. ExportShaped(exports[n]) /\ Exact(exports[n]) /\ OnePathEach(exports[n])
    BY <1>2
  <2>4. x.whole = b
    BY <2>3 DEF ExportShaped
  <2>5. ExportShaped(x) /\ Exact(x) /\ OnePathEach(x) /\ x.durable = exports[n].durable
    BY <2>3, EntryMarked
  <2> HIDE DEF x
  <2> QED
    BY <2>1, <2>2, <2>4, <2>5
<1>5. ExportsSound'
  <2>1. \A n \in DOMAIN exports' : ExportShaped(exports'[n]) /\ Exact(exports'[n]) /\ OnePathEach(exports'[n])
    BY <1>3, <1>4
  <2> QED
    BY <1>3, <2>1 DEF ExportsSound
<1>6. \A p \in Saver : saver'[p].at = "rest"
  BY <1>1 DEF Resting
<1>7. SaversSound'
  <2>1. saver' = [p \in Saver |-> saver'[p]]
    BY <1>1
  <2> QED
    BY <1>6, <2>1 DEF SaversSound, ReaderSound, SaverShaped, Reading, Holding, Staged, Backing
<1>8. ListingsSound /\ \A e \in listed' : e[2] \in DOMAIN exports /\ exports[e[2]].durable
  BY <1>1, ListingOpened DEF ExportInv
<1>9. \A e \in listed' : exports'[e[2]].durable /\ (exports[e[2]].whole => exports'[e[2]].whole)
  BY <1>4, <1>8
<1>10. ListingsSound'
  <2>1. ListingSound(listed', exports')
    BY <1>1, <1>3, <1>8, <1>9, ListingOpened DEF ListingSound
  <2> QED
    BY <1>1, <2>1 DEF ListingsSound
<1>11. Held'
  BY <1>6 DEF Held, StagedHeld, BackupHeld, Staged
<1>12. Kept'
  <2>1. (\A e : ~Going(e)' /\ ~ToGo(e)') /\ \A name : Owed(name)' => name \in acknowledged
    BY <1>1, <1>6 DEF Going, ToGo, Owed, Backing
  <2>2. \A name \in acknowledged : \E e \in listed' : e[1][1] = name /\ exports[e[2]].whole
    BY <1>1 DEF ExportInv, Kept
  <2>3. \A name \in acknowledged : \E e \in listed' : e[1][1] = name /\ exports'[e[2]].whole
    BY <1>9, <2>2
  <2>4. \A list \in listings', name \in acknowledged' :
          \E e \in list : e[1][1] = name /\ exports'[e[2]].whole /\ ~Going(e)'
    <3> SUFFICES ASSUME NEW list \in listings', NEW name \in acknowledged'
                 PROVE  \E e \in list : e[1][1] = name /\ exports'[e[2]].whole /\ ~Going(e)'
      OBVIOUS
    <3>1. PICK e \in listed' : e[1][1] = name /\ exports'[e[2]].whole
      BY <1>1, <2>3
    <3>2. list = listed' /\ ~Going(e)'
      BY <1>1, <2>1
    <3> QED
      BY <3>1, <3>2
  <2>5. \A name : Owed(name)' => \E e \in listed' : e[1][1] = name /\ exports'[e[2]].whole /\ ~ToGo(e)'
    BY <2>1, <2>3
  <2> QED
    BY <2>4, <2>5 DEF Kept
<1> QED
  BY <1>5, <1>7, <1>10, <1>11, <1>12 DEF ExportInv

-----------------------------------------------------------------------------
(* Taking the pages, staging and looking at the output. *)

LEMMA Grows ==
  ASSUME ExportInv, UNCHANGED exports
  PROVE  ExportsSound' /\ Grown(exports, exports')
BY DEF ExportInv, ExportsSound, Grown, Exact, OnePathEach

LEMMA LookAtOutputKeeps ==
  ASSUME ExportInv, NEW p \in Saver, LookAtOutput(p)
  PROVE  ExportInv'
<1>1. /\ saver[p].at = "installing"
      /\ IF ~Listed(Output(saver[p].name)) THEN Goes(p, "fresh")
         ELSE IF Listed(Backup(p)) THEN EndExport(p) ELSE Goes(p, "aside")
      /\ UNCHANGED <<exports, listed, listings, acknowledged>>
  BY DEF LookAtOutput, ListingKept
<1>2. CASE EndExport(p)
  BY <1>1, <1>2, EndedKeeps
<1>3. CASE \E where \in {"fresh", "aside"} : Goes(p, where) /\ (where = "aside" => ~Listed(Backup(p)))
  <2>1. PICK where \in {"fresh", "aside"} : Goes(p, where) /\ (where = "aside" => ~Listed(Backup(p)))
    BY <1>3
  <2>2. /\ Others(p) /\ saver'[p].at = where /\ saver'[p].name = saver[p].name /\ saver'[p].is = saver[p].is
        /\ ReaderSound(saver'[p]) /\ SaverShaped(saver'[p])
    BY <1>1, <2>1, GoneTo DEF ExportInv, Holding, Staged
  <2>3. \A q \in Saver \ {p} : saver'[q] = saver[q]
    BY <2>2 DEF Others
  <2>4. StagedHeld(p)
    BY DEF ExportInv, Held
  <2>5. StagedHeld(p)'
    BY <1>1, <2>2, <2>3, <2>4 DEF StagedHeld, Staged
  <2>6. Backup(p)' = Backup(p) /\ Listed(Backup(p))' = Listed(Backup(p))
    BY <1>1, <2>2 DEF Backup, Listed
  <2> HIDE DEF Backup
  <2>7. BackupHeld(p)'
    BY <2>1, <2>2, <2>6 DEF BackupHeld
  <2> QED
    BY <1>1, <2>1, <2>2, <2>5, <2>7, Grows, Steady DEF Backing
<1> QED
  BY <1>1, <1>2, <1>3

LEMMA SyncStagingKeeps ==
  ASSUME ExportInv, NEW p \in Saver, SyncStaging(p)
  PROVE  ExportInv'
<1> DEFINE n == saver[p].is
           x == [exports[n] EXCEPT !.durable = TRUE]
<1>1. /\ saver[p].at = "staged" /\ Goes(p, "installing") /\ exports' = [exports EXCEPT ![n] = x]
      /\ UNCHANGED <<listed, listings, acknowledged>>
  BY DEF SyncStaging, ListingKept
<1>2. /\ Others(p) /\ saver'[p].at = "installing" /\ saver'[p].name = saver[p].name /\ saver'[p].is = n
      /\ ReaderSound(saver'[p]) /\ SaverShaped(saver'[p])
  BY <1>1, GoneTo DEF ExportInv, Holding, Staged
<1>3. StagedHeld(p)
  BY DEF ExportInv, Held
<1>4. n \in DOMAIN exports /\ exports[n].whole
  BY <1>1, <1>3 DEF StagedHeld, Staged
<1>5. Sequential(exports) /\ \A m \in DOMAIN exports : ExportShaped(exports[m]) /\ Exact(exports[m]) /\ OnePathEach(exports[m])
  BY DEF ExportInv, ExportsSound
<1>6. ExportShaped(x) /\ Exact(x) /\ OnePathEach(x) /\ x.whole = exports[n].whole /\ x.durable = TRUE
  BY <1>4, <1>5, EntryMarked
<1> HIDE DEF x
<1>7. /\ Sequential(exports') /\ DOMAIN exports' = DOMAIN exports /\ exports'[n] = x
      /\ \A m \in DOMAIN exports : m # n => exports'[m] = exports[m]
  BY <1>1, <1>4, <1>5, EntryPut
<1>8. \A q \in Saver \ {p} : saver'[q] = saver[q]
  BY <1>2 DEF Others
<1> HIDE DEF n
<1>9. ExportsSound' /\ Grown(exports, exports')
  <2>1. \A m \in DOMAIN exports' : ExportShaped(exports'[m]) /\ Exact(exports'[m]) /\ OnePathEach(exports'[m])
    BY <1>5, <1>6, <1>7
  <2>2. Grown(exports, exports')
    BY <1>6, <1>7 DEF Grown
  <2> QED
    BY <1>7, <2>1, <2>2 DEF ExportsSound
<1>10. StagedHeld(p)'
  <2>1. /\ \A list \in listings : \A e \in list : e[2] # n
        /\ \A q \in Saver \ {p} : saver[q].at \in Staged => saver[q].is # n
    BY <1>1, <1>3 DEF StagedHeld, Staged, n
  <2>2. exports'[n].whole /\ exports'[n].durable /\ n \in DOMAIN exports'
    BY <1>4, <1>6, <1>7
  <2> QED
    BY <1>1, <1>2, <1>8, <2>1, <2>2 DEF StagedHeld
<1>11. BackupHeld(p)'
  BY <1>2 DEF BackupHeld
<1> QED
  BY <1>1, <1>2, <1>9, <1>10, <1>11, Steady DEF Backing

LEMMA BuildKeeps ==
  ASSUME ExportInv, NEW p \in Saver, Build(p)
  PROVE  ExportInv'
<1> DEFINE s == saver[p]
           new == [name |-> s.name, target |-> s.target, shows |-> s.shows, paths |-> s.paths,
                   known |-> s.known, whole |-> TRUE, durable |-> FALSE]
           x == [at |-> "staged", name |-> s.name, is |-> Len(exports) + 1]
<1>1. /\ s.at = "building" /\ UNCHANGED <<listed, listings, acknowledged>>
      /\ \/ exports' = Append(exports, new) /\ saver' = [saver EXCEPT ![p] = x]
         \/ EndExport(p) /\ UNCHANGED exports
  BY DEF Build, ListingKept
<1>2. CASE EndExport(p) /\ UNCHANGED exports
  BY <1>1, <1>2, EndedKeeps
<1>3. CASE exports' = Append(exports, new) /\ saver' = [saver EXCEPT ![p] = x]
  <2>1. ReaderSound(s)
    BY DEF ExportInv, SaversSound
  <2>2. /\ Sequential(s.shows) /\ Len(s.shows) = Len(ExportPages)
        /\ Exactly(s.target, s.shows, s.known) /\ PathsApart(s.shows, s.paths)
    BY <1>1, <2>1 DEF ReaderSound, Reading
  <2>3. DOMAIN s.shows = Pages
    BY <2>2, PagesAre DEF Sequential
  <2>4. /\ new.target = s.target /\ new.shows = s.shows /\ new.paths = s.paths /\ new.known = s.known
        /\ new.whole = TRUE /\ ExportShaped(new)
    BY DEF ExportShaped
  <2>5. x.at = "staged" /\ x.is = Len(exports) + 1 /\ DOMAIN x = {"at", "name", "is"}
    OBVIOUS
  <2> HIDE DEF new, x, s
  <2>6. Exact(new) /\ OnePathEach(new)
    BY <2>2, <2>3, <2>4 DEF Exact, OnePathEach, Exactly, PathsApart
  <2>7. Sequential(exports) /\ \A m \in DOMAIN exports : ExportShaped(exports[m]) /\ Exact(exports[m]) /\ OnePathEach(exports[m])
    BY DEF ExportInv, ExportsSound
  <2>8. /\ Sequential(exports') /\ DOMAIN exports' = 1 .. Len(exports) + 1 /\ DOMAIN exports = 1 .. Len(exports)
        /\ (\A m \in 1 .. Len(exports) : exports'[m] = exports[m]) /\ exports'[Len(exports) + 1] = new
        /\ Len(exports) \in Nat
    BY <1>3, <2>7, Appended DEF Sequential
  <2>9. \A m \in 1 .. Len(exports) + 1 : m \in 1 .. Len(exports) \/ m = Len(exports) + 1
    BY <2>8
  <2>10. ExportsSound' /\ Grown(exports, exports')
    <3>1. \A m \in DOMAIN exports' : ExportShaped(exports'[m]) /\ Exact(exports'[m]) /\ OnePathEach(exports'[m])
      BY <2>4, <2>6, <2>7, <2>8, <2>9
    <3>2. Grown(exports, exports')
      BY <2>8 DEF Grown
    <3> QED
      BY <2>8, <3>1, <3>2 DEF ExportsSound
  <2>11. Others(p) /\ saver'[p] = x
    BY <1>3, Turns DEF ExportInv
  <2>12. \A q \in Saver \ {p} : saver'[q] = saver[q]
    BY <2>11 DEF Others
  <2>13. ReaderSound(x) /\ SaverShaped(x)
    BY <2>5 DEF ReaderSound, SaverShaped, Reading
  <2>14. StagedHeld(p)'
    <3>1. Len(exports) + 1 \notin DOMAIN exports
      BY <2>8
    <3>2. \A list \in listings : \A e \in list : e[2] # Len(exports) + 1
      BY <3>1, ListingOpened DEF ExportInv
    <3>3. \A q \in Saver : saver[q].at \in Staged => saver[q].is # Len(exports) + 1
      BY <3>1 DEF ExportInv, Held, StagedHeld
    <3>4. Len(exports) + 1 \in DOMAIN exports' /\ exports'[Len(exports) + 1].whole
      BY <2>4, <2>8
    <3> QED
      BY <1>1, <2>5, <2>11, <2>12, <3>2, <3>3, <3>4 DEF StagedHeld
  <2>15. BackupHeld(p)'
    BY <2>5, <2>11 DEF BackupHeld
  <2>16. saver'[p].at \notin Backing \cup {"ending"}
    BY <2>5, <2>11 DEF Backing
  <2> QED
    BY <1>1, <2>10, <2>11, <2>13, <2>14, <2>15, <2>16, Steady
<1> QED
  BY <1>1, <1>2, <1>3

\* An exporter that has not staged its directory holds none.
LEMMA ReadingKeeps ==
  ASSUME ExportInv, NEW p \in Saver, NEW x, saver' = [saver EXCEPT ![p] = x], x.at \in Reading,
         ReaderSound(x), SaverShaped(x), UNCHANGED <<exports, listed, listings, acknowledged>>
  PROVE  ExportInv'
<1>1. Others(p) /\ saver'[p] = x
  BY Turns DEF ExportInv
<1>2. StagedHeld(p)' /\ BackupHeld(p)'
  BY <1>1 DEF StagedHeld, BackupHeld, Reading, Staged
<1> QED
  BY <1>1, <1>2, Grows, Steady DEF Reading, Backing

LEMMA BeginExportKeeps ==
  ASSUME ExportInv, NEW p \in Saver, BeginExport(p)
  PROVE  ExportInv'
<1>1. PICK t \in Targets :
        /\ Cutoff(t) # <<>>
        /\ saver' = [saver EXCEPT ![p] =
             [at |-> IF ExportPages = <<>> THEN "building" ELSE "choosing", target |-> t, name |-> OutputName(t),
              cutoff |-> Cutoff(t)[1], heads |-> head, shows |-> <<>>, paths |-> <<>>, known |-> <<>>]]
  BY DEF BeginExport
<1>2. UNCHANGED <<exports, listed, listings, acknowledged>>
  BY DEF BeginExport, ListingKept
<1> DEFINE x == [at |-> IF ExportPages = <<>> THEN "building" ELSE "choosing", target |-> t, name |-> OutputName(t),
                 cutoff |-> Cutoff(t)[1], heads |-> head, shows |-> <<>>, paths |-> <<>>, known |-> <<>>]
<1>3. x.at \in Reading /\ ReaderSound(x) /\ SaverShaped(x)
  BY <1>1, BegunSound
<1>4. saver' = [saver EXCEPT ![p] = x]
  BY <1>1
<1> HIDE DEF x
<1> QED
  BY <1>2, <1>3, <1>4, ReadingKeeps

LEMMA ChooseKeeps ==
  ASSUME ExportInv, NEW p \in Saver, Choose(p)
  PROVE  ExportInv'
<1> DEFINE s == saver[p]
           page == Len(s.shows) + 1
           bound == Civil(s.cutoff)
           revision == IF s.target.kind = "current" THEN s.heads[page] ELSE NewestBy(page, bound[1])
           path == IF revision = None THEN <<<<>>>> ELSE PathFor(page, ToSet(s.paths))
           known == {r \in held : r.page = page}
<1>1. /\ s.at = "choosing" /\ UNCHANGED <<exports, listed, listings, acknowledged>>
      /\ IF (s.target.kind # "current" /\ bound = <<>>) \/ path = <<>>
         THEN EndExport(p) ELSE saver' = [saver EXCEPT ![p] = Taken(s, revision, path[1], known)]
  BY DEF Choose, ListingKept, Taken
<1>2. CASE EndExport(p)
  BY <1>1, <1>2, EndedKeeps
<1>3. CASE /\ ~(s.target.kind # "current" /\ bound = <<>>) /\ path # <<>>
           /\ saver' = [saver EXCEPT ![p] = Taken(s, revision, path[1], known)]
  <2>1. ReaderSound(s)
    BY DEF ExportInv, SaversSound
  <2>2. /\ s.target \in Targets /\ Len(s.shows) \in Nat /\ Len(s.shows) <= Len(ExportPages)
        /\ Len(s.shows) # Len(ExportPages)
        /\ s.target.kind = "time" => ParseTime(s.target) # <<>> /\ s.cutoff = ParseTime(s.target)[1]
    BY <1>1, <2>1 DEF ReaderSound, Reading, Sequential
  <2>3. page \in Pages
    BY <2>2, PagesAre
  <2>4. s.target.kind = "time" => revision = NewestOf({r \in known : ~Earlier(UtcTime(s.target), r.time)})
    <3> SUFFICES ASSUME s.target.kind = "time"
                 PROVE  revision = NewestOf({r \in known : ~Earlier(UtcTime(s.target), r.time)})
      OBVIOUS
    <3>1. IsTime(s.target) /\ ParseTime(s.target) # <<>>
      BY <2>2, ExportAssumption DEF IsTime
    <3>2. bound = Within(UtcTime(s.target))
      BY <2>2, <3>1, CutoffsAreUtc
    <3>3. bound # <<>>
      BY <1>3
    <3>4. bound[1] = UtcTime(s.target)
      BY <3>2, <3>3 DEF Within
    <3>5. revision = NewestBy(page, UtcTime(s.target))
      BY <3>4
    <3> HIDE DEF page, revision, bound
    <3>6. {r \in held : r.page = page /\ ~Earlier(UtcTime(s.target), r.time)} =
          {r \in known : ~Earlier(UtcTime(s.target), r.time)}
      OBVIOUS
    <3> QED
      BY <3>5, <3>6 DEF NewestBy
  <2>5. IF revision = None THEN path[1] = <<>> ELSE path[1] # <<>> /\ path[1] \notin ToSet(s.paths)
    <3>0. path # <<>>
      BY <1>3
    <3> HIDE DEF page, revision
    <3>1. CASE revision = None
      BY <3>1
    <3>2. CASE revision # None
      <4>1. path = PathFor(page, ToSet(s.paths))
        BY <3>2
      <4> HIDE DEF path
      <4>2. \/ path = <<Stem(page)>> /\ Stem(page) \notin ToSet(s.paths)
            \/ path = <<SuffixedStem(page)>> /\ SuffixedStem(page) \notin ToSet(s.paths)
        <5>1. Stem(page) \notin ToSet(s.paths) => path = <<Stem(page)>>
          BY <4>1 DEF PathFor
        <5>2. Stem(page) \in ToSet(s.paths) /\ SuffixedStem(page) \notin ToSet(s.paths) => path = <<SuffixedStem(page)>>
          BY <4>1 DEF PathFor
        <5>3. Stem(page) \in ToSet(s.paths) /\ SuffixedStem(page) \in ToSet(s.paths) => path = <<>>
          BY <4>1 DEF PathFor
        <5> QED
          BY <3>0, <5>1, <5>2, <5>3
      <4>3. path[1] \in {Stem(page), SuffixedStem(page)} /\ path[1] \notin ToSet(s.paths)
        BY <4>2
      <4>4. Stem(page) # <<>> /\ SuffixedStem(page) # <<>>
        BY <2>3, StemsAre
      <4> QED
        BY <3>2, <4>3, <4>4
    <3> QED
      BY <3>1, <3>2
  <2> DEFINE x == Taken(s, revision, path[1], known)
  <2> HIDE DEF revision, path, known, bound, page
  <2>6. x.at \in Reading /\ ReaderSound(x) /\ SaverShaped(x)
    BY <1>1, <2>1, <2>4, <2>5, TakenSound
  <2>7. saver' = [saver EXCEPT ![p] = x]
    BY <1>3
  <2> HIDE DEF x
  <2> QED
    BY <1>1, <2>6, <2>7, ReadingKeeps
<1> HIDE DEF bound, path, revision, known
<1> QED
  BY <1>1, <1>2, <1>3

LEMMA KillExportKeeps ==
  ASSUME ExportInv, NEW p \in Saver, KillExport(p)
  PROVE  ExportInv'
BY EndedKeeps DEF KillExport, ListingKept

LEMMA StillKept ==
  ASSUME ExportInv, UNCHANGED <<exports, listed, listings, saver, acknowledged>>
  PROVE  ExportInv'
<1>1. ExportsSound'
  BY Grows
<1>2. SaversSound'
  BY DEF ExportInv, SaversSound
<1>3. ListingsSound'
  BY DEF ExportInv, ListingsSound
<1>4. Held'
  BY DEF ExportInv, Held, StagedHeld, BackupHeld, Listed, Backup
<1>5. Kept'
  BY DEF ExportInv, Kept, Owed, Going, ToGo, Backup
<1> QED
  BY <1>1, <1>2, <1>3, <1>4, <1>5 DEF ExportInv

-----------------------------------------------------------------------------
LEMMA ExportInitHolds == ExportInit => ExportInv
<1> SUFFICES ASSUME ExportInit PROVE ExportInv
  OBVIOUS
<1> DEFINE first == [name |-> <<"current">>, target |-> [kind |-> "current"], shows |-> [page \in Pages |-> None],
                     paths |-> [page \in Pages |-> <<>>], known |-> [page \in Pages |-> {}],
                     whole |-> TRUE, durable |-> TRUE]
           place == <<<<<<"current">>, 0>>, 1>>
<1>1. /\ exports = <<first>> /\ listed = {place} /\ listings = {listed} /\ acknowledged = {<<"current">>}
      /\ saver = [p \in Saver |-> Resting]
  BY DEF ExportInit
<1>2. /\ first.target.kind = "current" /\ first.shows = [page \in Pages |-> None] /\ first.whole /\ first.durable
      /\ ExportShaped(first)
  BY DEF ExportShaped
<1>3. place = <<<<place[1][1], place[1][2]>>, place[2]>> /\ place[2] = 1 /\ place[1][1] = <<"current">> /\ place[1][2] = 0
  OBVIOUS
<1> HIDE DEF first, place
<1>4. Sequential(exports) /\ DOMAIN exports = {1} /\ exports[1] = first
  BY <1>1 DEF Sequential
<1>5. Exact(first) /\ OnePathEach(first)
  BY <1>2 DEF Exact, OnePathEach
<1>6. ExportsSound
  BY <1>2, <1>4, <1>5 DEF ExportsSound
<1>7. \A p \in Saver : saver[p].at = "rest"
  BY <1>1 DEF Resting
<1>8. SaversSound
  <2>1. saver = [p \in Saver |-> saver[p]]
    BY <1>1
  <2> QED
    BY <1>7, <2>1 DEF SaversSound, ReaderSound, SaverShaped, Reading, Holding, Staged, Backing
<1>9. ListingsSound
  <2>1. ListingSound(listed, exports)
    BY <1>1, <1>2, <1>3, <1>4 DEF ListingSound
  <2> QED
    BY <1>1, <2>1 DEF ListingsSound
<1>10. Held
  BY <1>7 DEF Held, StagedHeld, BackupHeld, Staged
<1>11. Kept
  <2>1. (\A e : ~Going(e) /\ ~ToGo(e)) /\ \A name : Owed(name) => name \in acknowledged
    BY <1>7 DEF Going, ToGo, Owed, Backing
  <2>2. place \in listed /\ exports[place[2]].whole
    BY <1>1, <1>2, <1>3, <1>4
  <2> QED
    BY <1>1, <1>3, <2>1, <2>2 DEF Kept
<1> QED
  BY <1>6, <1>8, <1>9, <1>10, <1>11 DEF ExportInv

LEMMA ExportNextKeeps == ExportInv /\ [ExportNext]_exportVars => ExportInv'
<1> SUFFICES ASSUME ExportInv, [ExportNext]_exportVars PROVE ExportInv'
  OBVIOUS
<1>1. CASE CaptureRevision \/ EraseRevision \/ UNCHANGED exportVars
  BY <1>1, StillKept DEF CaptureRevision, EraseRevision, exportVars
<1>2. CASE LosePower
  BY <1>2, LosePowerKeeps
<1>3. ASSUME NEW p \in Saver,
             \/ BeginExport(p) \/ Choose(p) \/ Build(p) \/ SyncStaging(p) \/ LookAtOutput(p) \/ InstallFresh(p)
             \/ SetAside(p) \/ Replace(p) \/ RestoreBackup(p) \/ Settle(p) \/ DropBackup(p) \/ RemoveBackup(p)
             \/ Acknowledge(p) \/ KillExport(p)
      PROVE  ExportInv'
  BY <1>3, BeginExportKeeps, ChooseKeeps, BuildKeeps, SyncStagingKeeps, LookAtOutputKeeps, InstallFreshKeeps,
     SetAsideKeeps, ReplaceKeeps, RestoreBackupKeeps, SettleKeeps, DropBackupKeeps, RemoveBackupKeeps,
     AcknowledgeKeeps, KillExportKeeps
<1> QED
  BY <1>1, <1>2, <1>3 DEF ExportNext

(* What lies at an output is a whole export, and a name whose export was
   acknowledged keeps one, whoever else replaces it and whenever an exporter or
   the power goes; an export of a time shows what the library held by then, and
   no two articles share a path (export.rs, for any number of exporters, pages,
   revisions, targets and faults). *)
THEOREM ExportsAreKept == ExportSpec => []ExportsKept
<1>1. ExportInv => ExportsKept
  <2> SUFFICES ASSUME ExportInv PROVE ExportsKept
    OBVIOUS
  <2>1. ListingsSound /\ listed \in listings
    BY DEF ExportInv, ListingsSound
  <2>2. \A e \in listed : e[1][2] = 0 => exports[e[2]].whole
    BY <2>1, ListingOpened
  <2>3. \A name \in acknowledged : \E e \in listed : e[1][1] = name /\ exports[e[2]].whole
    BY <2>1 DEF ExportInv, Kept
  <2>4. \A n \in DOMAIN exports : Exact(exports[n]) /\ OnePathEach(exports[n])
    BY DEF ExportInv, ExportsSound
  <2> QED
    BY <2>2, <2>3, <2>4 DEF ExportsKept
<1> QED
  BY <1>1, ExportInitHolds, ExportNextKeeps, PTL DEF ExportSpec
=============================================================================
