------------------------------ MODULE Schedule ------------------------------
(***************************************************************************)
(* When a collection is synchronized on its own (apps/wikisyncd/src/       *)
(* schedule.rs, collection_schedules of the store).  A cadence has a       *)
(* nominal occurrence each Period, at Offset (0 for an interval anchored   *)
(* at the epoch, seconds after midnight for a daily one); each is delayed  *)
(* by a jitter that depends on collection and nominal time only.           *)
(***************************************************************************)
EXTENDS Integers
CONSTANTS Period, Offset, Configured, Horizon
ASSUME ScheduleAssumption ==
  /\ Period \in Nat \ {0} /\ Offset \in 0..(Period - 1)
  /\ Configured \in Nat /\ Horizon \in Nat

Nominal(k) == k * Period + Offset
(* Jitter never reaches a period, whatever is configured. *)
EffectiveJitter == IF Configured < Period - 1 THEN Configured ELSE Period - 1

(* j is the deterministic jitter of a collection: any function of the nominal
   occurrence, here by its number. *)
Occurrence(j, k) == Nominal(k) + j[k]

NominalAtOrAfter(t) == IF t <= Offset THEN 0 ELSE (t - Offset + Period - 1) \div Period
WindowStart(t) == IF t < EffectiveJitter THEN 0 ELSE t - EffectiveJitter

(* The first nominal occurrence the loop tries, and where it stops. *)
FirstTriedUnjittered(t) == NominalAtOrAfter(t)
FirstTried(t) == NominalAtOrAfter(WindowStart(t))
Stops(j, t, k) ==
  /\ k >= FirstTried(t) /\ Occurrence(j, k) > t
  /\ \A i \in FirstTried(t)..(k - 1) : Occurrence(j, i) <= t
NextOccurrenceAfter(j, t) ==
  Occurrence(j, CHOOSE k \in FirstTried(t)..(FirstTried(t) + 2) : Stops(j, t, k))

VARIABLES
  jitter,  \* of each nominal occurrence
  now,   \* the clock of the host, up to Horizon
  nextRun, \* next_run_at of the schedule
  since    \* when it was computed (a history variable)
scheduleVars == <<jitter, now, nextRun, since>>

Numbers == 0..(Horizon \div Period + 3)   \* bound: nominal occurrences considered
ScheduleTypeOK ==
  /\ jitter \in [Numbers -> 0..EffectiveJitter]
  /\ now \in 0..Horizon /\ since \in 0..Horizon
  /\ nextRun \in Nat

(* set_schedule: the collection gets its first occurrence. *)
ScheduleInit ==
  /\ jitter \in [Numbers -> 0..EffectiveJitter]
  /\ now = 0 /\ since = 0
  /\ nextRun = NextOccurrenceAfter(jitter, 0)

(* A second passes, the machine sleeps, or its clock is corrected. *)
SetClock ==
  /\ now' \in 0..Horizon
  /\ UNCHANGED <<jitter, nextRun, since>>

(* recover, then claim_due_schedule: one occurrence is due, whatever was
   missed, and the persisted instant moves past the present. *)
ClaimNextNominal ==
  /\ nextRun <= now
  /\ nextRun' = NextOccurrenceAfter(jitter, nextRun)
  /\ since' = now
  /\ UNCHANGED <<jitter, now>>
ClaimNext ==
  /\ nextRun <= now
  /\ nextRun' = NextOccurrenceAfter(jitter, now)
  /\ since' = now
  /\ UNCHANGED <<jitter, now>>

(* The user saves the schedule again, at any time. *)
Reschedule ==
  /\ nextRun' = NextOccurrenceAfter(jitter, now)
  /\ since' = now
  /\ UNCHANGED <<jitter, now>>

ScheduleNext == SetClock \/ ClaimNext \/ Reschedule
ScheduleSpec == ScheduleInit /\ [][ScheduleNext]_scheduleVars

(* The persisted instant is the first occurrence after the instant it was
   computed at: none is skipped because its jitter is still running, and none
   lies in the past, so sleeping through many causes one run and no storm. *)
NextRunIsEarliest ==
  /\ nextRun > since
  /\ \E k \in Numbers : nextRun = Occurrence(jitter, k)
  /\ \A k \in Numbers : Occurrence(jitter, k) > since => nextRun <= Occurrence(jitter, k)
=============================================================================
