--------------------------- MODULE DaemonSchedule ---------------------------
(***************************************************************************)
(* What the idle daemon does each second: it resumes the oldest            *)
(* reconciliation that was left unfinished, or else starts the collection  *)
(* whose schedule has been due longest; a collection whose attempt failed  *)
(* is not resumed for RetryDelay.  An attempt takes up to MaxCost ticks    *)
(* during which the one thread does nothing else                           *)
(* (ApplicationHandler::poll_schedule, apps/wikisyncd/src/application.rs). *)
(* Time is relative: ticks until the next occurrence, ticks until a retry. *)
(***************************************************************************)
EXTENDS Naturals, Sequences, FiniteSets
LOCAL INSTANCE SequencesExt
CONSTANTS Scheduled, Every, RetryDelay, MaxCost, MaxByHand
ASSUME DaemonScheduleAssumption ==
  /\ Scheduled \subseteq Nat
  /\ Every \in Nat \ {0} /\ RetryDelay \in Nat \ {0} /\ MaxCost \in 0..(Every - 1)

VARIABLES
  wait,       \* ticks until a schedule is due, or Off: manual or paused
  due,        \* collections whose occurrence has passed, oldest first
  unfinished, \* collections with a running reconciliation, oldest run first
  retry,      \* ticks until a collection may be resumed (process-local)
  metered,    \* the active network is metered and the policy avoids it
  polled,     \* the daemon has polled since the last tick
  running,    \* the daemon runs
  byHand      \* synchronizations a user has asked for, up to MaxByHand
pollVars == <<wait, due, unfinished, retry, metered, polled, running, byHand>>

Off == Every + 1
Due == {due[i] : i \in DOMAIN due}
Unfinished == {unfinished[i] : i \in DOMAIN unfinished}

PollTypeOK ==
  /\ wait \in [Scheduled -> 0..Off]
  /\ due \in Seq(Scheduled) /\ Due = {c \in Scheduled : wait[c] = 0}
  /\ Len(due) = Cardinality(Due)
  /\ unfinished \in Seq(Scheduled) /\ Len(unfinished) = Cardinality(Unfinished)
  /\ retry \in [Scheduled -> 0..RetryDelay]
  /\ metered \in BOOLEAN /\ polled \in BOOLEAN /\ running \in BOOLEAN
  /\ byHand \in 0..MaxByHand

PollInit ==
  /\ wait = [c \in Scheduled |-> Every]
  /\ unfinished = <<>> /\ due = <<>>
  /\ retry = [c \in Scheduled |-> 0]
  /\ metered = FALSE /\ polled = TRUE /\ running = TRUE /\ byHand = 0

Less(n, k) == IF n < k THEN 0 ELSE n - k
Without(s, c) == SelectSeq(s, LAMBDA x : x # c)

(* k ticks pass for the schedules w, of which those in d were due before:
   due_schedules orders by instant, then by collection. *)
Elapse(w, d, k) ==
  /\ wait' = [c \in Scheduled |-> IF w[c] = Off THEN Off ELSE Less(w[c], k)]
  /\ due' = d \o SetToSortSeq({c \in Scheduled : w[c] \in 1..k /\ w[c] # Off},
                             LAMBDA a, b : w[a] < w[b] \/ (w[a] = w[b] /\ a < b))

(* The second goes by with nothing to do. *)
Second ==
  /\ polled \/ ~running
  /\ Elapse(wait, due, 1)
  /\ retry' = [c \in Scheduled |-> Less(retry[c], 1)]
  /\ polled' = FALSE
  /\ UNCHANGED <<unfinished, metered, running, byHand>>

Resumable == {i \in DOMAIN unfinished : retry[unfinished[i]] = 0}

(* sync_one: k ticks later, with the unfinished runs that are left. *)
Ends(w, d, k, after) ==
  /\ Elapse(w, d, k)
  /\ unfinished' = after
  /\ polled' = FALSE
  /\ UNCHANGED <<metered, running, byHand>>

(* The delay counts from the start of the attempt. *)
DelayFromStart(c, k) == retry' = [x \in Scheduled |-> Less(IF x = c THEN RetryDelay ELSE retry[x], k)]
Delay(c, k) == retry' = [x \in Scheduled |-> IF x = c THEN RetryDelay ELSE Less(retry[x], k)]
Forget(c, k) == retry' = [x \in Scheduled |-> IF x = c THEN 0 ELSE Less(retry[x], k)]

Resume ==
  /\ running /\ ~polled /\ ~metered /\ Resumable # {}
  /\ LET c == unfinished[CHOOSE i \in Resumable : \A j \in Resumable : i <= j] IN
       \E k \in 0..MaxCost :
          \/ Ends(wait, due, k, Without(unfinished, c)) /\ Forget(c, k)
          \/ Ends(wait, due, k, unfinished) /\ Delay(c, k)

(* The occurrence is claimed before the attempt, so a failure before a run
   exists waits for the next one. *)
StartDue ==
  /\ running /\ ~polled /\ ~metered /\ Resumable = {} /\ due # <<>>
  /\ LET c == Head(due)
         w == [wait EXCEPT ![c] = Every] IN
       \E k \in 0..MaxCost :
          \/ Ends(w, Tail(due), k, Without(unfinished, c)) /\ Forget(c, k)
          \/ Ends(w, Tail(due), k, unfinished) /\ Delay(c, k)
          \/ Ends(w, Tail(due), k, Append(Without(unfinished, c), c)) /\ Delay(c, k)

NothingToDo ==
  /\ running /\ ~polled
  /\ metered \/ (Resumable = {} /\ due = <<>>)
  /\ polled' = TRUE
  /\ UNCHANGED <<wait, due, unfinished, retry, metered, running, byHand>>

(* A user saves a schedule, changes network, or synchronizes by hand, which
   forgets a delay when it succeeds and sets none when it fails. *)
SaveSchedule(c) ==
  /\ running /\ \E w \in {Every, Off} : wait' = [wait EXCEPT ![c] = w]
  /\ due' = Without(due, c)
  /\ UNCHANGED <<unfinished, retry, metered, polled, running, byHand>>
ChangeNetwork ==
  /\ metered' = ~metered
  /\ UNCHANGED <<wait, due, unfinished, retry, polled, running, byHand>>
SyncByHand(c) ==
  /\ running /\ ~metered
  /\ \/ unfinished' = Without(unfinished, c) /\ retry' = [retry EXCEPT ![c] = 0]
     \/ unfinished' = (IF c \in Unfinished THEN unfinished ELSE Append(unfinished, c)) /\ UNCHANGED retry
  /\ byHand < MaxByHand /\ byHand' = byHand + 1
  /\ UNCHANGED <<wait, due, metered, polled, running>>

Kill ==
  /\ running /\ running' = FALSE
  /\ retry' = [c \in Scheduled |-> 0]
  /\ UNCHANGED <<wait, due, unfinished, metered, polled, byHand>>
Restart ==
  /\ ~running /\ running' = TRUE /\ polled' = FALSE
  /\ UNCHANGED <<wait, due, unfinished, retry, metered, byHand>>

Poll == Resume \/ StartDue \/ NothingToDo
PollNext ==
  \/ Poll \/ Second \/ ChangeNetwork \/ Kill \/ Restart
  \/ \E c \in Scheduled : SaveSchedule(c) \/ SyncByHand(c)

(* The loop polls whenever a second has gone by without a request, the clock
   runs, and a service manager starts the daemon again. *)
PollSpec ==
  /\ PollInit /\ [][PollNext]_pollVars
  /\ SF_pollVars(Poll) /\ WF_pollVars(Second) /\ WF_pollVars(Restart)

(* A due collection is started, or its schedule changed, however long the
   attempts of another unfinished collection take and however often they fail.
   Two unfinished ones keep each other and a third waiting for ever: an attempt longer than the
   retry delay makes the other eligible again. *)
DueIsServedUnlessTwoFail ==
  \A c \in Scheduled :
    <>[](running /\ ~metered) =>
      (wait[c] = 0 ~> (wait[c] # 0 \/ Cardinality(Unfinished) > 1))
=============================================================================
