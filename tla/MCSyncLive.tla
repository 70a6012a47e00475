----------------------------- MODULE MCSyncLive -----------------------------
(* What synchronization must eventually do, in two parts that share no state,
   each explored on its own with its own fairness: the history of a page
   catches up, and a run ends and leaves its pages caught up. *)
EXTENDS PageHistory

AllPolicies == {[kind |-> "current", n |-> 0], [kind |-> "complete", n |-> 0],
                [kind |-> "last", n |-> 2], [kind |-> "since", n |-> 2],
                [kind |-> "since", n |-> 4]}

VARIABLES
  part,
  clock, exists, listed, edits, changes, failures, halts,
  member, tracked, durable, heads, gone, run, jobs, checkpoint, unmanifested, engine

runVars == <<clock, exists, listed, edits, changes, failures, halts, member, tracked, durable,
             heads, gone, run, jobs, checkpoint, unmanifested, engine>>

(* Two pages of a title list, one change, one failure, one stop. *)
Running == INSTANCE SyncRuns WITH
  Page <- {1, 2}, Dynamic <- FALSE, KeepTracking <- FALSE, DirectUpdate <- FALSE,
  MaxClock <- 2, MaxChanges <- 1, MaxFailures <- 1, MaxStops <- 1,
  current <- heads, stops <- halts

SyncInit ==
  /\ part \in {"history", "run"}
  /\ Init /\ Running!Init
  /\ part = "history" \/ \A c \in Collection : policy[c] = [kind |-> "current", n |-> 0]
  /\ part = "run" \/ (exists = {1, 2} /\ listed = {1, 2})
SyncNext ==
  /\ UNCHANGED part
  /\ \/ part = "history" /\ Next /\ UNCHANGED runVars
     \/ part = "run" /\ Running!Next /\ UNCHANGED vars
SyncSpec ==
  /\ SyncInit /\ [][SyncNext]_<<part, vars, runVars>>
  /\ WF_vars(part = "history" /\ JobStep)
  /\ WF_vars(part = "history" /\ \E c \in Collection : StartBootstrap(c) \/ StartReconcile(c))
  /\ WF_runVars(part = "run" /\ Running!EngineStep)
  /\ WF_runVars(part = "run" /\ Running!StartSync)

(* The properties the modules state of their parts. *)
HistoryCatchesUp == part = "history" => CatchesUp
RunEndsUnlessStuck == Running!RunEndsUnlessStuck
HeadsCatchUp == Running!HeadsCatchUp
=============================================================================
