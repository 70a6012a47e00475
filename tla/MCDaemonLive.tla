---------------------------- MODULE MCDaemonLive ----------------------------
(* What the daemon must eventually do, in three parts that share no state,
   each explored on its own with its own fairness: it serves what is due, it
   brings a purge to its report, and it erases the files of a purge. *)
EXTENDS DaemonSchedule, PurgeLifecycle

ContentOf == [page \in Pages |-> "x"]

VARIABLES
  part,
  content, looseRow, packs, absence, disk, entries, op, faults,
  phase, targets, planned, published, packWork, replacement, looseWork, replacing, unlinked

diskVars == <<content, looseRow, packs, absence, disk, entries, op, faults, phase, targets,
              planned, published, packWork, replacement, looseWork, replacing, unlinked>>

(* Two objects and two packs: a mixed pack and its replacement. *)
Erasing == INSTANCE PurgeStore WITH
  Object <- {"o1", "o2"}, MaxPacks <- 2, MaxPackObjects <- 2, MaxAborts <- 0, MaxLosses <- 1,
  OrderedMetadata <- TRUE, RecoverFirst <- TRUE, synced <- entries

LiveInit ==
  /\ part \in {"poll", "purge", "disk"}
  /\ PollInit /\ LifeInit /\ Erasing!PurgeInit
LiveNext ==
  /\ UNCHANGED part
  /\ \/ part = "poll" /\ PollNext /\ UNCHANGED <<lifeVars, diskVars>>
     \/ part = "purge" /\ LifeNext /\ UNCHANGED <<pollVars, diskVars>>
     \/ part = "disk" /\ Erasing!PurgeNext /\ UNCHANGED <<pollVars, lifeVars>>
LiveSpec ==
  /\ LiveInit /\ [][LiveNext]_<<part, pollVars, lifeVars, diskVars>>
  /\ SF_pollVars(part = "poll" /\ Poll)
  /\ WF_pollVars(part = "poll" /\ Second) /\ WF_pollVars(part = "poll" /\ Restart)
  /\ WF_lifeVars(part = "purge" /\ ResumePurge)
  /\ WF_diskVars(part = "disk" /\ Erasing!ResumeStep)

(* The property PurgeStore states of the files. *)
PurgeCompletes == Erasing!PurgeCompletes
=============================================================================
