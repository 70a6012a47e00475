-------------------------------- MODULE Audit --------------------------------
(***************************************************************************)
(* A full verification of a library, as a function of what can be read:    *)
(* every object of the catalog, the chain of manifest events, and for each *)
(* purge event the journal and the absences it authorizes                  *)
(* (crates/wikisync-integrity/src/lib.rs).  It runs under the lease of a   *)
(* writer, so it sees one state.  Thumbnails, the metadata of rows and the *)
(* claims of an event on revisions are left out.                           *)
(***************************************************************************)
EXTENDS PurgeLifecycle

Catalog == {Content[p] : p \in captured}

(* Where an event belongs: its run succeeded and is named once, and a purge
   names the event before it. *)
RunEvent(k) ==
  /\ chain[k].run \in DOMAIN runs
  /\ \A j \in 1..(k - 1) : chain[j].run # chain[k].run
PurgeEvent(k) == chain[k].pre = k - 1
Misplaced == {k \in DOMAIN chain :
                IF chain[k].purge = 0 THEN ~RunEvent(k) ELSE ~PurgeEvent(k)}

(* Each object of a purge that gave its objects up is either absent, or put
   back after the purge ended and readable again. *)
Exact(i, readable) ==
  \A o \in purges[i].objs :
    IF <<i, o>> \in absent THEN o \notin readable
                           ELSE purges[i].state = "succeeded" /\ o \in readable
GaveUp(i) == purges[i].state \in {"cleaning", "succeeded"}
SharedAbsences(i) == {o \in Kept(purges[i].coll) : <<i, o>> \in absent}
Accepted(i, readable) ==
  /\ Shared(i) = {} /\ (purges[i].state = "succeeded" => SharedAbsences(i) = {})
  /\ GaveUp(i) => Exact(i, readable)

Examined == {i \in DOMAIN purges : Installed(i)}
AuthorizedAbsences(readable) ==
  {a[2] : a \in {a \in absent : a[1] \in Examined /\ Accepted(a[1], readable)}} \ readable

UnexplainedLoss(readable) == (Catalog \ readable) \ AuthorizedAbsences(readable)
CleanupMismatch(readable) == {i \in Examined : ~Accepted(i, readable)}

(* A purge whose payload a collection selected again, or a direct writer
   captured under it: the audit refuses its event from then on. *)
ReferredAgain == {i \in DOMAIN purges : Shared(i) # {}}

AcceptsPurges ==
  /\ Misplaced = {}
  /\ CleanupMismatch(present) \subseteq ReferredAgain
  /\ UnexplainedLoss(present) \subseteq UNION {purges[i].objs : i \in ReferredAgain}
SeesLoss == \A o \in Catalog \cap present : o \in UnexplainedLoss(present \ {o})

(* What a purge removed is told from a loss in every state, between any two of
   its steps and after any kill or power loss: the chain is in order, each purge
   event is accepted and explains what is missing, but for purges whose payload
   is referred to again; and no absence hides a loss: an object that can be read
   is reported as soon as it no longer can, whichever purges named it before. *)
AuditTellsLossFromPurge == AcceptsPurges /\ SeesLoss
=============================================================================
