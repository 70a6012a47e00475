----------------------------- MODULE MCSyncRuns -----------------------------
(* Page IDs for TLC; the bounds are in the configurations. *)
EXTENDS SyncRuns

Pages2 == {1, 2}
=============================================================================
