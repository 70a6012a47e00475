------------------------------ MODULE MCDaemon ------------------------------
(* Parts that share no state, each explored on its own: the writer lease and
   socket of the daemon, its control protocol, the arithmetic of schedules, the
   selection of a collection, its edits, the packs its store writes, and the
   desktop application. *)
EXTENDS WriterLease, DaemonIpc, Schedule, CollectionPreview, CollectionEdits, PackDeltas, GuiApp

FourObjects == <<<<0>>, <<0, 0>>, <<0, 1, 0>>, <<0, 0, 0>>>>

(* What five categories list, pages from 6 on: a page that two ways reach, a
   cycle, and a longer way that a wrong order takes first. *)
Lists(r, a, b, c, d) == [n \in 1..5 |-> <<r, a, b, c, d>>[n]]
Cyclic == Lists({2, 3}, {4}, {4, 1}, {2, 6}, {})
SomeWikis == {Cyclic, Lists({2, 3, 6}, {4, 7}, {5, 6}, {}, {8}), Lists({2, 4}, {7}, {7}, {3, 6}, {8})}

VARIABLE part

DaemonInit ==
  /\ part \in {"lease", "ipc", "schedule", "preview", "edits", "packs", "gui"}
  \* Titles are resolved on one wiki, categories with one set of titles.
  /\ part = "preview" \/ listing = Cyclic
  /\ (part = "preview" /\ listing = Cyclic) \/ leads = [title \in Aliases |-> 6]
  /\ LeaseInit /\ IpcInit /\ ScheduleInit /\ PreviewInit /\ EditsInit /\ PackInit /\ GuiInit
  \* A part that is not explored begins in one state.
  /\ part = "schedule" \/ jitter = [k \in Numbers |-> 0]
  /\ libraryPath = "x" /\ libraries = IF part = "gui" THEN {"x"} ELSE {}
  /\ part = "edits" \/ (collection.limit = 1 /\ collection.keep /\ collection.rule = "titles")
DaemonNext ==
  /\ UNCHANGED part
  /\ \/ part = "lease" /\ LeaseNext /\ UNCHANGED <<ipcVars, scheduleVars, previewVars, editsVars, packVars, guiVars>>
     \/ part = "ipc" /\ IpcNext /\ UNCHANGED <<leaseVars, scheduleVars, previewVars, editsVars, packVars, guiVars>>
     \/ part = "schedule" /\ ScheduleNext /\ UNCHANGED <<leaseVars, ipcVars, previewVars, editsVars, packVars, guiVars>>
     \/ part = "preview" /\ PreviewNext /\ UNCHANGED <<leaseVars, ipcVars, scheduleVars, editsVars, packVars, guiVars>>
     \/ part = "edits" /\ EditsNext /\ UNCHANGED <<leaseVars, ipcVars, scheduleVars, previewVars, packVars, guiVars>>
     \/ part = "packs" /\ PackNext /\ UNCHANGED <<leaseVars, ipcVars, scheduleVars, previewVars, editsVars, guiVars>>
     \/ part = "gui" /\ GuiNext /\ UNCHANGED <<leaseVars, ipcVars, scheduleVars, previewVars, editsVars, packVars>>
DaemonSpec == DaemonInit /\ [][DaemonNext]_<<part, leaseVars, ipcVars, scheduleVars, previewVars, editsVars, packVars, guiVars>>

(* The state of each part has its type. *)
DaemonTypeOK == LeaseTypeOK /\ IpcTypeOK /\ ScheduleTypeOK /\ PreviewTypeOK /\ EditsTypeOK /\ PackTypeOK /\ GuiTypeOK
=============================================================================
