------------------------------ MODULE GuiApp ------------------------------
(***************************************************************************)
(* The desktop application between its user, its tasks and the folder      *)
(* picker (App::update of apps/wikisync-gui/src/main.rs).  One request at  *)
(* a time is awaited; its answer counts only if its key, which names the   *)
(* folder it was made for, is still the active one and the folder still    *)
(* the one in use.  Probes and the picker answer whenever they like.       *)
(***************************************************************************)
CONSTANTS Folders, NoFolder
ASSUME GuiAssumption == NoFolder \notin Folders

(* What a request needs open, what its success closes and opens, and whether
   it brings a new snapshot. *)
FormNames == {"edit", "remove", "schedule", "purge", "selection", "dump"}
Kind(needs, closes, opens, shows) ==
  [needs |-> needs, closes |-> closes, opens |-> opens, shows |-> shows]
LibraryKind == Kind({}, {}, {}, TRUE)
CreationKinds ==
  {Kind({}, {}, {"selection"}, FALSE), Kind({"selection"}, {"selection"}, {}, TRUE), Kind({}, {}, {}, TRUE)}
EditKinds == {Kind({"edit"}, {}, {}, FALSE), Kind({"edit"}, {"edit"}, {}, TRUE)}
RemovalKinds == {Kind({"remove"}, {"remove"}, {}, TRUE)}
PurgeKinds == {Kind({"purge"}, {}, {}, FALSE), Kind({"purge"}, {"purge"}, {}, TRUE)}
ScheduleKinds == {Kind({"schedule"}, {"schedule"}, {}, TRUE), Kind({}, {}, {}, TRUE)}
DumpImport == Kind({"dump"}, {"dump"}, {}, TRUE)
DumpKinds == {Kind({}, {}, {"dump"}, FALSE), DumpImport}
TrustKinds == {Kind({}, {}, {}, FALSE)}

VARIABLES
  libraryPath, storagePath, \* the folder in use, and the one of the onboarding form
  screen,    \* "setup" or "dashboard"
  shown,     \* the folder of the snapshot, NoFolder for none
  bare,      \* whether the snapshot asks for onboarding
  known,     \* the path status: "checking", "new" or "existing"
  probing,   \* the folder of the latest probe, NoFolder once it answered
  picker,    \* the folder picker is open; it does not block the window
  open,      \* the forms that hold something
  reader,    \* the folder of the local reader, NoFolder for none
  starting,  \* the folder whose progressive reader is starting
  active,    \* the request awaited, or NoFolder
  running,   \* its task has not answered
  overtaken, \* a folder was picked while it was awaited (a history variable)
  libraries, empty \* the folders that hold a library; one with nothing in it
guiVars == <<libraryPath, storagePath, screen, shown, bare, known, probing, picker, open, reader,
             starting, active, running, overtaken, libraries, empty>>
diskVars == <<libraries, empty>>
pathVars == <<libraryPath, storagePath, known, probing, picker>>
readerVars == <<reader, starting>>

Busy == active # NoFolder
GuiInit ==
  /\ libraryPath \in Folders /\ storagePath = libraryPath
  /\ screen = "setup" /\ shown = NoFolder /\ bare = FALSE
  /\ known = "checking" /\ probing = libraryPath /\ picker = FALSE
  /\ open = {} /\ reader = NoFolder /\ starting = NoFolder
  /\ active = NoFolder /\ running = FALSE /\ overtaken = FALSE
  /\ libraries \in SUBSET Folders /\ empty \in SUBSET libraries

BeginRequest(kind, task, folder) ==
  /\ active' = [kind |-> kind, task |-> task, folder |-> folder]
  /\ running' = TRUE /\ overtaken' = FALSE

PathProbed ==
  /\ probing # NoFolder
  /\ known' = IF probing # libraryPath THEN known
              ELSE IF probing \in libraries THEN "existing" ELSE "new"
  /\ probing' = NoFolder
  /\ UNCHANGED <<libraryPath, storagePath, picker, screen, shown, bare, open, readerVars, active,
                 running, overtaken, diskVars>>
ChooseOnboardingStorage ==
  /\ ~Busy /\ ~picker /\ (screen = "setup" \/ bare)
  /\ picker' = TRUE
  /\ UNCHANGED <<libraryPath, storagePath, known, probing, screen, shown, bare, open, readerVars,
                 active, running, overtaken, diskVars>>
(* The picker answers a busy application too. *)
OnboardingStorageChosen ==
  /\ picker /\ picker' = FALSE
  /\ \/ UNCHANGED <<libraryPath, storagePath, known, probing, overtaken>>
     \/ \E f \in Folders :
          /\ storagePath' = f
          /\ IF screen = "setup"
             THEN /\ libraryPath' = f /\ known' = "checking" /\ probing' = f
                  /\ overtaken' = (Busy \/ overtaken)
             ELSE UNCHANGED <<libraryPath, known, probing, overtaken>>
  /\ UNCHANGED <<screen, shown, bare, open, readerVars, active, running, diskVars>>

OpenLibrary ==
  /\ ~Busy /\ screen = "setup" /\ known = "existing"
  /\ BeginRequest(LibraryKind, "load", libraryPath)
  /\ UNCHANGED <<pathVars, screen, shown, bare, open, readerVars, diskVars>>
CreateLibrary ==
  /\ ~Busy /\ screen = "setup" /\ known = "new"
  /\ BeginRequest(LibraryKind, "create", libraryPath)
  /\ UNCHANGED <<pathVars, screen, shown, bare, open, readerVars, diskVars>>
(* Mutant: the folder in use stays what it was. *)
StartEditionElsewhere ==
  /\ ~Busy /\ ((screen = "setup" /\ known = "new") \/ bare)
  /\ BeginRequest(LibraryKind, "prepare", storagePath)
  /\ UNCHANGED <<pathVars, screen, shown, bare, open, readerVars, diskVars>>
StartEditionSync ==
  /\ ~Busy /\ ((screen = "setup" /\ known = "new") \/ bare)
  /\ libraryPath' = storagePath
  /\ BeginRequest(LibraryKind, "prepare", storagePath)
  /\ UNCHANGED <<storagePath, known, probing, picker, screen, shown, bare, open, readerVars, diskVars>>
Refresh ==
  /\ ~Busy /\ screen = "dashboard"
  /\ BeginRequest(LibraryKind, "load", libraryPath)
  /\ UNCHANGED <<pathVars, screen, shown, bare, open, readerVars, diskVars>>
(* Editor, removal, schedule and selection stay open. *)
ChooseAnotherLibrary ==
  /\ ~Busy /\ screen = "dashboard"
  /\ screen' = "setup" /\ shown' = NoFolder /\ bare' = FALSE
  /\ open' = open \ {"dump", "purge"} /\ reader' = NoFolder
  /\ UNCHANGED <<pathVars, starting, active, running, overtaken, diskVars>>

OnForms(opened) ==
  /\ ~Busy /\ screen = "dashboard" /\ open' = opened
  /\ UNCHANGED <<pathVars, screen, shown, bare, readerVars, active, running, overtaken, diskVars>>
EditCollection == OnForms((open \ {"schedule", "remove"}) \cup {"edit"})
PreviewRemove == OnForms((open \ {"edit", "schedule", "purge"}) \cup {"remove"})
EditSchedule == OnForms(open \cup {"schedule"})
(* Cancel, or a field that makes a preview void. *)
CloseForm == \E f \in {"edit", "remove", "purge", "selection", "dump"} : OnForms(open \ {f})
OpenCollectionPurge ==
  /\ ~Busy /\ screen = "dashboard"
  /\ open' = (open \ {"remove", "edit", "schedule"}) \cup {"purge"}
  /\ \E k \in PurgeKinds : ~k.shows /\ BeginRequest(k, "work", libraryPath)
  /\ UNCHANGED <<pathVars, screen, shown, bare, readerVars, diskVars>>
(* Every other button of the dashboard. *)
StartRequest ==
  /\ ~Busy /\ screen = "dashboard"
  /\ \E k \in CreationKinds \cup EditKinds \cup RemovalKinds \cup PurgeKinds \cup ScheduleKinds
               \cup DumpKinds \cup TrustKinds :
       k.needs \subseteq open /\ BeginRequest(k, "work", libraryPath)
  /\ UNCHANGED <<pathVars, screen, shown, bare, open, readerVars, diskVars>>
OpenReader ==
  /\ ~Busy /\ screen = "dashboard" /\ reader = NoFolder
  /\ BeginRequest(Kind({}, {}, {}, FALSE), "reader", libraryPath)
  /\ UNCHANGED <<pathVars, screen, shown, bare, open, readerVars, diskVars>>
ProgressiveReaderStarted ==
  /\ starting # NoFolder /\ starting' = NoFolder
  /\ reader' \in {reader, starting}
  /\ UNCHANGED <<pathVars, screen, shown, bare, open, active, running, overtaken, diskVars>>

(* What the task of the request did to its folder, whether it succeeded. *)
TaskDone(ok) ==
  /\ running /\ running' = FALSE
  /\ LET made == active.task \in {"create", "prepare"}
         filled == active.task = "prepare" \/ (active.kind.shows /\ active.task = "work") IN
     /\ libraries' \in {libraries \cup (IF made THEN {active.folder} ELSE {})}
                         \cup (IF ok THEN {} ELSE {libraries})
     /\ empty' = IF ok /\ filled THEN empty \ {active.folder}
                 ELSE empty \cup (libraries' \ libraries)
(* finish_request without the folder. *)
FinishesAnyFolder(request) == TRUE
Finishes(request) == request.folder = libraryPath
AnswerDropped ==
  /\ Busy /\ ~Finishes(active) /\ \E ok \in BOOLEAN : TaskDone(ok)
  /\ UNCHANGED <<pathVars, screen, shown, bare, open, readerVars, active, overtaken>>
AnswerFailed ==
  /\ Busy /\ Finishes(active) /\ TaskDone(FALSE)
  /\ active' = NoFolder
  /\ UNCHANGED <<pathVars, screen, shown, bare, open, readerVars, overtaken>>
Shows(folder) == shown' = folder /\ bare' = (folder \in empty')
LibraryLoaded ==
  /\ Busy /\ active.task \in {"load", "create"} /\ Finishes(active) /\ TaskDone(TRUE)
  /\ (active.task = "load" => active.folder \in libraries)
  /\ libraryPath' = active.folder /\ storagePath' = active.folder
  /\ Shows(active.folder) /\ screen' = "dashboard" /\ known' = "existing"
  /\ active' = NoFolder
  /\ UNCHANGED <<probing, picker, open, readerVars, overtaken>>
(* The import begins at once, with the preview in hand. *)
EditionPrepared ==
  /\ Busy /\ active.task = "prepare" /\ Finishes(active) /\ running
  /\ libraries' = libraries \cup {active.folder} /\ empty' = empty \ {active.folder}
  /\ Shows(active.folder) /\ screen' = "dashboard" /\ known' = "existing"
  /\ starting' = active.folder
  /\ BeginRequest(DumpImport, "work", active.folder)
  /\ UNCHANGED <<libraryPath, storagePath, probing, picker, open, reader>>
WorkDone ==
  /\ Busy /\ active.task = "work" /\ Finishes(active) /\ TaskDone(TRUE)
  /\ open' = (open \ active.kind.closes) \cup active.kind.opens
  /\ IF active.kind.shows THEN Shows(active.folder) ELSE UNCHANGED <<shown, bare>>
  /\ active' = NoFolder
  /\ UNCHANGED <<pathVars, screen, readerVars, overtaken>>
ReaderStarted ==
  /\ Busy /\ active.task = "reader" /\ Finishes(active) /\ TaskDone(TRUE)
  /\ reader' = active.folder /\ active' = NoFolder
  /\ UNCHANGED <<pathVars, screen, shown, bare, open, starting, overtaken>>

GuiNext ==
  \/ PathProbed \/ ChooseOnboardingStorage \/ OnboardingStorageChosen
  \/ OpenLibrary \/ CreateLibrary \/ StartEditionSync \/ Refresh \/ ChooseAnotherLibrary
  \/ EditCollection \/ PreviewRemove \/ EditSchedule \/ CloseForm \/ OpenCollectionPurge
  \/ StartRequest \/ OpenReader \/ ProgressiveReaderStarted
  \/ AnswerDropped \/ AnswerFailed \/ LibraryLoaded \/ EditionPrepared \/ WorkDone \/ ReaderStarted
GuiSpec == GuiInit /\ [][GuiNext]_guiVars

GuiTypeOK ==
  /\ {libraryPath, storagePath} \subseteq Folders /\ {shown, reader, starting} \subseteq Folders \cup {NoFolder}
  /\ open \subseteq FormNames /\ empty \subseteq libraries /\ libraries \subseteq Folders
  /\ screen = "dashboard" <=> shown # NoFolder

(* The application never comes to wait for an answer that was given: a request
   that is awaited is still running, unless a folder was picked meanwhile; and a
   snapshot is only ever replaced by one of the folder in use. *)
ShowsWhatIsSo ==
  [][/\ (Busy => running \/ overtaken)'
     /\ shown' # shown /\ shown' # NoFolder => shown' = libraryPath']_guiVars
=============================================================================
