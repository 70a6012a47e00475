# WikiSyncer: specifications, model checks and proofs

WikiSyncer keeps private, offline copies of selected MediaWiki pages with their
history.  One library is a directory: an SQLite catalog, a content-addressed
object store of loose files and packs, and a chain of manifests.  A daemon, a
command line and a desktop application write it, one at a time; a local web
server reads it.  This directory holds TLA+ modules for the parts in which the
order of steps matters (what is durable when, what a kill or a power loss leaves
behind, what a moving wiki and a changing selection do to a run), the TLC
configurations that check them, and proofs checked by TLAPS.

Paths below are relative to `src/`.  `store` is `crates/wikisync-store/src/lib.rs`,
`purge` is `crates/wikisync-store/src/purge_cleanup.rs`, `sync` is
`crates/wikisync-sync/src/lib.rs`.  `PROJECT.json` maps every definition that
stands for code to its lines.

## 1. The system

| Component | State it keeps | Operations | Talks to |
|---|---|---|---|
| Object store (store 8380-10050) | `content_objects`, `object_locations`, `packs` rows; files under `objects/loose/b3` and `objects/packs` | `put_reader`, `pack_loose_objects`, `repack_pack`, `prune_packed_loose_objects`, `retire_pack`, `read_object` | called by capture, import, purge, export, reader |
| Purge journal (purge; store 2941-3240) | `purge_operations`, `purge_objects`, `purge_pack_work`, `purge_file_work`, `purge_authorized_absences` | authorize, append manifest, then one durable step per call of `resume_purge_cleanup`; `verify_purge_cleanup_state` | object store, manifest chain, catalog fingerprint |
| Purge lifecycle (`apps/wikisyncd/src/purge.rs`) | none of its own | execute, recover at startup, drain before every mutation | daemon, journal |
| Runs, jobs, checkpoints (store 4350-4450, 5979-6250) | `sync_runs`, `sync_jobs`, `sync_errors`, `sync_checkpoints` | start or resume, enqueue, claim, complete, fail, finish, cancel | sync engine, dump import |
| Sync engine (sync 900-2330) | program counter only | `bootstrap_collection`, `reconcile_collection_heads` | MediaWiki, store, search index |
| Page history (sync 906-1360, 1730-1970) | `pages`, `revisions`, `collection_pages` | capture the head, fill history by policy, stream a forward gap, advance the head | engine, object store |
| Membership (store 3300-4020, 11880-11940) | `collection_configuration`, `collection_resolved_members`, `collection_pages`, tombstones | create and update from a preview, resolve a category, tombstone | engine, GUI, CLI |
| Manifest chain (store 6380-6890) | files in `manifests/`, one per succeeded run and per purge | append under a lock, repair, validate | runs, purge, integrity |
| Dump imports, whole editions (store 4466-5975, `crates/wikisync-sync/src/dump_bootstrap.rs`) | `dump_imports`, `whole_edition_*` rows with cursors | start or resume, commit a batch with its cursor, discover, mark and resolve recoveries | runs, object store |
| Daemon (`apps/wikisyncd`) | socket, writer lease, in-memory retry and recovery gate | dispatch IPC commands, poll schedules, resume unfinished work, recover purges first | everything that writes |
| Schedules (store 4161-4320, `schedule.rs`) | `collection_schedules` | configure, pause, start due | daemon |
| MediaWiki client | pacing, retry budget | page heads, revision batches, categories, media, dumps | the wiki |
| Integrity (`crates/wikisync-integrity/src/lib.rs`) | a report | verify objects, manifests, claims, records; conclude | every table, beside a writer |
| Trust (`apps/wikisync-cli/src/trust.rs`, GUI) | key and anchor files outside the library | generate, export, refresh, rotate, verify | manifest chain |
| Desktop application (`apps/wikisync-gui/src/main.rs`) | one awaited request, open forms, a snapshot | open, create, edit, purge, schedule, read | daemon or the library itself |
| Images (`sync` 1030-1170, `crates/wikisync-mediawiki/src/media.rs`) | `media`, `page_media` rows, thumbnails as objects | discover, resolve, download, store | capture, object store |
| Export (`apps/wikisync-cli/src/export.rs`) | directories under `exports/` | select, build, install | catalog, object store, without the writer lease |
| Search, content, web reader, diagnostics | derived or none | rebuild, render, diff, serve | catalog, object store |

`PROJECT.json` lists every component with what is and is not modelled.

What is hard here, and why models of it are worth having:

* **Two kinds of durable state.**  SQLite commits (WAL, `synchronous = FULL`)
  survive a power loss; renames and unlinks survive only once their directory
  has been synced.  Every store operation interleaves the two, and the catalog
  must never promise a file that can still vanish.
* **A destructive operation in a dozen restartable steps**, sharing packs with
  objects that must stay, while captures go on.
* **Runs outlive everything they were started with**: the process, the
  selection, the wiki's heads and the clock.  A checkpoint speaks about
  all of them.
* **Two directions of history**: a bootstrap captures newest first, a
  reconciliation continues oldest first from the newest row it finds, and two
  collections may do both to the same page.
* **Liveness rests on retries**: the daemon polls, resumes and drains; a state
  that no step leaves is a collection that silently stops.

What each part must guarantee:

* object store: a verified row names durable files; a captured object stays
  readable unless a purge authorized its absence;
* purge: retained objects survive, the journal always agrees with the files,
  completion means erased for good, and an authorized purge completes;
* runs: a checkpoint never passes what its jobs captured, an interrupted run
  ends, a tracked page catches up, every succeeded run gets its manifest;
* history: no gap between the oldest promised revision and the head shown;
* manifest chain: append-only, one event per run or purge, no fork;
* imports: a cursor never passes the pages it stands for; a recovered page is
  captured exactly as the marker says;
* daemon: one writer, purges recovered before any mutation, every due schedule
  eventually started.

## 2. Modules

One module per component; MC modules compose those that share a run.  Where two
components share state they are composed (`PurgeStore` extends `ObjectStore`,
`Audit` extends `PurgeLifecycle`); where they share none an MC module
explores them side by side, its variable `part` saying which one moves.

| Module | Code | Composed or run in |
|---|---|---|
| `ObjectStore`, `Archive` | object store of `store` | `PurgeStore`, run `purge_store` |
| `PurgeStore` | `purge` | `purge_store`, `purge_resync`, `daemon_live` |
| `PackDeltas` | the inside of packs, `store` | `daemon` |
| `PurgeLifecycle`, `Audit` | authorization, chain, verification of purges | `library`, `daemon_live`, `purge_stale` |
| `SyncRuns` | runs, jobs, checkpoints, engine | `sync_runs`, `sync_live`, `sync_removed`, `sync_new_member` |
| `PageHistory` | capture of one page's history | `sync_live` |
| `DumpImport`, `WholeEdition` | imports of dumps, whole editions | `library`, `edition_resume` |
| `DumpReader` | streaming XML reader | `sync_runs` |
| `SourceClient`, `DumpCache` | HTTP client, cache of dump files | `library` |
| `IntegrityScan` | verification beside a writer | `sync_runs` |
| `TrustFiles` | keys and anchors | `library` |
| `WriterLease`, `DaemonIpc` | who writes; requests and drafts | `daemon` |
| `Schedule`, `DaemonSchedule` | occurrences; the daemon's poll | `daemon`, `daemon_live` |
| `ManifestFiles` | files of the manifest chain | `library` |
| `RevisionMedia`, `Thumbnails` | images of a revision (`sync` 1030-1170, `media.rs`, `store`); what bytes pass as one | `purge_store` |
| `Export` | `apps/wikisync-cli/src/export.rs` | `purge_store` |
| `CollectionEdits` | edits of a collection | `daemon`, `edit_lost` |
| `CollectionPreview` | what a preview reads of the wiki (`sync` 205-567), and what `wikisyncd/collection.rs` admits of it | `daemon` |
| `GuiApp` | the desktop application's requests and forms | `daemon` |

### ObjectStore, Archive

`ObjectStore` splits each operation where it is durable.  `disk` is the set of
directory entries a process sees and `synced` the entries that survive a power
loss; the difference in both directions is what a `PowerLoss` chooses from.
`op` is the program counter of the one writer and is all that `Abort` (a kill or
an error return) forgets.

| Code | Actions |
|---|---|
| `put_reader` | `PutPersist` (absence check, rename), `PutSync`, `PutCommit` |
| `activate_pack_sources_for_purge` | `PackLooseObjects` or `RepackPack`, `PersistIndex`, `SyncNewPack`, `ActivatePack` |
| `prune_packed_loose_objects` | `PruneCommit`, `PruneUnlink` per file, `PruneDone` |
| `retire_pack` | `RetireCommit`, `RetireUnlinkPack`, `RetireUnlinkIndex`, `RetireSync` |
| `read_object` | `Readable` |

Objects are identities: hashing, compression, verification of bytes and the
quarantine of damaged locations are abstracted away, so what is checked is the
protocol for an undamaged disk.  Which candidates fit a pack is left open.

`Archive` is the abstract specification: a set of objects that can be read and a
set whose absence is explained.  `ObjectStore` implements it with
`held = {o : Readable(o)}` (`ImplementsArchive`), and so does the store with a
purge running over it.

### PurgeStore

Extends `ObjectStore` with the journal.  Each action is one durable step of
`resume_purge_cleanup`; `Authorize` and `Publish` are the two calls before it.
`unlinked` and `replacing` are in-memory state of one call, forgotten by
`Failure`.  `JournalAccepted` is `verify_purge_cleanup_state`.  `StoreStep` is
the rest of the store between the calls: maintenance never runs beside an
unfinished purge (its callers recover first), puts may, unless `RecoverFirst`,
which is the daemon's gate.  One purge is followed from authorization to
success; a later purge of the same library would start from such a state.

### SyncRuns

One collection's run row, its job rows in insertion order, the checkpoint and
the count of succeeded runs without manifest, with the engine's program counter
in `engine`.  `Stop` (a kill, a shutdown or an error outside a job) forgets the
engine and nothing else.  The wiki moves between any two steps: `EditPage`,
`Delete`, `Restore`, `Recategorize`; a revision is named by the second it was
made in, and `Tick` moves the clock of wiki and host together.

| Code | Actions |
|---|---|
| `sync_collection` (daemon), `update_collection` (GUI) | `StartSync`, `StartUpdate` |
| `reconcile_dynamic_collection_membership` | `Resolve`, with `CommitMembership` |
| `repair_missing_sync_manifests`, `append_sync_manifest` | `RepairManifest`, `AppendManifest` |
| `start_or_resume_sync_run` | `StartRun`, `ResumeRun`, `RefuseRun` |
| `enqueue_sync_job`, `claim_next_sync_job` | `Enqueue`, `Enqueued`, `Claim`, `NoMoreJobs` |
| `resolve_page_head`, capture, gap, `reconcile_current_revision` | `LookFound`, `LookMissing`, `CaptureHead`, `CaptureGap`, `AdvanceHead` |
| `complete_sync_job`, `fail_sync_job`, `cancel_sync_run` | `CompleteJob`, `Fail`, `FailBootstrapOfRemoved`, `FailReconciliationOfRemoved`, `CancelRun` |
| `complete_sync_run` | `FinishRun`, `RefuseFinish` |

Here a page's captured content is the newest captured second (`durable`): that
nothing is missing below it is what `PageHistory` is about.

### PageHistory

The revisions of one page, numbered by their order, and one job at a time of the
collections that select it, each with its own `HistoryPolicy`.  A bootstrap is
`StartBootstrap`, `CaptureHead`, `ListHistory`, `CaptureOlder`...,
`CompleteBootstrap`; a reconciliation is `StartReconcile`, `CaptureNewer`...,
`AdvanceHead`, or `ExceedLimit` when the attempt reaches
`max_revisions_per_page`.  `Abandon` ends an attempt anywhere.  `base` records
the oldest revision a collection's bootstrap promised; the code has no such row,
it is what the policy means for the heads that were seen.

### RevisionMedia and Thumbnails

`RevisionMedia` is what a capture adds when its collection wants images: the
list of the images that the rendered text shows (`Discover`), and per image its
metadata (`Resolve`), its bytes (`Download`), the object (`PutThumbnail`) and
the row of the placement (`CommitPlacement`), each a request or a transaction of
its own, while templates change, files are uploaded again and description pages
edited.  Two revisions, or a picture shown twice, share rows and objects.
`Thumbnails` is the inspection of PNG chunks and JPEG segments as two folds,
compared with `OneStillImage`: one whole still image and nothing after it.
`MediaTellsWhatWasShown` compares the placements with the files the wiki has
had: bytes, address and attribution belong to what the revision showed, no
placement is changed or lost later, and a budget is overdrawn by at most one
image, which the library had before.

### Export

An exporter takes the selection with its heads in one look, then one revision
per page (`Choose`), then reads the objects (`Build`), while revisions are
captured and purged.  Its directory is written and synced beside the output and
renamed into place; an output that is there is renamed to a backup first.  The
listing of `exports` survives a power loss as any of the listings since its last
sync.  `DaysFromCivil` and `Civil` are the code's arithmetic of dates, compared
with `UtcTime`, which steps to the day before or after.

### PackDeltas

The objects inside a pack, whole or as a delta on an object before them.  An
object is a short sequence of bytes; `CreateDelta` and `ApplyDelta` are the
code's common-prefix-and-suffix deltas, so that what is read back is compared
with what was put.  `PrepareEntry` picks any eligible base or none, since which
one compresses best is not modelled; eligibility (window, depth, size ratio,
affinity group, full-entry interval) is.  `Prepared` packs the loose
objects, a repack, or a pack without the objects of a purge.

### PurgeLifecycle and Audit

`PurgeLifecycle` puts a purge among the other writers: collections selected and
tombstoned, runs that capture, and the chain of manifest events.  A fingerprint
is the catalog itself, so a commit by anyone makes an open preview stale; the
steps of `PurgeStore` are one here.  `DirectWriters` says whether a command or
the desktop application may commit without recovering first, as they do.
`Audit` is the full verification as a function of each such state: which loss of
an object it reports, and which it accepts because a purge authorized it.

### DumpImport and WholeEdition

`DumpImport` streams the parts of a dump, one transaction per page with the
cursor in it, then compares every member with the live wiki before the run may
succeed; a run whose import is complete reads the dump once more before it ends
(`VerifyCompletedDump`).  `WholeEdition` has no members: articles come from the dump, changes
since are discovered in batches, applied with idempotent keys, and later updates
cover windows of recent changes; a window that is too long marks a recovery,
which a new dump resolves.  A dump is imported whenever the user
asks, whether or not anything calls for it.  Both are killed anywhere and resumed.
A request can fail where the code makes one (`Requests`).  Two history variables,
which no step reads, say when an import that nothing called for was given up
(`givenUp`) and for which articles an older change was applied over a newer one
(`overtaken`); `CheckpointCovers` excepts the second and ties it to the first.

### DumpReader

The state machine over XML events, with its limits counted as the code counts
them.  A document is a list of events, `PagesTold` what a reader with no limits
and no state machine would read off it; the two are compared on every document
one loss, repetition or strange event away from a sound dump.

### SourceClient and DumpCache

`SourceClient` is what all clones of one client share: slots, the run's byte
budget with reservations, the token bucket of the download rate, the circuit
breaker; any operation may be dropped at an await.  `DumpCache` is one cached
file: lock, resume a partial file, verify the digest, publish by a hard link,
with kills and a power loss; inodes have a content and a content that survives.

### IntegrityScan

A verification is many statements on one connection, and the code looks at
`PRAGMA data_version` to notice commits between them.  The scan's locals are one
record, `scan.phase` its program counter; a synchronization commits between any
two of its statements.  `VerifiedIsSo` compares its report with the library when
it ends, whatever was committed meanwhile; `QuietVerdict` says of an undisturbed
one that a sound library is not called damaged, nor a damaged one verified.
`ConclusionHolds` is both.  Sound is what `Whole` says: objects readable, records
sound, one chain that records each succeeded run once, whose last entry lists what
is there.  `Libraries` has damaged ones too; only a whole one is written to as well.

### ManifestFiles

`append_sync_manifest` file by file.  It holds a write transaction of the
database (`Locked`), so the catalogue stands still while revisions and heads
are read page by page; a list longer than a page becomes shards, each renamed
and synced before the next, whether or not an earlier attempt left it there;
the root is renamed last.  `Abandon` is a kill or a failed step, `PowerFailure`
keeps any of the names that were not synced.  A process reads the whole chain
before it appends (`ChainReads`), so one unreadable manifest would end
appending for good.

### TrustFiles

Key and anchor files of the command line and of the desktop application, as what
each directory held after each operation since it was last synced; a power loss
falls back to any of these.

### WriterLease, DaemonIpc, Schedule, DaemonSchedule

`WriterLease` has one step per system call on the two sockets and their lock
files; a process may be killed at each.  `DaemonIpc` is one accepting thread, a
backlog in which requests of clients that gave up remain, and the draft of a
collection staged in chunks.  `Schedule` is the arithmetic of occurrences with
jitter, `DaemonSchedule` the poll: resume what is unfinished, else start what is
due, in relative time.

### CollectionEdits

The compare-and-swap on a collection's generation seen from its editors: load,
preview, save, beside category resolution, settings and removal.

### CollectionPreview

The requests that make the preview: a breadth-first walk of a category with
continuations and a depth, or a list of titles in chunks, while the wiki
recategorizes, redirects and deletes between any two; then what the daemon
admits of it.  What was selected throughout must be told, with a shortest way.

### GuiApp

`App::update`: one request is awaited, its answer counts only for the
folder and the forms it was made for.  The contents of a form are left out.

### Proof modules

`ObjectStoreProofs` (`ObjectStore` and `ManifestFiles`), `PurgeStoreProofs` (over
the one before it), `PageHistoryProofs` (`PageHistory` and `Export`),
`SyncRunsProofs` (`SyncRuns` and `IntegrityScan`), `PurgeLifecycleProofs`,
`AuditProofs` (over the one before it, `TrustFiles` and `SourceClient`),
`DaemonProofs` (`WriterLease`, `DaemonIpc`, `CollectionEdits`, `Schedule`,
`GuiApp` and `PackDeltas`) and `DumpProofs` (`DumpImport`,
`DumpCache` and `WholeEdition`): section 5.

## 3. Runs

| Run | Shows | Bounds |
|---|---|---|
| `purge_store` | rows never promise more than the disk keeps; retained objects survive a purge, its journal is always accepted, completion means erased, store and purge implement `Archive` | 2 objects, 2 packs (one mixed pack and its replacement), 1 kill and 1 power loss |
| | every placement of an image tells what its revision showed | 2 revisions in 2 collections, 3 placements, a file uploaded up to 3 times, 3 captures, 2 edits of the wiki, 1 of a policy, 1 kill |
| | an export that was acknowledged stays, what is in place is whole, a time selects by the calendar | 2 exporters, 1 earlier and 2 new exports, 2 pages and 4 revisions, 6 targets, 1 kill, failed rename or power loss |
| `sync_runs` | checkpoints, heads and manifests of a category under every interleaving | 2 pages, 3 seconds, 1 change upstream, 1 failure, 1 stop, daemon and GUI |
| | a dump is read as it says or refused | every single damage of a dump of two pages, and dumps at each limit |
| | a verification concludes what is so | 2 pages in batches of 2, a writer beside it, 30 damages |
| `sync_live` | no gap under any policy, and the newest revision is reached | every kind of policy, 6 revisions, limit 2, 2 abandoned attempts |
| | an interrupted run ends and pages catch up, outside `Stuck` | 2 pages, a title list, 1 change, 1 failure, 1 stop |
| `daemon` | one writer that is reached, one client per draft, no skipped occurrence, no unseen overwrite, previews that tell what the wiki had throughout, packs that read back, an application that does not wait for ever | 3 processes and 3 inodes; 2 clients, 3 tokens, backlog 2; a period of 3 up to time 7; 3 generations; 5 categories, 3 pages, 3 titles, 1 change; 4 objects, 2 packs; 2 folders |
| `daemon_live` | a due collection is served past one that fails, a purge ends and its files go | 2 schedules; 1 purge, 1 run, 1 power loss |
| `library` | purges, their audit, imports, whole editions, client, cache, anchors | 2 collections and 2 pages; 2 parts, 3 members; 1 article, 4 changes; 3 operations on 2 slots; 2 editions of a file; 2 keys, 4 operations |
| | the manifest chain reads back and tells what its runs captured | 2 pages with a revision each, 2 runs of a collection or of the whole wiki, 1 entry per shard, 1 placement, 2 kills or power failures |
| `purge_resync` (violation) | a resumed call skips the directory sync its predecessor was killed in | 1 kill |
| `sync_removed` (violation) | a page that leaves a category while its job waits wedges the collection | 1 change, 1 failure, no stop |
| `sync_new_member` (violation) | a new member of a category is never captured | 1 change, nothing fails |
| `purge_stale` (violation) | a direct writer's commit makes an authorization stale for ever | 1 purge, 1 run |
| `edition_resume` (violation) | an interrupted bootstrap whose window was extended is refused | 2 articles, 1 stop |
| `edit_lost` (violation) | an edit overwrites what was committed after its form was loaded | 1 editor, 3 generations |

Why the bounds are enough to be interesting.  Two objects are what a mixed pack
needs: one purged, one retained.  A kill and a power loss in one behaviour meet
(the window between a kill and the next sync is where `purge_resync` lives).
Two pages let one job be done when another fails, and let the selection shrink
below the jobs of a run; three seconds let a page be edited between the job that
looked at it and a later resumption of its run, which is what a wrong checkpoint
needs.  Six revisions are three attempts under a limit of two.  Three inodes let
a name be stale, rebound and stale again while one process still remembers the
first.  Three operations on two slots make one wait.  A dump of two parts is
resumed across their border.  Every counter is a constant that a guard compares
with, so no state constraint cuts behaviours.  Deadlock is not checked where the
bounds end behaviours (all budgets of changes, kills and operations spent);
`purge_store` checks it (of the store and its purge; images and
exports, whose bounds end them, stutter).

Each property is broken by a mutant of a definition that stands for code
(`PROJECT.json`, `mutants`): a dropped directory sync, a forgotten recheck, a
cursor stored before its page, an answer accepted for another folder, and so on.

## 4. Fairness, and why the code justifies it

* `sync_live`: weak fairness of the steps of a job and of starting one
  (`PageHistory`), of `EngineStep` (a call that was started runs on) and of
  `StartSync` (the daemon polls for ever, resumes runs it finds unfinished
  after `BACKGROUND_RETRY_DELAY` and starts due schedules).  None of the wiki,
  of failures or of stops: all three are bounded, so the properties speak of
  what happens after the last one.  `DirectUpdate` is off: the GUI's own
  updates are the user's, and can block the daemon for ever (section 6).
* `daemon_live`, schedules: weak fairness of time, of the restart of a killed
  daemon (the service manager's), and strong fairness of `Poll`, since the loop
  polls each second but an attempt occupies it for a while.  The property
  excepts what two failing collections do to a third.
* `daemon_live`, purges: weak fairness of `ResumePurge`, and of the steps of the
  files (`ResumeStep`).  The daemon resumes every unfinished purge when it starts
  and before each mutation and retries a recovery that failed; nothing else runs
  until it succeeds, hence `RecoverFirst`.  A power loss may repeat a step,
  not for ever.  `PurgeEndsUnlessMeddled` excepts the direct writers of
  `purge_stale`.

## 5. What is proved

The proofs hold for every value of the constants that the named assumptions
admit, not only for the sizes above.

`ObjectStoreProofs` (from `BoundsAssumption` and `OrderedMetadata`):
`TypeCorrectness`, `RowDurability`, `CapturedStaysReadable` and
`StoreImplementsArchive`, each from `Invariance`, `Spec => []IInv`.
`CapturedReadable` is not inductive: it says nothing of the files a half-done
operation has renamed but not synced.  `IInv` adds what the operation in progress
has already made true (`PutProgress`, `PackProgress`, `UnlinkProgress`), that
verified rows are durable (`RowsDurable`), and replaces readable by located
(`CapturedLocated`); readable follows, because a durable file is on disk.  The
refinement maps each step to `Capture`, to `AuthorizeAbsence` of nothing, or to
a stutter.  `OrderedMetadata` says that syncing a new shard directory also makes
its own entry in the parent durable.  POSIX does not promise it, `put_reader`
syncs only the shard directory (store:2485), and with `OrderedMetadata = FALSE`
TLC finds in a few steps a committed object that a power loss takes; file systems
with a metadata journal provide it.

The files of manifests (same module, from `ManifestBounds`): `ManifestsTell` and
`ManifestTypesHold`, from `ManifestSpec => []ManifestInv`.  The chain is whole
because a root is renamed only when every shard it names is durable (`Durable`).
It says what the runs captured because the draft does, at every page it has read
(`DraftSays`): all the keys of a kind up to the last one read, in order and none
twice, of a catalogue that cannot change while the process that drafts holds the
lock.  `ChainLink` ties root n to run n and to what its predecessors claimed;
`CatalogueKept` says that a head is a revision of its own page and that what a
run saw stays in its scope, or a later manifest would name a revision that none
contains.  Paging is by rank in a finite set (`RevisionsFinite`,
`OrderedAscends`), which takes no induction over the data.

`PurgeStoreProofs` (from the assumptions on the store): `PurgeKeepsRowsDurable`,
`RetainedStaysReadable`, `JournalsAreAccepted`, `CompletionMeansErased` and
`PurgeImplementsArchive`, each from `PurgeInvariance`, `PurgeSpec => []PurgeInv`.
`IInv` survives a purge only because of what the journal promises: that no row
names a file it unlinks and that every retained object of a mixed pack is in its
replacement.  `PurgeInv` adds, per phase, what the rows of the work may be
(`JournalShape`), that the targets keep a location until the absences are
committed and have none after (`TargetsKnown`), that a pack of the work stands
as its phase says and a replacement is never itself a pack that goes
(`WorkRows`), that the call under way agrees with the journal (`CallUnderWay`),
that files still needed are durable (`FilesKept`), and that a retired file is
gone (`FilesGone`).  The last holds under kills alone or power failures alone;
under both `purge_resync` shows a file come back.  Puts run beside the purge
in all of this: the check of the absence in `put_reader` keeps them off its
files.  The refinement maps the commit of the absences to `AuthorizeAbsence` of
the whole inventory, and every other step of the purge to a stutter.

`PageHistoryProofs` (from `PageHistoryAssumption` and a single collection):
`HistoryWithoutGaps` (`Spec => []NoGap`) and `HistoryTypes`.  `NoGap` says
nothing while a bootstrap is under way, and a bootstrap captures the newest
revision first.  `HistoryInv` adds, per step of a job, how far history is filled
from above (`Filling`) or from below (`Streaming`), that nothing newer has been
captured than that, and that history is contiguous up to the newest captured
revision and not merely up to the head (`Contiguous`), which is what a resumed
reconciliation builds on.  The single collection is a real limit (section 6).
Exports (from `ExportAssumption`): `ExportsAreKept` and `CutoffsAreUtc`.
`ExportInv` says what an exporter holds at each call: the directory it staged is
whole and in no listing, so that nobody else moves or removes it (`StagedHeld`);
the backup it set aside is where it left it (`BackupHeld`), as its place bears
the number of the process; and every name that an export was acknowledged under
has a whole export that is not about to be dropped, in each listing that a loss
of power may leave (`Kept`).  `Settle` must come before `DropBackup` for the last
of these.  That an export of a time selects the right revisions rests on
`CutoffsAreUtc`: for every year, the code's division by eras, centuries and spans
of four years is the calendar with its leap days, and the day before or after
when an offset leaves the day.

`SyncRunsProofs` (from `SyncRunsAssumption`): `CheckpointsFollowContent`,
`ShownHeadsAreDurable`, `ManifestsKeepUp` and `SyncTypes`, each from
`Spec => []SyncInv`.  `CheckpointBehindContent` is about the step that commits a
run, which looks at rows of jobs that ended long before, while the wiki moves
on.  `SyncInv` therefore keeps, for every job that succeeded, that it covers its
page up to the candidate of its run (`JobsCovered`), and for the attempt under
way what it has seen of its page (`AttemptInv`); `EngineInv` and `OnePagePerJob`
tie engine and rows together: the jobs of a run that is worked on are those of
the selection.  The candidate is never ahead of the clock (`CandidateInv`),
which is why an edit made during the run cannot be older than it.  The proof
takes least and greatest elements from the well-foundedness of the naturals.

The same module proves `VerifiedLibrariesAreSo` from
`ScanSpec => []ScanInv` (and `ScanAssumption`): a verification without a lock may be believed.
`Grows` is all that is used of synchronization: it adds rows and objects and never
changes one, but for heads, documents, runs and checkpoints, and a commit that
changes those moves the counter of the catalog.  A page of entries has no gap
(`PagesHaveNoGap`), so that everything before the cursor was looked at
(`ObjectsRead`, `RecordsRead`), and a cursor that passed as many entries as there
are has passed them all (`CursorAtTheEnd`), though an object may be added before
it: that is why the code counts again at the end.  `RecordsRead` holds only while
the counter stands still, which the last step looks at.  `ClaimsReplayed` says
that the manifests read so far are the first of one chain and that their claims
hold; these stay so when rows are added.

`ConclusionsHold` adds the verdict both ways, for any library and any damage that
leaves its tables tables, from `ScanSpec => [](ScanInv /\ VerdictInv)`.  A writer
may have been at work before an undisturbed verification began.  `WriterInv` says
what is not whole between its commits, one lemma for each commit: the document of
the page just captured is behind its head, the last run is open, or it has no
manifest yet (`Kept`).  That every revision has a number after its parent's, as
the wiki numbers them, is the assumption that a new row cannot become the parent
an old one names.  `ListedAll` and `ComparedAll` say that the lists of an
undisturbed verification name all manifests and runs there are, so that a report
without a finding leaves nothing of `Whole` open; `NothingWrong` says that in a
whole library no step has one, where the counts of the cursor are exact and a page
is empty only at the end (`PageNotEmpty`).

`PurgeLifecycleProofs` (from `LifecycleAssumption`): `PurgesAreAuthenticated`,
`AuthorizationsStayCurrent` and `OnlyExclusivePayloadIsRemoved`.  An absence
names a purge and not an event, so `LifeInv` connects the two: the event of a
purge lists its objects (`EventsKnown`), a purge beyond its authorization has an
event that is durable (`WorkAuthenticated`), and no other has absences
(`AbsencesPurged`).  That a power loss takes only a suffix of the chain that was
never synced then suffices.  An authorization stays current because at most one
purge is unfinished (`OneOpen`), and the chain ends with what it names or with
its own event (`OpenIsCurrent`); direct writers and lost events are excepted.

`AuditProofs` (from the same assumption, over `LifeInv`):
`LossesAreToldFromPurges`.  The audit accepts a purge each of whose objects is
absent, or is back.  What makes it right is `PayloadInv`: nothing absent can be
read, nothing captured is unreadable without an absence, and an object that came
back did so for another collection (`ComeBack`), which keeps it from every later
purge.  This needs more than one purge to go wrong, and the run has one: the
theorem says it of any number of them.
Keys and anchors (same module, from `TrustAssumption`): `AnchorsAreRetained` and
`TrustTypesHold`.  A power loss falls back to any state a directory had since it
was last synced, so `TrustInv` is about all of these at once (`AllKept`): a
replacement is made only of an anchor that has a copy, and the copy a rotation
makes only once the new key is durable.
The limits of a client (same module, from `ClientAssumption`): `LimitsHoldTogether`.
The budget speaks of a sum over the operations under way; that it follows when
one of them reserves, receives or is dropped is a lemma on sums over finite sets
(`SumChanges`), proved by counting units.  `ClientInv` says what each operation
may hold of the budget (`WithinReserve`) and that the limiter never credits time
that has not passed (`Credited`).

`DaemonProofs`, the lease (from `LeaseAssumption`): `OneReachedWriterHolds` and
`LeaseTypes`.  `LeaseInv` has the discipline of the lock file: who inspects,
clears or binds a name holds it (`LockHeld`), a socket found stale stays so until
it is removed (`StaleStays`), and a writer whose lease is not lost is who its
name leads to, and listens (`LeaseShown`).  Leases lost to the gap between the
check and the unlink of a guard, and to the end of its monitor, are excepted, as
in the property; that they occur is why the history variable `lost` is there.
Requests (from `IpcAssumption`): `DraftsHaveOneClient` and `IpcTypesHold`.
`IpcInv` says that clients of one daemon never claim one token (`TokensApart`),
be it by holding it, by a request still queued after its client gave up, or by a
staged chunk; clients of an earlier daemon are excepted.
Edits of a collection (from the assumption of `CollectionEdits`):
`EditsSaveOverWhatWasSeen`, an action property, and `EditsTypesHold`.  `EditsInv`
says that an edit which names the generation the collection has now has seen
what it is now (`SeesWhatItNames`), as every commit makes a new generation and
the file lags behind the database but is never ahead of it.  That a preview also
covers what the editor had loaded before is violated (`edit_lost`).
Schedules (from `ScheduleAssumption`): `NextRunIsTheEarliest` and
`ScheduleTypesHold`.  The loop of the code tries three occurrences from one
before the instant; that it finds one, and that no other could be earlier, are
lemmas for every period, offset and jitter (`NextOccurrence`).
The desktop application (from `GuiAssumption`): `TheWindowShowsWhatIsSo`, an
action property, and `GuiTypesHold`.  `GuiInv` says that the request that is
awaited is one of the folder in use, unless a folder was picked since
(`AwaitsItsFolder`).
Packs (from `PackAssumption`): `PacksAreReadBack` and `PackTypesHold`, for objects
of any bytes and length.  `DeltaGivesBack` says that a common prefix and suffix
cut from two sequences of bytes and put together again give the second, which is
where an overlap of the two would show; `PackInv` that each entry of a pack, one
still being prepared too, is such a delta on an entry before it, or whole, within
the depth (`SoundPack`).  The recursive reading of a pack is determined by least
counterexample (`RebuiltIs`), so its depth may be anything.  `PackDeltas`
defines it for this as a function of the budget that is left.

`DumpProofs`, imports (from `DumpAssumption`): `ImportsMissNothing`.  `ImportInv`
says of each step of the engine up to which page everything selected is captured
(`ReadOver`), and that a job which looked at the wiki did so after the run began
(`ClosedSince`).  It needs nothing of how long the parts of a dump are, so no
induction over them.  The cache (from `CacheAssumption`): `PublishedIsAlwaysWhole`.
The link is made from the name of the partial file, not from the file that was
verified; `CacheInv` says why they are the same: one call at a time holds a
file's lock (`OneHolder`), knows what it hashed (`Knows`), and until something is
published every call's file is the one with that name (`UnderWay`).
Whole editions (from `EditionAssumption`): `CheckpointsCover`, from
`EditionInv`, with imports at any time.  A run sets the checkpoint to the end of
its window, long after it asked what happened in it, and the wiki lists changes
only for so long.  So `EditionInv` says, of what the wiki still lists: all of it
up to a time is found (`DiscoveryKept`), nothing before the checkpoint is left to
apply (`Known`), and changes are applied in their order, over windows that
overlap (`Ordered`) and runs that were given up (`Closed`), without which an older
text could go over a newer one.  Of an article it says that it is here at least
as it was at each change applied to it (`ChangesShown`), that what is here is an
edit of its own (`EditsShown`), and that one which nothing changed since the dump
is here as the dump has it (`DumpShown`).  `WindowsKept` and `EngineKeeps` tie the
run, its window and the step of the engine together.  As long as no import that
nothing called for was given up (`givenUp`), `Ordered` and `Closed` hold and
`overtaken` is empty, so `CurrentAtCheckpoint` holds with no article excepted
(`CurrentUnlessGivenUp`).  Afterwards only `ChangesShown` is left, of the articles
outside `overtaken`; section 6 says what happens to the others.

Only model-checked:

* `RevisionMedia` and `Thumbnails`: no proof has been written;
* `DumpReader` and `CollectionPreview`, and the bounds of `DumpTypeOK` (a sum over
  the parts): they fold over documents, lists of titles and parts of any length,
  and what a fold computes is induction over data, out of the prover's reach;
  the guard of `DumpReader`'s refusals is an `ENABLED` besides;
* the type invariants of the MC modules (`StoreTypeOK`, `SyncTypeOK`, `DaemonTypeOK`,
  `LibraryTypeOK`): conjunctions over components that share nothing but a run;
  their parts are theorems where a component has one;
* all liveness, with fairness and `ENABLED`, `DaemonSchedule` among it: likewise.

## 6. Where code and words disagree

With a run (`PROJECT.json`, `findings`, quotes the sentences and names the lines):

* `purge_resync`: the directory of an unlinked file is synced only by the call
  that unlinked it; a call that finds the file gone trusts that.
* `sync_removed`: a job of a page that has left the selection fails as
  retryable, first, in every attempt.
* `sync_new_member`: only a bootstrap captures pages that have no row, and a
  collection is bootstrapped once.
* `purge_stale`: a writer that does not recover first makes an authorized purge
  without event unfinishable, and the daemon refuses to start.
* `edition_resume`: the end of the race window moves in three rows of four.
* `edit_lost`: the GUI's compare-and-swap names the generation read at the
  preview, not the one its form came from.

Met while modelling, and excepted by a named condition of a property or an
assumption of a module:

* Changes of a whole edition are applied in order only among those still pending
  (dump_bootstrap:603), and each becomes the current one unconditionally (696).  A
  dump imported without need applies changes later than its snapshot; when it is
  given up, the next update applies those between checkpoint and snapshot last,
  and the article shown is older than the new checkpoint, until it is edited
  again; `IMPLEMENTATION_STATUS.md:577` promises "all current articles from an
  accepted snapshot plus later public changes".  It came to light in the attempt
  to prove `CurrentAtCheckpoint`, which `CheckpointCovers` is without its
  exception.  TLC finds it violated in `MCWholeEdition` with two articles,
  `MaxGap = 3`, `Retention = 3`, `Overlap = 0`, `MaxChanges = 3`, `MaxHidden = 0`
  and `MaxStops = 1` in 45 seconds (51 states); the one article of `library` does
  not meet the exception, and the proof covers any number.
* A kill between `fail_sync_job` and `cancel_sync_run` (sync 1479, 1700) leaves a
  run no resumption finishes (`Stuck` of `RunEndsUnlessStuck`).
* A prune killed between commit and unlink leaves a loose file that the
  verification of a finished purge rejects (purge:858), though store:9029 calls
  such files harmless.
* A bootstrap of a second collection installs a head without connecting it to
  the newest revision the first one had (sync:923): a gap that stays.
* History capture takes the row of a revision whose content was purged for a
  captured one (sync:1283): a page purged and selected again keeps absent
  revisions; then the audit refuses the purge's event (`ReferredAgain`).
* The audit never accepts a purged thumbnail, and a quick verification never any
  purged object (integrity 768-780, 996).
* A new manifest is expected of media added after the last one, so another run
  or a killed one raises `ManifestMediaInventoryChanged`; a kill between head and
  index raises `SearchRevisionNotCurrent`.
* `open_read_only` opens the file as immutable (store 2557-2582) and so ignores
  the log and sees a constant `data_version`, against store:9249.
* An article deleted during a long gap stays live after its recovery
  (`IMPLEMENTATION_PLAN.md:396`); an import of several parts is not resumed past
  the first (`DumpImportProgressRegression`); a finished import is refused when
  its run is resumed.
* With two editions of a dump under one name, a call that opened the part file
  before another published it can truncate the published one, and a published
  older edition blocks the new one (`DumpCache` assumes overlapping calls trust
  one index).
* A success that arrives late closes an open circuit; the circuit is looked at
  once per operation.
* The media snapshot of a manifest is not sharded: a scope of more than 100 000
  placements leaves its run without manifest (store:7125), and as the oldest goes
  first, every later run of the library too.
* A title list of more than one request (50 titles) in which two titles of
  different requests lead to one page passes the preview, which is documented as
  ready for commitment (sync:188), and is refused by the daemon as a duplicate
  (`wikisyncd/collection.rs:662`); so is a title outside the main namespace.
* A second `<mediawiki>` root after the site information is accepted, though
  `read_site_info` refuses it; `<page/>` is ignored.
* The desktop application never recovers from a folder picked while a setup
  request runs (`ShowsWhatIsSo` excepts it); an editor of one library survives
  the change to another.
* A killed exporter may leave no `exports/current` at all, the last complete one
  under a hidden backup name that nothing restores, though
  `docs/contracts/stable-v1.md:118` calls the replacement atomic (`ExportsKept`
  counts the backup).  Until it is removed by hand, a process of the same number
  is refused.  Of two exporters the one that began first may install last.
* Three wikis with pages of one number can collide in a path even with the
  suffix of the wiki, and are then never exported together (export.rs:289).
* An edit of a description page makes every later revision that shows the
  unchanged image fail with `ConflictingMedia`; a file of the same size uploaded
  between two requests is stored with the earlier attribution; an object that is
  in the library already counts nothing towards the byte budget, so that one
  image may exceed it after a kill between object and row.
* A mixed pack over the limits of a purge cannot be replaced (purge:1242); a host
  clock set back fails new runs (store:4427); a GUI reconciliation of a collection
  never bootstrapped blocks the daemon (gui:4440).

## 7. Plan

Done: the store with its purge and proofs, runs, history with proofs, lifecycle
and audit of purges, imports, editions, reader, client, cache, lease, requests,
schedules, edits and previews, packs, desktop application, verification,
manifest files, images, exports and trust.  So are the proofs of runs and of a
verification beside them, of the lifecycle of purges and its audit, of lease,
requests, edits, schedules, the desktop application and packs, of imports, cache,
client and whole editions, of the files of manifests and of trust, and of exports
with their calendar.  Next would be the proof of `RevisionMedia`, the composition
of revision rows with purged content, and two editions in one cache.

## 8. Not modelled, and why

Rendering, diffing and the parsing of responses are functions of their input,
tested and fuzzed in the repository; so is the content of documents.  Byte-level
damage and quarantine are outside the protocol models (`IntegrityScan` has
damage, but no writer repairs it).  Disk-full inside SQLite is an error return,
which `Abort`, `Stop` and `Kill` stand for.  The search index is derived; only
its agreement with heads is looked at (`IntegrityScan`).  `read_object` lists
locations and opens files without a transaction, so a concurrent retire can fail
a read.  The local web server answers from single queries.  Migrations run alone
before anything else.  Packaging, fuzzing and scripts have no state of their own.
