--------------------------- MODULE ManifestFiles ---------------------------
(* How the manifest of a successful run becomes files (wikisync-store): under
   the write lock of the database its revisions and page heads are read page
   by page; what does not fit one page is put into shards named by their
   content, each made durable before the next; the root that commits to them is
   renamed into the directory last.  A process may be killed at any step, and
   the power may fail.

   A shard is its kind and its entries; its name is its content, so that a set
   of shards is the shard directory.  Page p is captured when a revision of it
   is.  WholeWiki stands for the scope of a run without a collection. *)
EXTENDS Naturals, Sequences, FiniteSets

CONSTANTS
  Appender,      \* the processes that append
  Collection,    \* the collections of the wiki, numbers
  WikiPage,      \* the pages of the wiki, numbers
  PageOfRevision,\* the page of each revision that can be captured: a sequence
  Illustrated,   \* the revisions that show an image
  FirstMembers,  \* the members each collection starts with
  ShardEntries,  \* max_manifest_shard_entries
  MaxPlacements, \* MAX_MANIFEST_ENTRIES, for the media snapshot
  MaxSyncs,       \* bound: runs
  MaxAppendStops,\* bound: kills and power failures
  MaxMoves       \* bound: pages that join or leave a collection

ASSUME ManifestBounds ==
  /\ ShardEntries \in Nat \ {0}
  /\ {MaxPlacements, MaxSyncs, MaxAppendStops, MaxMoves} \subseteq Nat
  /\ WikiPage \subseteq Nat \ {0} /\ Collection \subseteq Nat \ {0}
  /\ PageOfRevision \in Seq(WikiPage)
  /\ FirstMembers \in [Collection -> SUBSET WikiPage]

VARIABLES
  catalogued,     \* the revisions of the catalogue
  placed,       \* those of them whose image is placed
  currentOf,        \* [page -> current_revision_id, 0: none]
  members,      \* [collection -> [page -> membership_state]]
  manifestRuns, \* sync_runs: a sequence of scope, state and what the catalogue had when it succeeded
  roots,        \* the manifests directory, in sequence order
  rootsSynced,  \* how many of them survive a power failure
  shards, shardsSynced,
  appender,     \* what each process is doing
  acknowledged, \* runs whose append returned to its caller
  appendStops, moves

manifestVars == <<catalogued, placed, currentOf, members, manifestRuns, roots, rootsSynced, shards,
                  shardsSynced, appender, acknowledged, appendStops, moves>>
catalogue == <<catalogued, placed, currentOf, members, manifestRuns, moves>>
manifestFiles == <<roots, rootsSynced, shards, shardsSynced>>

CapturedRevision == DOMAIN PageOfRevision
WholeWiki == 0
EvidenceKinds == <<"revisions", "heads">>
Away == [pc |-> "away"]
FirstN(seq, n) == SubSeq(seq, 1, IF n < Len(seq) THEN n ELSE Len(seq))
Ordered(set) == [i \in 1 .. Cardinality(set) |-> CHOOSE x \in set : Cardinality({y \in set : y < x}) = i - 1]
Entries(seq) == {seq[i] : i \in DOMAIN seq}

ManifestInit ==
  /\ catalogued = {} /\ placed = {} /\ currentOf = [p \in WikiPage |-> 0]
  /\ members = [c \in Collection |-> [p \in WikiPage |-> IF p \in FirstMembers[c] THEN "active" ELSE "none"]]
  /\ manifestRuns = <<>>
  /\ roots = <<>> /\ rootsSynced = 0 /\ shards = {} /\ shardsSynced = {}
  /\ appender = [a \in Appender |-> Away] /\ acknowledged = {} /\ appendStops = 0 /\ moves = 0

(* The pages whose history a scope covers, removed members too, and the pages
   whose head it shows, which are the active ones. *)
Covered(scope) == IF scope = WholeWiki THEN WikiPage ELSE {p \in WikiPage : members[scope][p] # "none"}
ShownPages(scope) == IF scope = WholeWiki THEN WikiPage ELSE {p \in WikiPage : members[scope][p] = "active"}
InCatalogue(scope) == {r \in catalogued : PageOfRevision[r] \in Covered(scope)}

(* What the root of one run, or all of them, commit to. *)
RootShards(root, kind) == {i \in DOMAIN root.shards : root.shards[i].kind = kind}
EntriesOf(root, kind) ==
  Entries(root.inline[kind]) \cup UNION {Entries(root.shards[i].entries) : i \in RootShards(root, kind)}
ClaimedBy(n) == UNION {EntriesOf(roots[i], "revisions") : i \in 1 .. n}
Represented == {roots[i].run : i \in DOMAIN roots}

(*************************** The rest of the program ***************************)
(* The append lock is a write transaction of the database: it excludes other
   appends and every other write. *)
Locked == \E a \in Appender : appender[a].pc # "away"

Running == {n \in DOMAIN manifestRuns : manifestRuns[n].state = "running"}

StartRunOf(scope) ==
  /\ ~Locked /\ Running = {} /\ Len(manifestRuns) < MaxSyncs
  /\ manifestRuns' = Append(manifestRuns, [scope |-> scope, state |-> "running", saw |-> {}])
  /\ UNCHANGED <<catalogued, placed, currentOf, members, manifestFiles, appender, acknowledged, appendStops, moves>>

(* A revision is captured: the current one of its page, which moves its head
   forward, or one of its history, which does not. *)
CaptureRevision(r, current) ==
  /\ ~Locked /\ \E n \in Running : PageOfRevision[r] \in ShownPages(manifestRuns[n].scope)
  /\ catalogued' = catalogued \cup {r}
  /\ currentOf' = IF current /\ currentOf[PageOfRevision[r]] < r THEN [currentOf EXCEPT ![PageOfRevision[r]] = r] ELSE currentOf
  /\ UNCHANGED <<placed, members, manifestRuns, manifestFiles, appender, acknowledged, appendStops, moves>>

PlaceThumbnail(r) ==
  /\ ~Locked /\ Running # {} /\ r \in catalogued \cap Illustrated
  /\ placed' = placed \cup {r}
  /\ UNCHANGED <<catalogued, currentOf, members, manifestRuns, manifestFiles, appender, acknowledged, appendStops, moves>>

(* Reconciliation: a page joins the collection or is marked removed. *)
Reconcile(c, p) ==
  /\ ~Locked /\ \E n \in Running : manifestRuns[n].scope = c
  /\ moves < MaxMoves /\ moves' = moves + 1
  /\ members' = [members EXCEPT ![c][p] = IF @ = "active" THEN "removed" ELSE "active"]
  /\ UNCHANGED <<catalogued, placed, currentOf, manifestRuns, manifestFiles, appender, acknowledged, appendStops>>

SucceedRun(n) ==
  /\ ~Locked /\ n \in Running
  /\ manifestRuns' = [manifestRuns EXCEPT ![n].state = "succeeded", ![n].saw = InCatalogue(manifestRuns[n].scope)]
  /\ UNCHANGED <<catalogued, placed, currentOf, members, manifestFiles, appender, acknowledged, appendStops, moves>>

(******************************* What is to be said ****************************)
Succeeded == {n \in DOMAIN manifestRuns : manifestRuns[n].state = "succeeded"}
Missing == Succeeded \ Represented
OldestMissing(n) == n \in Missing /\ \A m \in Missing : n <= m

(* The media of every retained revision of the scope, in the root itself. *)
MediaSnapshot(scope) == {r \in placed : PageOfRevision[r] \in Covered(scope)}
MediaFits(scope) == Cardinality(MediaSnapshot(scope)) <= MaxPlacements

(* Mutant: the revisions of the pages that are still members. *)
UnclaimedOfShown(scope) == {r \in catalogued : PageOfRevision[r] \in ShownPages(scope)} \ ClaimedBy(Len(roots))
Unclaimed(scope) == InCatalogue(scope) \ ClaimedBy(Len(roots))
HeadsOf(scope) == {p \in ShownPages(scope) : \E r \in catalogued : PageOfRevision[r] = p}
KeysOf(kind, scope) == IF kind = "revisions" THEN Unclaimed(scope) ELSE HeadsOf(scope)
EntryOf(kind, key) == IF kind = "revisions" THEN key ELSE <<key, currentOf[key]>>
KeyOf(kind, entry) == IF kind = "revisions" THEN entry ELSE entry[1]
PageAfter(kind, scope, key, limit) ==
  LET keys == FirstN(Ordered({k \in KeysOf(kind, scope) : k > key}), limit)
  IN [i \in DOMAIN keys |-> EntryOf(kind, keys[i])]

(******************************* Reading the chain *****************************)
LastKey(kind, page) == KeyOf(kind, page[Len(page)])
Ascends(kind, page) == \A i \in 1 .. Len(page) - 1 : KeyOf(kind, page[i]) < KeyOf(kind, page[i + 1])

(* The descriptors of a root: ordinals count within a kind, the kinds are not
   mixed, and the ranges of keys ascend. *)
Canonical(descriptors) ==
  \A i \in DOMAIN descriptors :
    LET it == descriptors[i]
        prior == {j \in 1 .. i - 1 : descriptors[j].kind = it.kind}
    IN /\ it.entries # <<>> /\ it.ordinal = Cardinality(prior)
       /\ (it.kind = "revisions" => \A j \in 1 .. i - 1 : descriptors[j].kind = "revisions")
       /\ \A j \in prior : LastKey(it.kind, descriptors[j].entries) < KeyOf(it.kind, it.entries[1])

(* What a root says in itself: entries in order, and media within the limit. *)
ValidRoot(root) ==
  /\ \A kind \in Entries(EvidenceKinds) : Ascends(kind, root.inline[kind])
  /\ Cardinality(root.media) <= MaxPlacements
Decodes(root) == Canonical(root.shards) /\ ValidRoot(root)

(* The shard of a descriptor is in the directory, and is what it describes. *)
ShardReads(descriptor) ==
  /\ [kind |-> descriptor.kind, entries |-> descriptor.entries] \in shards
  /\ Ascends(descriptor.kind, descriptor.entries)
ReadsBack(n) == Decodes(roots[n]) /\ \A i \in DOMAIN roots[n].shards : ShardReads(roots[n].shards[i])
ChainReads ==
  \A n \in DOMAIN roots :
    /\ ReadsBack(n) /\ roots[n].predecessor = n - 1
    /\ \A m \in 1 .. n - 1 : roots[m].run # roots[n].run

(*********************************** Appending *********************************)
(* The lock is taken.  A run that is represented only has the directory synced
   again; otherwise the oldest missing run is begun, unless its media do not
   fit a root: then it stays missing, and every later run behind it. *)
AcknowledgeAgain(a, n) ==
  /\ ~Locked /\ ChainReads /\ n \in Represented
  /\ rootsSynced' = Len(roots)
  /\ acknowledged' = acknowledged \cup {n}
  /\ UNCHANGED <<catalogue, roots, shards, shardsSynced, appender, appendStops>>

EmptyRoot(n) ==
  [run |-> n, predecessor |-> Len(roots), shards |-> <<>>,
   inline |-> [kind \in Entries(EvidenceKinds) |-> <<>>],
   media |-> MediaSnapshot(manifestRuns[n].scope)]
BeginAppend(a, n) ==
  /\ ~Locked /\ ChainReads /\ OldestMissing(n) /\ MediaFits(manifestRuns[n].scope)
  /\ appender' = [appender EXCEPT ![a] =
       [pc |-> "read", run |-> n, kind |-> 1, after |-> 0, page |-> <<>>,
        root |-> EmptyRoot(n)]]
  /\ UNCHANGED <<catalogue, manifestFiles, acknowledged, appendStops>>

(* One kind after the other, each from its first key; then the root. *)
NextKind(me) ==
  IF me.kind < Len(EvidenceKinds) THEN [me EXCEPT !.pc = "read", !.kind = @ + 1, !.after = 0]
  ELSE [me EXCEPT !.pc = "rename", !.after = 0]

(* The next page of a kind.  The first one stays in the root when it is not
   full, or nothing follows it; any other is put into a shard. *)
ReadEvidence(a) ==
  LET me == appender[a]
      kind == EvidenceKinds[me.kind]
      scope == manifestRuns[me.run].scope
      page == PageAfter(kind, scope, me.after, ShardEntries)
      fits == me.after = 0
              /\ (Len(page) < ShardEntries \/ PageAfter(kind, scope, LastKey(kind, page), 1) = <<>>)
  IN /\ me.pc = "read"
     /\ \/ fits /\ appender' = [appender EXCEPT ![a] = NextKind([me EXCEPT !.root.inline[kind] = page])]
        \/ ~fits /\ page = <<>> /\ appender' = [appender EXCEPT ![a] = NextKind(me)]
        \/ /\ ~fits /\ page # <<>>
           /\ appender' = [appender EXCEPT ![a] = [me EXCEPT !.pc = "install", !.page = page, !.after = LastKey(kind, page)]]
     /\ UNCHANGED <<catalogue, manifestFiles, acknowledged, appendStops>>

ShardOf(me) == [kind |-> EvidenceKinds[me.kind], entries |-> me.page]
Describe(me, shard) ==
  [me EXCEPT !.pc = "read", !.page = <<>>,
             !.root.shards = Append(@, [kind |-> shard.kind, entries |-> shard.entries,
                                        ordinal |-> Cardinality(RootShards(me.root, shard.kind))])]

(* The shard is renamed into place; one that is there already is read and kept. *)
InstallShard(a) ==
  /\ appender[a].pc = "install"
  /\ shards' = shards \cup {ShardOf(appender[a])}
  /\ appender' = [appender EXCEPT ![a].pc = "sync"]
  /\ UNCHANGED <<catalogue, roots, rootsSynced, shardsSynced, acknowledged, appendStops>>

(* Its directories are synced, whoever put it there. *)
SyncShard(a) ==
  LET shard == ShardOf(appender[a])
  IN /\ appender[a].pc = "sync"
     /\ shardsSynced' = shardsSynced \cup {shard}
     /\ appender' = [appender EXCEPT ![a] = Describe(@, shard)]
     /\ UNCHANGED <<catalogue, roots, rootsSynced, shards, acknowledged, appendStops>>

RenameRoot(a) ==
  /\ appender[a].pc = "rename"
  /\ roots' = Append(roots, appender[a].root)
  /\ appender' = [appender EXCEPT ![a].pc = "acknowledge"]
  /\ UNCHANGED <<catalogue, rootsSynced, shards, shardsSynced, acknowledged, appendStops>>

(* The directory is synced, the lock released and the root read back. *)
Acknowledge(a) ==
  /\ appender[a].pc = "acknowledge"
  /\ rootsSynced' = Len(roots)
  /\ acknowledged' = acknowledged \cup {appender[a].run}
  /\ appender' = [appender EXCEPT ![a] = Away]
  /\ UNCHANGED <<catalogue, roots, shards, shardsSynced, appendStops>>

(* The process is killed, or a step of it fails; its lock goes with it. *)
Abandon(a) ==
  /\ appender[a].pc # "away"
  /\ appendStops < MaxAppendStops /\ appendStops' = appendStops + 1
  /\ appender' = [appender EXCEPT ![a] = Away]
  /\ UNCHANGED <<catalogue, manifestFiles, acknowledged>>

(* The power fails: a name that was not synced may be gone. *)
PowerFailure ==
  /\ appendStops < MaxAppendStops
  /\ appendStops' = appendStops + 1
  /\ appender' = [a \in Appender |-> Away]
  /\ \E n \in rootsSynced .. Len(roots) : roots' = FirstN(roots, n) /\ rootsSynced' = n
  /\ \E kept \in SUBSET (shards \ shardsSynced) :
       shards' = shardsSynced \cup kept /\ shardsSynced' = shardsSynced \cup kept
  /\ UNCHANGED <<catalogue, acknowledged>>

ManifestNext ==
  \/ \E scope \in Collection \cup {WholeWiki} : StartRunOf(scope)
  \/ \E r \in CapturedRevision, current \in BOOLEAN : CaptureRevision(r, current)
  \/ \E r \in CapturedRevision : PlaceThumbnail(r)
  \/ \E c \in Collection, p \in WikiPage : Reconcile(c, p)
  \/ \E n \in DOMAIN manifestRuns : SucceedRun(n)
  \/ \E a \in Appender, n \in DOMAIN manifestRuns : AcknowledgeAgain(a, n) \/ BeginAppend(a, n)
  \/ \E a \in Appender :
       ReadEvidence(a) \/ InstallShard(a) \/ SyncShard(a) \/ RenameRoot(a) \/ Acknowledge(a) \/ Abandon(a)
  \/ PowerFailure
ManifestSpec == ManifestInit /\ [][ManifestNext]_manifestVars

(********************************** Properties *********************************)
ManifestTypeOK ==
  /\ catalogued \subseteq CapturedRevision /\ placed \subseteq catalogued
  /\ currentOf \in [WikiPage -> {0} \cup CapturedRevision]
  /\ members \in [Collection -> [WikiPage -> {"none", "active", "removed"}]]
  /\ \A n \in DOMAIN manifestRuns : manifestRuns[n].state \in {"running", "succeeded"}
  /\ rootsSynced <= Len(roots) /\ shardsSynced \subseteq shards
  /\ acknowledged \subseteq DOMAIN manifestRuns /\ appendStops <= MaxAppendStops

(* The chain is sound whatever was killed and however often the power failed:
   every manifest can be read, no run and no revision occurs twice, and the
   revisions that a run found in the catalogue when it succeeded, the heads
   it shows and the images it lists all belong to revisions introduced up to
   it.  A run whose append returned stays in the chain. *)
ManifestsTellWhatRunsCaptured ==
  /\ ChainReads
  /\ \A n \in DOMAIN roots :
       /\ manifestRuns[roots[n].run].state = "succeeded"
       /\ \A m \in 1 .. n - 1 : roots[m].run < roots[n].run  \* oldest first
       /\ EntriesOf(roots[n], "revisions") \cap ClaimedBy(n - 1) = {}
       /\ manifestRuns[roots[n].run].saw \subseteq ClaimedBy(n)
       /\ \A head \in EntriesOf(roots[n], "heads") : head[2] \in {0} \cup ClaimedBy(n)
       /\ roots[n].media \subseteq ClaimedBy(n)
  /\ acknowledged \subseteq Represented
=============================================================================
