--------------------------- MODULE PurgeLifecycle ---------------------------
(***************************************************************************)
(* A purge from its preview to its completion, among the other writers of  *)
(* the library: collections selected and tombstoned, runs that capture     *)
(* pages, and the chain of manifest events, which the purge joins and      *)
(* binds itself to.  The steps on files are PurgeStore's; here they are    *)
(* one.  A preview commits to the whole catalog, so any other commit makes *)
(* it stale, and an authorization too until its event is in the chain      *)
(* (crates/wikisync-store/src/lib.rs, apps/wikisyncd/src/purge.rs).        *)
(***************************************************************************)
EXTENDS Naturals, Sequences, FiniteSets
CONSTANTS
  Colls, Pages, Objects,
  Content,        \* the object of the captured revision of a page
  DirectWriters,  \* a command line or GUI may commit without recovering first
  MaxRuns, MaxPurges, MaxLosses
ASSUME LifecycleAssumption == /\ Content \in [Pages -> Objects]
                              /\ DirectWriters \in BOOLEAN
                              /\ {MaxRuns, MaxPurges, MaxLosses} \subseteq Nat

VARIABLES
  status,     \* new, active or tombstoned
  rows,       \* the resolved members of a collection, kept when it is tombstoned
  captured,   \* the pages with a revision row
  present,    \* the objects that can be read
  runs,       \* succeeded runs, each by its collection
  chain,      \* the manifest events in the directory
  synced,     \* how many of them survive a power loss
  previews,   \* the previews still current: collection, head and inventory
  purges,     \* the journals, oldest first
  absent,     \* authorized absences not superseded: <<purge, object>>
  meddled,    \* purges a direct commit or a lost event came across (history)
  losses
lifeVars == <<status, rows, captured, present, runs, chain, synced, previews,
              purges, absent, meddled, losses>>

Event == [run : 0..MaxRuns, purge : 0..MaxPurges, objs : SUBSET Objects, coll : Colls, pre : Nat]
ChainHead == IF chain = <<>> THEN <<>> ELSE <<Len(chain), chain[Len(chain)]>>

LifeTypeOK ==
  /\ status \in [Colls -> {"new", "active", "tombstoned"}]
  /\ rows \in [Colls -> SUBSET Pages]
  /\ captured \subseteq Pages /\ present \subseteq Objects
  /\ runs \in Seq(Colls) /\ chain \in Seq(Event) /\ synced \in 0..Len(chain)
  /\ \A v \in previews : v.coll \in Colls /\ v.objs \subseteq Objects
  /\ \A i \in DOMAIN purges : purges[i].state \in {"authorized", "repacking", "cleaning", "succeeded"}
  /\ absent \subseteq (DOMAIN purges) \X Objects
  /\ meddled \subseteq DOMAIN purges
  /\ losses \in 0..MaxLosses

LifeInit ==
  /\ status = [c \in Colls |-> "new"] /\ rows = [c \in Colls |-> {}]
  /\ captured = {} /\ present = {} /\ runs = <<>>
  /\ chain = <<>> /\ synced = 0 /\ previews = {} /\ purges = <<>>
  /\ absent = {} /\ meddled = {} /\ losses = 0

UnfinishedPurges == {i \in DOMAIN purges : purges[i].state # "succeeded"}
Installed(i) == \E k \in DOMAIN chain : chain[k].purge = i
Unmanifested == {r \in DOMAIN runs : \A k \in DOMAIN chain : chain[k].run # r}

(* The pages only c ever selected, and what purging c may remove: the objects
   of those pages that no other page and no event of another collection
   refers to. *)
Exclusive(c) == {p \in rows[c] : \A d \in Colls \ {c} : p \notin rows[d]}
Named(c) == UNION {chain[k].objs : k \in {k \in DOMAIN chain : chain[k].run # 0 /\ chain[k].coll # c}}
Kept(c) == {Content[p] : p \in captured \ Exclusive(c)} \cup Named(c)
Inventory(c) == {Content[p] : p \in captured \cap Exclusive(c)} \ Kept(c)

Superseded(i) == {o \in purges[i].objs : purges[i].state = "succeeded" /\ <<i, o>> \notin absent}
Shared(i) == (purges[i].objs \cap Kept(purges[i].coll)) \ Superseded(i)

HeadSequence(i) == IF purges[i].head = <<>> THEN 0 ELSE purges[i].head[1]
Append1(e) == chain' = Append(chain, e)

(* Every writer of the daemon drains the unfinished purges first; a direct
   writer has the lease and does not. *)
GateForgotten(direct) == direct => DirectWriters
Gate(direct) == IF direct THEN DirectWriters ELSE UnfinishedPurges = {}

(* A commit of another writer changes the catalog every fingerprint covers. *)
Commits(direct) ==
  /\ previews' = {}
  /\ purges' = [i \in DOMAIN purges |-> [purges[i] EXCEPT !.fresh = FALSE]]
  /\ meddled' = meddled \cup IF direct THEN UnfinishedPurges ELSE {}

Select(c, ps, direct) ==
  /\ status[c] = "new" /\ Gate(direct)
  /\ status' = [status EXCEPT ![c] = "active"]
  /\ rows' = [rows EXCEPT ![c] = ps]
  /\ Commits(direct)
  /\ UNCHANGED <<captured, present, runs, chain, synced, absent, losses>>

EditMembers(c, ps, direct) ==
  /\ status[c] = "active" /\ Gate(direct) /\ ~(ps \subseteq rows[c])
  /\ rows' = [rows EXCEPT ![c] = @ \cup ps]
  /\ Commits(direct)
  /\ UNCHANGED <<status, captured, present, runs, chain, synced, absent, losses>>

(* A run that captured the head of each page of ps and succeeded.  An object
   of an unfinished purge is refused; a finished one's absence is superseded. *)
Blocked(o) == \E i \in UnfinishedPurges : <<i, o>> \in absent
RunSucceeds(c, ps, direct) ==
  /\ status[c] = "active" /\ ps \subseteq rows[c] /\ Gate(direct)
  /\ Len(runs) < MaxRuns
  /\ \A p \in ps : ~Blocked(Content[p])
  /\ captured' = captured \cup ps
  /\ present' = present \cup {Content[p] : p \in ps}
  /\ absent' = {a \in absent : a[2] \notin present'}
  /\ runs' = Append(runs, c)
  /\ Commits(direct)
  /\ UNCHANGED <<status, rows, chain, synced, losses>>

(* The oldest run without an event gets one: what the collection's members
   refer to by then.  The file is in place before the directory is synced. *)
AppendSync(r, direct) ==
  /\ r \in Unmanifested /\ \A q \in Unmanifested : r <= q
  /\ Gate(direct)
  /\ Append1([run |-> r, purge |-> 0, coll |-> runs[r], pre |-> Len(chain),
              objs |-> IF status[runs[r]] = "active"
                         THEN {Content[p] : p \in rows[runs[r]] \cap captured} ELSE {}])
  /\ previews' = {}
  /\ meddled' = meddled \cup IF direct THEN UnfinishedPurges ELSE {}
  /\ UNCHANGED <<status, rows, captured, present, runs, synced, purges, absent, losses>>

SyncManifests ==
  /\ synced < Len(chain) /\ synced' = Len(chain)
  /\ UNCHANGED <<status, rows, captured, present, runs, chain, previews, purges,
                 absent, meddled, losses>>

Tombstone(c, direct) ==
  /\ status[c] = "active" /\ Gate(direct)
  /\ status' = [status EXCEPT ![c] = "tombstoned"]
  /\ Commits(direct)
  /\ UNCHANGED <<rows, captured, present, runs, chain, synced, absent, losses>>

(* What the fingerprint of a preview is taken of, the catalog aside. *)
PreviewOf(c) == [coll |-> c, head |-> ChainHead, objs |-> Inventory(c)]
PreviewPurge(c) ==
  /\ status[c] = "tombstoned"
  /\ Inventory(c) # {} /\ Inventory(c) \subseteq present
  /\ previews' = previews \cup {PreviewOf(c)}
  /\ UNCHANGED <<status, rows, captured, present, runs, chain, synced, purges,
                 absent, meddled, losses>>

(* The handler has drained the unfinished purges, then compares the preview
   with one computed in the transaction that records it.  A collection has at
   most one authorization that is not carried out. *)
AuthorizedFor(c) == {i \in UnfinishedPurges : purges[i].coll = c}
Authorize(v) ==
  /\ v \in previews /\ UnfinishedPurges = {} /\ Len(purges) < MaxPurges
  /\ AuthorizedFor(v.coll) = {} /\ v = PreviewOf(v.coll)
  /\ purges' = Append(purges, [coll |-> v.coll, state |-> "authorized", fresh |-> TRUE,
                               head |-> v.head, objs |-> v.objs])
  /\ previews' = {}
  /\ UNCHANGED <<status, rows, captured, present, runs, chain, synced, absent, meddled, losses>>

(* Publication: the head is still the one the preview named, the catalog is
   still the one it committed to, and the chain has no event of this purge. *)
PublishUnbound(i) ==
  /\ purges[i].state = "authorized" /\ ~Installed(i)
  /\ Append1([run |-> 0, purge |-> i, coll |-> purges[i].coll, pre |-> HeadSequence(i),
              objs |-> purges[i].objs])
  /\ previews' = {}
  /\ UNCHANGED <<status, rows, captured, present, runs, synced, purges, absent, meddled, losses>>
Publish(i) ==
  /\ purges[i].state = "authorized" /\ ~Installed(i)
  /\ purges[i].head = ChainHead /\ purges[i].fresh
  /\ Append1([run |-> 0, purge |-> i, coll |-> purges[i].coll,
              pre |-> HeadSequence(i),
              objs |-> purges[i].objs])
  /\ previews' = {}
  /\ UNCHANGED <<status, rows, captured, present, runs, synced, purges, absent, meddled, losses>>

SetState(i, s) == purges' = [purges EXCEPT ![i].state = s]
(* The collection is tombstoned for good; what can still go wrong is a
   reference gained since the authorization. *)
ValidIgnoringShared(i) == Installed(i)
Valid(i) == Installed(i) /\ Shared(i) = {}

PrepareUnsynced(i) ==
  /\ purges[i].state = "authorized" /\ Valid(i)
  /\ SetState(i, "repacking") /\ previews' = {}
  /\ UNCHANGED <<status, rows, captured, present, runs, chain, synced, absent, meddled, losses>>
(* An event found in place has its directory synced again. *)
PrepareWork(i) ==
  /\ purges[i].state = "authorized" /\ Valid(i)
  /\ synced' = Len(chain)
  /\ SetState(i, "repacking") /\ previews' = {}
  /\ UNCHANGED <<status, rows, captured, present, runs, chain, absent, meddled, losses>>

CommitUnremoved(i) ==
  /\ purges[i].state = "repacking" /\ Valid(i)
  /\ SetState(i, "cleaning") /\ previews' = {}
  /\ absent' = absent \cup {<<i, o>> : o \in purges[i].objs}
  /\ UNCHANGED <<status, rows, captured, present, runs, chain, synced, meddled, losses>>
CommitAbsence(i) ==
  /\ purges[i].state = "repacking" /\ Valid(i)
  /\ SetState(i, "cleaning") /\ previews' = {}
  /\ absent' = absent \cup {<<i, o>> : o \in purges[i].objs}
  /\ present' = present \ purges[i].objs
  /\ UNCHANGED <<status, rows, captured, runs, chain, synced, meddled, losses>>

Finish(i) ==
  /\ purges[i].state = "cleaning" /\ Valid(i)
  /\ SetState(i, "succeeded") /\ previews' = {}
  /\ UNCHANGED <<status, rows, captured, present, runs, chain, synced, absent, meddled, losses>>

PowerLoss ==
  /\ losses < MaxLosses /\ losses' = losses + 1
  /\ \E k \in synced..Len(chain) :
       /\ chain' = SubSeq(chain, 1, k) /\ synced' = k
       /\ meddled' = meddled \cup
            {i \in UnfinishedPurges : k < HeadSequence(i)}
  /\ previews' = {}
  /\ UNCHANGED <<status, rows, captured, present, runs, purges, absent>>

(* Startup, each poll and each mutation of the daemon resume every unfinished
   purge. *)
ResumePurge == \E i \in DOMAIN purges :
                 Publish(i) \/ PrepareWork(i) \/ CommitAbsence(i) \/ Finish(i)
LifeNext ==
  \/ \E c \in Colls, d \in BOOLEAN :
       \/ \E ps \in SUBSET Pages \ {{}} : Select(c, ps, d) \/ EditMembers(c, ps, d) \/ RunSucceeds(c, ps, d)
       \/ Tombstone(c, d)
  \/ \E r \in DOMAIN runs, d \in BOOLEAN : AppendSync(r, d)
  \/ \E c \in Colls : PreviewPurge(c)
  \/ \E v \in previews : Authorize(v)
  \/ SyncManifests \/ ResumePurge \/ PowerLoss
LifeSpec == LifeInit /\ [][LifeNext]_lifeVars /\ WF_lifeVars(ResumePurge)

(* The chain authenticates each purge: its event is there once and names as
   pre-purge head the event before it, whichever retries, kills and losses of
   unsynced events came between. *)
ChainAuthentic ==
  \A k \in DOMAIN chain :
    /\ chain[k].purge # 0 => chain[k].pre = k - 1
    /\ \A j \in DOMAIN chain : j # k => chain[j].run # chain[k].run \/ chain[j].purge # chain[k].purge

(* No object is given up before the event that authorizes it is sure to
   survive: a lost object is always explained by the durable chain. *)
AbsenceIsAuthenticated ==
  \A a \in absent : \E k \in 1..synced : chain[k].purge = a[1] /\ a[2] \in chain[k].objs

(* Purges are authenticated by the chain, and the chain by itself. *)
PurgesAuthenticated == ChainAuthentic /\ AbsenceIsAuthenticated

(* A purge whose event is not published can still be published, as long as no
   direct writer committed and no event it names was lost meanwhile: the
   daemon's own writers never make its authorization stale. *)
AuthorizationStaysCurrent ==
  \A i \in UnfinishedPurges \ meddled :
    purges[i].state = "authorized" /\ ~Installed(i) => purges[i].fresh /\ purges[i].head = ChainHead

(* The step that gives objects up leaves out whatever another collection came
   to refer to since the authorization. *)
OnlyExclusivePayloadGoes ==
  [][\A p \in captured, c \in Colls :
       Content[p] \in present \ present' /\ p \in rows[c] =>
         \E i \in DOMAIN purges : purges'[i].state # purges[i].state /\ purges[i].coll = c]_lifeVars

(* An authorized purge is carried to its end, unless something came across. *)
PurgeEndsUnlessMeddled == (UnfinishedPurges # {}) ~> (UnfinishedPurges = {} \/ meddled # {})
PurgeEnds == (UnfinishedPurges # {}) ~> (UnfinishedPurges = {})
=============================================================================
