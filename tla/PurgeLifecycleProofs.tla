------------------------ MODULE PurgeLifecycleProofs ------------------------
(***************************************************************************)
(* What a purge gives up is authenticated by a chain of events that itself *)
(* is in order, an authorization stays current but for those who meddle    *)
(* with it, and only payload of the purged collection goes: for any        *)
(* collections, pages, runs, purges and losses of power.                   *)
(*                                                                         *)
(* An absence names a purge, not an event, so LifeInv adds what connects   *)
(* the two: an event of a purge names its objects (EventsKnown), a purge *)
(* beyond its authorization has its event in the durable part of the chain *)
(* (WorkAuthenticated), and only such a purge has absences                 *)
(* (AbsencesPurged).  An authorization stays current because there is one  *)
(* unfinished purge at a time (OneOpen) and nothing follows its event      *)
(* (OpenIsCurrent).                                                        *)
(***************************************************************************)
EXTENDS PurgeLifecycle, SequenceTheorems, TLAPS

EventRecord == [run : Nat, purge : Nat, objs : SUBSET Objects, coll : Colls, pre : Nat]
Heads == {<<>>} \cup (Nat \X EventRecord)
PurgeStates == {"authorized", "repacking", "cleaning", "succeeded"}
PurgeRecord == [coll : Colls, state : PurgeStates, fresh : BOOLEAN, head : Heads, objs : SUBSET Objects]

LifeTypes ==
  /\ rows \in [Colls -> SUBSET Pages] /\ captured \subseteq Pages
  /\ runs \in Seq(Colls)
  /\ chain \in Seq(EventRecord) /\ synced \in 0 .. Len(chain)
  /\ purges \in Seq(PurgeRecord)
  /\ absent \subseteq Nat \X Objects
  /\ \A v \in previews : v.coll \in Colls

EventsKnown ==
  \A k \in DOMAIN chain :
    chain[k].purge # 0 => /\ chain[k].run = 0 /\ chain[k].purge \in DOMAIN purges
                          /\ chain[k].objs = purges[chain[k].purge].objs
WorkAuthenticated ==
  \A i \in DOMAIN purges :
    purges[i].state # "authorized" => \E k \in 1 .. synced : chain[k].purge = i
AbsencesPurged ==
  \A a \in absent : /\ a[1] \in DOMAIN purges
                    /\ purges[a[1]].state # "authorized" /\ a[2] \in purges[a[1]].objs
OneOpen == \A i, j \in UnfinishedPurges : i = j

\* The head that the purge names ends the chain, or its own event follows it.
BoundTo(i, n) == purges[i].head = IF n = 0 THEN <<>> ELSE <<n, chain[n]>>
OpenIsCurrent ==
  \A i \in UnfinishedPurges \ meddled :
    purges[i].state = "authorized" =>
      /\ purges[i].fresh
      /\ \/ ~Installed(i) /\ BoundTo(i, Len(chain))
         \/ /\ chain # <<>> /\ chain[Len(chain)].purge = i
            /\ BoundTo(i, Len(chain) - 1)

LifeInv ==
  /\ LifeTypes /\ ChainAuthentic /\ EventsKnown /\ WorkAuthenticated /\ AbsencesPurged
  /\ OneOpen /\ OpenIsCurrent

-----------------------------------------------------------------------------
\* What the indices of a journal or a chain are.
LEMMA Indices ==
  ASSUME LifeTypes
  PROVE  /\ Len(chain) \in Nat /\ DOMAIN chain = 1 .. Len(chain)
         /\ Len(purges) \in Nat /\ DOMAIN purges = 1 .. Len(purges)
         /\ \A k \in DOMAIN chain : chain[k] \in EventRecord
         /\ \A i \in DOMAIN purges : purges[i] \in PurgeRecord
  BY LenProperties, ElementOfSeq DEF LifeTypes

\* The objects that a purge may remove are objects.
LEMMA InventoryType ==
  ASSUME LifeTypes, NEW c \in Colls
  PROVE  Inventory(c) \subseteq Objects
  BY LifecycleAssumption DEF Inventory, Exclusive, LifeTypes

\* A new event keeps the events before it.
LEMMA Appended ==
  ASSUME LifeTypes, NEW e \in EventRecord, Append1(e)
  PROVE  /\ chain' \in Seq(EventRecord) /\ Len(chain') = Len(chain) + 1
         /\ DOMAIN chain' = 1 .. Len(chain) + 1
         /\ chain'[Len(chain) + 1] = e
         /\ \A k \in DOMAIN chain : chain'[k] = chain[k]
<1>1. chain' = Append(chain, e)
  BY DEF Append1
<1>2. chain \in Seq(EventRecord)
  BY DEF LifeTypes
<1> QED
  BY <1>1, <1>2, AppendProperties, LenProperties, Indices

\* A state of a journal changes, and nothing else in it.
LEMMA StateChanged ==
  ASSUME LifeTypes, NEW i \in DOMAIN purges, NEW s \in PurgeStates, SetState(i, s)
  PROVE  /\ purges' \in Seq(PurgeRecord) /\ Len(purges') = Len(purges) /\ DOMAIN purges' = DOMAIN purges
         /\ purges'[i].state = s
         /\ \A j \in DOMAIN purges : /\ purges'[j].objs = purges[j].objs
                                     /\ purges'[j].head = purges[j].head
                                     /\ purges'[j].fresh = purges[j].fresh
                                     /\ purges'[j].coll = purges[j].coll
                                     /\ j # i => purges'[j].state = purges[j].state
<1> DEFINE r == [purges[i] EXCEPT !.state = s]
<1>1. purges[i] \in PurgeRecord /\ i \in 1 .. Len(purges) /\ purges \in Seq(PurgeRecord)
  BY Indices DEF LifeTypes
<1>2. /\ r \in PurgeRecord /\ r.state = s /\ r.objs = purges[i].objs
      /\ r.head = purges[i].head /\ r.fresh = purges[i].fresh /\ r.coll = purges[i].coll
  BY <1>1 DEF PurgeRecord
<1>3. purges' = [purges EXCEPT ![i] = r]
  BY DEF SetState
<1> HIDE DEF r
<1>4. /\ purges' \in Seq(PurgeRecord) /\ Len(purges') = Len(purges)
      /\ \A j \in 1 .. Len(purges) : purges'[j] = IF j = i THEN r ELSE purges[j]
  BY <1>1, <1>2, <1>3, ExceptSeq
<1>5. DOMAIN purges' = DOMAIN purges
  BY <1>3
<1> QED
  BY <1>2, <1>4, <1>5, Indices

\* A commit of another writer ages the journals, and nothing else in them.
LEMMA Aged ==
  ASSUME LifeTypes, NEW d \in BOOLEAN, Commits(d)
  PROVE  /\ purges' \in Seq(PurgeRecord) /\ Len(purges') = Len(purges) /\ DOMAIN purges' = DOMAIN purges
         /\ \A j \in DOMAIN purges : /\ purges'[j].objs = purges[j].objs
                                     /\ purges'[j].head = purges[j].head
                                     /\ purges'[j].coll = purges[j].coll
                                     /\ purges'[j].state = purges[j].state
<1>1. purges' = [i \in 1 .. Len(purges) |-> [purges[i] EXCEPT !.fresh = FALSE]] /\ Len(purges) \in Nat
  BY Indices DEF Commits
<1>2. \A j \in DOMAIN purges :
        /\ [purges[j] EXCEPT !.fresh = FALSE] \in PurgeRecord
        /\ [purges[j] EXCEPT !.fresh = FALSE].objs = purges[j].objs
        /\ [purges[j] EXCEPT !.fresh = FALSE].head = purges[j].head
        /\ [purges[j] EXCEPT !.fresh = FALSE].coll = purges[j].coll
        /\ [purges[j] EXCEPT !.fresh = FALSE].state = purges[j].state
  BY Indices DEF PurgeRecord
<1>3. purges' \in [1 .. Len(purges) -> PurgeRecord]
  BY <1>1, <1>2, Indices
<1>4. purges' \in Seq(PurgeRecord) /\ DOMAIN purges' = 1 .. Len(purges)
  BY <1>1, <1>3, SeqDef
<1>5. Len(purges') = Len(purges)
  BY <1>1, <1>4, LenProperties
<1> QED
  BY <1>1, <1>2, <1>4, <1>5, Indices

-----------------------------------------------------------------------------
LEMMA LifeInvInit == LifeInit => LifeInv
<1> SUFFICES ASSUME LifeInit PROVE LifeInv
  OBVIOUS
<1>1. LifeTypes
  <2>1. rows \in [Colls -> SUBSET Pages]
    BY DEF LifeInit
  <2>2. runs \in Seq(Colls) /\ chain \in Seq(EventRecord) /\ purges \in Seq(PurgeRecord) /\ Len(chain) = 0
    BY EmptySeq DEF LifeInit
  <2> QED
    BY <2>1, <2>2 DEF LifeInit, LifeTypes
<1>2. DOMAIN chain = {} /\ DOMAIN purges = {}
  BY DEF LifeInit
<1> QED
  BY <1>1, <1>2 DEF LifeInit, LifeInv, ChainAuthentic, EventsKnown, WorkAuthenticated, AbsencesPurged,
     OneOpen, OpenIsCurrent, UnfinishedPurges

\* A writer that commits came through its gate, or has meddled with every
\* unfinished purge.
LEMMA CommitKeeps ==
  ASSUME LifeInv, NEW d \in BOOLEAN, Gate(d), Commits(d),
         chain' = chain, synced' = synced, absent' \subseteq absent,
         rows' \in [Colls -> SUBSET Pages], captured' \subseteq Pages, runs' \in Seq(Colls)
  PROVE  LifeInv'
<1>1. LifeTypes
  BY DEF LifeInv
<1>2. /\ purges' \in Seq(PurgeRecord) /\ Len(purges') = Len(purges) /\ DOMAIN purges' = DOMAIN purges
      /\ \A j \in DOMAIN purges : /\ purges'[j].objs = purges[j].objs
                                  /\ purges'[j].state = purges[j].state
  BY <1>1, Aged
<1>3. LifeTypes'
  BY <1>1, <1>2 DEF LifeTypes, Commits
<1>4. EventsKnown' /\ ChainAuthentic' /\ WorkAuthenticated'
  BY <1>2 DEF LifeInv, EventsKnown, ChainAuthentic, WorkAuthenticated
<1>5. AbsencesPurged'
  BY <1>2 DEF LifeInv, AbsencesPurged
<1>6. UnfinishedPurges' = UnfinishedPurges
  BY <1>2 DEF UnfinishedPurges
<1>7. OneOpen'
  BY <1>6 DEF LifeInv, OneOpen
<1>8. UnfinishedPurges' \ meddled' = {}
  BY <1>6 DEF Gate, Commits
<1>9. OpenIsCurrent'
  BY <1>8 DEF OpenIsCurrent
<1> QED
  BY <1>3, <1>4, <1>5, <1>7, <1>9 DEF LifeInv

\* The event of a run: the only one that names it.
LEMMA AppendSyncKeeps ==
  ASSUME LifeInv, NEW r \in DOMAIN runs, NEW d \in BOOLEAN, AppendSync(r, d)
  PROVE  LifeInv'
<1> DEFINE named == IF status[runs[r]] = "active" THEN {Content[p] : p \in rows[runs[r]] \cap captured} ELSE {}
           e == [run |-> r, purge |-> 0, coll |-> runs[r], pre |-> Len(chain), objs |-> named]
<1>1. LifeTypes
  BY DEF LifeInv
<1>2. r \in Nat \ {0} /\ runs[r] \in Colls
  BY <1>1, LenProperties, ElementOfSeq DEF LifeTypes
<1>3. named \in SUBSET Objects
  BY <1>1, LifecycleAssumption DEF LifeTypes
<1> HIDE DEF named
<1>4. e \in EventRecord /\ e.purge = 0 /\ e.run = r /\ e.pre = Len(chain)
  BY <1>1, <1>2, <1>3, Indices DEF EventRecord
<1>5. Append1(e) /\ synced' = synced /\ purges' = purges /\ absent' = absent
      /\ rows' = rows /\ captured' = captured /\ runs' = runs /\ previews' = {}
      /\ Gate(d) /\ meddled' = meddled \cup IF d THEN UnfinishedPurges ELSE {}
  BY DEF AppendSync, named
<1>6. \A k \in DOMAIN chain : chain[k].run # r
  BY DEF AppendSync, Unmanifested
<1> HIDE DEF e
<1>7. /\ chain' \in Seq(EventRecord) /\ Len(chain') = Len(chain) + 1
      /\ DOMAIN chain' = 1 .. Len(chain) + 1
      /\ chain'[Len(chain) + 1] = e
      /\ \A k \in DOMAIN chain : chain'[k] = chain[k]
  BY <1>1, <1>4, <1>5, Appended
<1>8. Len(chain) \in Nat /\ DOMAIN chain = 1 .. Len(chain) /\ synced \in 0 .. Len(chain)
  BY <1>1, Indices DEF LifeTypes
<1>9. LifeTypes'
  BY <1>1, <1>5, <1>7, <1>8 DEF LifeTypes
<1>10. ChainAuthentic'
  <2>1. \A k \in DOMAIN chain' : chain'[k].purge # 0 => chain'[k].pre = k - 1
    BY <1>4, <1>7, <1>8 DEF LifeInv, ChainAuthentic
  <2>2. \A k, j \in DOMAIN chain' : j # k => chain'[j].run # chain'[k].run \/ chain'[j].purge # chain'[k].purge
    BY <1>4, <1>6, <1>7, <1>8 DEF LifeInv, ChainAuthentic
  <2> QED
    BY <2>1, <2>2 DEF ChainAuthentic
<1>11. EventsKnown'
  BY <1>4, <1>5, <1>7, <1>8 DEF LifeInv, EventsKnown
<1>12. WorkAuthenticated' /\ AbsencesPurged'
  BY <1>5, <1>7, <1>8 DEF LifeInv, WorkAuthenticated, AbsencesPurged
<1>13. UnfinishedPurges' = UnfinishedPurges
  BY <1>5 DEF UnfinishedPurges
<1>14. OneOpen' /\ OpenIsCurrent'
  BY <1>5, <1>13 DEF LifeInv, OneOpen, OpenIsCurrent, Gate
<1> QED
  BY <1>9, <1>10, <1>11, <1>12, <1>14 DEF LifeInv

\* A purge is authorized when no other is unfinished, for the present head.
LEMMA AuthorizeKeeps ==
  ASSUME LifeInv, NEW v \in previews, Authorize(v)
  PROVE  LifeInv'
<1> DEFINE p == [coll |-> v.coll, state |-> "authorized", fresh |-> TRUE, head |-> v.head, objs |-> v.objs]
<1>1. LifeTypes
  BY DEF LifeInv
<1>0. PICK n \in Nat : n = Len(purges) + 1
  BY <1>1, Indices
<1>2. v = [coll |-> v.coll, head |-> ChainHead, objs |-> Inventory(v.coll)]
  BY DEF Authorize, PreviewOf
<1>3. v.head = ChainHead /\ v.objs = Inventory(v.coll)
  BY <1>2
<1>4. ChainHead \in Heads /\ ChainHead = IF Len(chain) = 0 THEN <<>> ELSE <<Len(chain), chain[Len(chain)]>>
  <2>1. chain = <<>> <=> Len(chain) = 0
    BY <1>1, EmptySeq DEF LifeTypes
  <2> QED
    BY <1>1, <2>1, Indices DEF ChainHead, Heads
<1>5. p \in PurgeRecord
  BY <1>1, <1>3, <1>4, InventoryType DEF PurgeRecord, PurgeStates, LifeTypes
<1>6. p.state = "authorized" /\ p.fresh /\ p.head = ChainHead
  BY <1>3
<1>7. /\ UnfinishedPurges = {} /\ purges' = Append(purges, p)
      /\ UNCHANGED <<rows, captured, runs, chain, synced, absent, meddled>> /\ previews' = {}
  BY DEF Authorize
<1> HIDE DEF p
<1>8. Len(purges) \in Nat /\ DOMAIN purges = 1 .. Len(purges) /\ purges \in Seq(PurgeRecord)
  BY <1>1, Indices DEF LifeTypes
<1>9. /\ purges' \in Seq(PurgeRecord) /\ Len(purges') = n /\ DOMAIN purges' = 1 .. n
      /\ purges'[n] = p /\ \A j \in DOMAIN purges : purges'[j] = purges[j]
  BY <1>0, <1>5, <1>7, <1>8, AppendProperties, LenProperties
<1>10. LifeTypes'
  BY <1>1, <1>7, <1>9 DEF LifeTypes
<1>11. ChainAuthentic' /\ EventsKnown'
  BY <1>0, <1>7, <1>8, <1>9 DEF LifeInv, ChainAuthentic, EventsKnown
<1>12. WorkAuthenticated'
  BY <1>0, <1>6, <1>7, <1>8, <1>9 DEF LifeInv, WorkAuthenticated
<1>13. AbsencesPurged'
  BY <1>0, <1>7, <1>8, <1>9 DEF LifeInv, AbsencesPurged
<1>14. UnfinishedPurges' \subseteq {n}
  BY <1>0, <1>7, <1>8, <1>9 DEF UnfinishedPurges
<1>15. OneOpen'
  BY <1>14 DEF OneOpen
<1>16. ~Installed(n)'
  BY <1>0, <1>7, <1>8 DEF Installed, LifeInv, EventsKnown
<1>17. purges'[n].fresh /\ BoundTo(n, Len(chain))' /\ ~Installed(n)'
  <2>1. purges'[n].head = IF Len(chain) = 0 THEN <<>> ELSE <<Len(chain), chain[Len(chain)]>>
    BY <1>4, <1>6, <1>9
  <2> QED
    BY <2>1, <1>0, <1>6, <1>7, <1>8, <1>9, <1>16 DEF BoundTo
<1>18. OpenIsCurrent'
  BY <1>14, <1>17 DEF OpenIsCurrent
<1> QED
  BY <1>10, <1>11, <1>12, <1>13, <1>15, <1>18 DEF LifeInv

\* What a head bound to position n names as the position before the event.
LEMMA BoundSequence ==
  ASSUME NEW i \in DOMAIN purges, NEW n \in Nat, BoundTo(i, n)
  PROVE  HeadSequence(i) = n
<1>1. CASE n = 0
  BY <1>1 DEF BoundTo, HeadSequence
<1>2. CASE n # 0
  <2>1. purges[i].head = <<n, chain[n]>>
    BY <1>2 DEF BoundTo
  <2>2. <<n, chain[n]>> # <<>> /\ <<n, chain[n]>>[1] = n
    OBVIOUS
  <2> QED
    BY <2>1, <2>2 DEF HeadSequence
<1> QED
  BY <1>1, <1>2

\* The event of a purge follows the head that the purge names.
LEMMA PublishKeeps ==
  ASSUME LifeInv, NEW i \in DOMAIN purges, Publish(i)
  PROVE  LifeInv'
<1> DEFINE e == [run |-> 0, purge |-> i, coll |-> purges[i].coll, pre |-> HeadSequence(i),
                 objs |-> purges[i].objs]
<1>1. LifeTypes
  BY DEF LifeInv
<1>2. /\ Len(chain) \in Nat /\ DOMAIN chain = 1 .. Len(chain) /\ synced \in 0 .. Len(chain)
      /\ i \in Nat \ {0} /\ purges[i] \in PurgeRecord
  BY <1>1, Indices DEF LifeTypes
<1>3. BoundTo(i, Len(chain))
  <2>1. chain = <<>> <=> Len(chain) = 0
    BY <1>1, EmptySeq DEF LifeTypes
  <2> QED
    BY <2>1 DEF Publish, BoundTo, ChainHead
<1>4. HeadSequence(i) = Len(chain)
  BY <1>2, <1>3, BoundSequence
<1>5. e \in EventRecord /\ e.purge = i /\ e.run = 0 /\ e.pre = Len(chain) /\ e.objs = purges[i].objs
  BY <1>2, <1>4 DEF EventRecord, PurgeRecord
<1>6. /\ Append1(e) /\ previews' = {}
      /\ UNCHANGED <<rows, captured, runs, synced, purges, absent, meddled>>
  BY DEF Publish
<1>7. /\ purges[i].state = "authorized" /\ purges[i].fresh
      /\ \A k \in DOMAIN chain : chain[k].purge # i
  BY DEF Publish, Installed
<1> HIDE DEF e
<1>8. /\ chain' \in Seq(EventRecord) /\ Len(chain') = Len(chain) + 1
      /\ DOMAIN chain' = 1 .. Len(chain) + 1
      /\ chain'[Len(chain) + 1] = e
      /\ \A k \in DOMAIN chain : chain'[k] = chain[k]
  BY <1>1, <1>5, <1>6, Appended
<1>9. LifeTypes'
  BY <1>1, <1>2, <1>6, <1>8 DEF LifeTypes
<1>10. ChainAuthentic'
  <2>1. \A k \in DOMAIN chain' : chain'[k].purge # 0 => chain'[k].pre = k - 1
    BY <1>2, <1>5, <1>8 DEF LifeInv, ChainAuthentic
  <2>2. \A k, j \in DOMAIN chain' : j # k => chain'[j].run # chain'[k].run \/ chain'[j].purge # chain'[k].purge
    BY <1>2, <1>5, <1>7, <1>8 DEF LifeInv, ChainAuthentic
  <2> QED
    BY <2>1, <2>2 DEF ChainAuthentic
<1>11. EventsKnown'
  BY <1>2, <1>5, <1>6, <1>8 DEF LifeInv, EventsKnown
<1>12. WorkAuthenticated' /\ AbsencesPurged'
  BY <1>2, <1>6, <1>8 DEF LifeInv, WorkAuthenticated, AbsencesPurged
<1>13. UnfinishedPurges' = UnfinishedPurges /\ i \in UnfinishedPurges
  BY <1>6, <1>7 DEF UnfinishedPurges
<1>14. OneOpen' /\ UnfinishedPurges' = {i}
  BY <1>13 DEF LifeInv, OneOpen
<1>15. /\ purges'[i].fresh /\ chain' # <<>> /\ chain'[Len(chain')].purge = i
       /\ BoundTo(i, Len(chain) - 1)'
  <2>1. purges'[i].head = IF Len(chain) = 0 THEN <<>> ELSE <<Len(chain), chain[Len(chain)]>>
    BY <1>3, <1>6 DEF BoundTo
  <2>2. Len(chain') - 1 = Len(chain) /\ (Len(chain) # 0 => chain'[Len(chain)] = chain[Len(chain)])
    BY <1>2, <1>8
  <2> QED
    BY <2>1, <2>2, <1>2, <1>5, <1>6, <1>7, <1>8 DEF BoundTo
<1>16. OpenIsCurrent'
  BY <1>14, <1>15 DEF OpenIsCurrent
<1> QED
  BY <1>9, <1>10, <1>11, <1>12, <1>14, <1>16 DEF LifeInv

\* A purge proceeds on an event in the durable part of the chain.
LEMMA WorkKeeps ==
  ASSUME LifeInv, NEW i \in UnfinishedPurges, NEW s \in PurgeStates \ {"authorized"}, SetState(i, s),
         chain' = chain, synced' \in synced .. Len(chain), \E k \in 1 .. synced' : chain[k].purge = i,
         absent' \subseteq absent \cup {<<i, o>> : o \in purges[i].objs},
         previews' = {}, UNCHANGED <<rows, captured, runs>>
  PROVE  LifeInv'
<1>1. LifeTypes /\ i \in DOMAIN purges
  BY DEF LifeInv, UnfinishedPurges
<1>2. /\ purges' \in Seq(PurgeRecord) /\ DOMAIN purges' = DOMAIN purges
      /\ purges'[i].state = s
      /\ \A j \in DOMAIN purges : /\ purges'[j].objs = purges[j].objs
                                  /\ j # i => purges'[j].state = purges[j].state
  BY <1>1, StateChanged
<1>3. /\ Len(chain) \in Nat /\ synced \in 0 .. Len(chain) /\ i \in Nat
      /\ purges[i].objs \subseteq Objects
  BY <1>1, Indices DEF LifeTypes, PurgeRecord
<1>4. LifeTypes'
  BY <1>1, <1>2, <1>3 DEF LifeTypes
<1>5. ChainAuthentic' /\ EventsKnown'
  BY <1>2 DEF LifeInv, ChainAuthentic, EventsKnown
<1>6. WorkAuthenticated'
  BY <1>2, <1>3 DEF LifeInv, WorkAuthenticated
<1>7. AbsencesPurged'
  BY <1>1, <1>2 DEF LifeInv, AbsencesPurged
<1>8. UnfinishedPurges' \subseteq UnfinishedPurges
  BY <1>2 DEF UnfinishedPurges
<1>9. \A j \in UnfinishedPurges' : j = i
  BY <1>8 DEF LifeInv, OneOpen
<1>10. OneOpen' /\ OpenIsCurrent'
  BY <1>2, <1>9 DEF OneOpen, OpenIsCurrent
<1> QED
  BY <1>4, <1>5, <1>6, <1>7, <1>10 DEF LifeInv

\* The head that a purge names is not lost to a purge that is not meddled
\* with; its own event may be.
LEMMA PowerLossKeeps == LifeInv /\ PowerLoss => LifeInv'
<1> SUFFICES ASSUME LifeInv, PowerLoss PROVE LifeInv'
  OBVIOUS
<1>1. LifeTypes /\ Len(chain) \in Nat /\ DOMAIN chain = 1 .. Len(chain) /\ synced \in 0 .. Len(chain)
  BY Indices DEF LifeInv, LifeTypes
<1>2. PICK k \in synced .. Len(chain) :
        /\ chain' = SubSeq(chain, 1, k) /\ synced' = k
        /\ meddled' = meddled \cup {i \in UnfinishedPurges : k < HeadSequence(i)}
  BY DEF PowerLoss
<1>3. UNCHANGED <<rows, captured, runs, purges, absent>> /\ previews' = {}
  BY DEF PowerLoss
<1>4. /\ chain' \in Seq(EventRecord) /\ Len(chain') = k /\ DOMAIN chain' = 1 .. k
      /\ \A j \in 1 .. k : chain'[j] = chain[j]
  BY <1>1, <1>2, SubSeqProperties DEF LifeTypes
<1>5. LifeTypes'
  BY <1>1, <1>2, <1>3, <1>4 DEF LifeTypes
<1>6. ChainAuthentic' /\ EventsKnown'
  BY <1>1, <1>2, <1>3, <1>4 DEF LifeInv, ChainAuthentic, EventsKnown
<1>7. WorkAuthenticated' /\ AbsencesPurged'
  BY <1>1, <1>2, <1>3, <1>4 DEF LifeInv, WorkAuthenticated, AbsencesPurged
<1>8. UnfinishedPurges' = UnfinishedPurges /\ OneOpen'
  BY <1>3 DEF LifeInv, UnfinishedPurges, OneOpen
<1>9. OpenIsCurrent'
  <2>0. SUFFICES ASSUME NEW i \in UnfinishedPurges, i \notin meddled, HeadSequence(i) <= k,
                      purges[i].state = "authorized"
               PROVE  /\ purges[i].fresh
                      /\ \/ ~Installed(i)' /\ BoundTo(i, Len(chain))'
                         \/ /\ chain' # <<>> /\ chain'[Len(chain')].purge = i
                            /\ BoundTo(i, Len(chain) - 1)'
    <3>1. \A i \in UnfinishedPurges : HeadSequence(i) <= k \/ k < HeadSequence(i)
      <4> TAKE i \in UnfinishedPurges
      <4>1. purges[i].head \in Heads /\ i \in DOMAIN purges
        BY <1>1, Indices DEF UnfinishedPurges, PurgeRecord
      <4>2. HeadSequence(i) \in Nat
        BY <4>1 DEF Heads, HeadSequence
      <4> QED
        BY <1>1, <4>2
    <3> QED
      BY <1>2, <1>3, <1>8, <3>1 DEF OpenIsCurrent
  <2>4. k \in Nat /\ k <= Len(chain) /\ Len(chain) \in Nat
    BY <1>1
  <2>1. i \in DOMAIN purges /\ i \in Nat \ {0} /\ purges[i].fresh
    BY <1>1, <2>0, Indices DEF LifeInv, OpenIsCurrent, UnfinishedPurges
  <2>2. CASE ~Installed(i) /\ BoundTo(i, Len(chain))
    <3>1. HeadSequence(i) = Len(chain)
      BY <1>1, <2>1, <2>2, BoundSequence
    <3>2. Len(chain) <= k
      BY <2>0, <3>1, Zenon
    <3>3. k = Len(chain)
      BY <2>4, <3>2
    <3>4. ~Installed(i)'
      BY <1>1, <1>4, <2>2, <3>3 DEF Installed
    <3>5. BoundTo(i, Len(chain))'
      <4>1. purges' = purges /\ Len(chain') = Len(chain)
        BY <1>3, <1>4, <3>3
      <4>2. Len(chain) # 0 => chain'[Len(chain)] = chain[Len(chain)]
        BY <1>4, <2>4, <3>3
      <4> QED
        BY <2>2, <4>1, <4>2 DEF BoundTo
    <3> QED
      BY <2>1, <3>4, <3>5
  <2>3. CASE chain # <<>> /\ chain[Len(chain)].purge = i /\ BoundTo(i, Len(chain) - 1)
    <3>1. Len(chain) # 0
      BY <1>1, <2>3, EmptySeq DEF LifeTypes
    <3>2. Len(chain) - 1 \in Nat
      BY <1>1, <3>1
    <3>3. HeadSequence(i) = Len(chain) - 1
      BY <2>1, <2>3, <3>2, BoundSequence
    <3>4. Len(chain) - 1 <= k
      BY <2>0, <3>3, Zenon
    <3>5. k = Len(chain) \/ k = Len(chain) - 1
      BY <2>4, <3>4
    <3>6. CASE k = Len(chain)
      <4>1. chain' # <<>> /\ chain'[Len(chain')].purge = i
        BY <1>1, <1>4, <2>3, <3>1, <3>6
      <4>2. BoundTo(i, Len(chain) - 1)'
        <5>1. purges' = purges /\ Len(chain') - 1 = Len(chain) - 1
          BY <1>3, <1>4, <3>6
        <5>2. Len(chain) - 1 # 0 => chain'[Len(chain) - 1] = chain[Len(chain) - 1]
          BY <1>4, <2>4, <3>2, <3>6
        <5> QED
          BY <2>3, <5>1, <5>2 DEF BoundTo
      <4> QED
        BY <2>1, <4>1, <4>2
    <3>7. CASE k = Len(chain) - 1
      <4>1. \A j \in 1 .. k : chain[j].purge # i
        BY <1>1, <2>1, <2>3, <3>1, <3>7 DEF LifeInv, ChainAuthentic, EventsKnown
      <4>2. ~Installed(i)'
        BY <1>4, <4>1 DEF Installed
      <4>3. BoundTo(i, Len(chain))'
        <5>1. purges' = purges /\ Len(chain') = Len(chain) - 1
          BY <1>3, <1>4, <3>7
        <5>2. Len(chain) - 1 # 0 => chain'[Len(chain) - 1] = chain[Len(chain) - 1]
          BY <1>4, <2>4, <3>2, <3>7
        <5> QED
          BY <2>3, <5>1, <5>2 DEF BoundTo
      <4> QED
        BY <2>1, <4>2, <4>3
    <3> QED
      BY <3>5, <3>6, <3>7
  <2> QED
    BY <2>0, <2>2, <2>3 DEF LifeInv, OpenIsCurrent
<1> QED
  BY <1>5, <1>6, <1>7, <1>8, <1>9 DEF LifeInv

\* Steps that touch neither the chain nor a journal.
LEMMA QuietKeeps ==
  ASSUME LifeInv, synced' \in synced .. Len(chain), \A v \in previews' : v.coll \in Colls,
         UNCHANGED <<rows, captured, runs, chain, purges, absent, meddled>>
  PROVE  LifeInv'
<1>1. LifeTypes /\ Len(chain) \in Nat /\ synced \in 0 .. Len(chain)
  BY Indices DEF LifeInv, LifeTypes
<1>2. LifeTypes'
  BY <1>1 DEF LifeTypes
<1>3. WorkAuthenticated'
  BY <1>1 DEF LifeInv, WorkAuthenticated
<1>4. UnfinishedPurges' = UnfinishedPurges
  BY DEF UnfinishedPurges
<1>5. OneOpen' /\ AbsencesPurged' /\ ChainAuthentic' /\ EventsKnown'
  BY <1>4 DEF LifeInv, OneOpen, AbsencesPurged, ChainAuthentic, EventsKnown
<1>6. OpenIsCurrent'
  BY <1>4 DEF LifeInv, OpenIsCurrent, Installed, BoundTo
<1> QED
  BY <1>2, <1>3, <1>5, <1>6 DEF LifeInv

\* One case for each step of the library and of a purge.
LEMMA LifeInvNext == LifeInv /\ [LifeNext]_lifeVars => LifeInv'
<1> SUFFICES ASSUME LifeInv, [LifeNext]_lifeVars PROVE LifeInv'
  OBVIOUS
<1>1. LifeTypes /\ Len(chain) \in Nat /\ DOMAIN chain = 1 .. Len(chain) /\ synced \in 0 .. Len(chain)
  BY Indices DEF LifeInv, LifeTypes
<1>2. ASSUME NEW c \in Colls, NEW d \in BOOLEAN, NEW ps \in SUBSET Pages, Select(c, ps, d)
      PROVE  LifeInv'
  <2>1. Gate(d) /\ Commits(d) /\ rows' = [rows EXCEPT ![c] = ps]
        /\ UNCHANGED <<captured, runs, chain, synced, absent>>
    BY <1>2 DEF Select
  <2>2. rows' \in [Colls -> SUBSET Pages] /\ captured \subseteq Pages /\ runs \in Seq(Colls)
    BY <1>1, <1>2, <2>1 DEF LifeTypes
  <2> QED
    BY <2>1, <2>2, CommitKeeps
<1>3. ASSUME NEW c \in Colls, NEW d \in BOOLEAN, NEW ps \in SUBSET Pages, EditMembers(c, ps, d)
      PROVE  LifeInv'
  <2>1. Gate(d) /\ Commits(d) /\ rows' = [rows EXCEPT ![c] = @ \cup ps]
        /\ UNCHANGED <<captured, runs, chain, synced, absent>>
    BY <1>3 DEF EditMembers
  <2>2. rows' \in [Colls -> SUBSET Pages] /\ captured \subseteq Pages /\ runs \in Seq(Colls)
    BY <1>1, <1>3, <2>1 DEF LifeTypes
  <2> QED
    BY <2>1, <2>2, CommitKeeps
<1>4. ASSUME NEW c \in Colls, NEW d \in BOOLEAN, NEW ps \in SUBSET Pages, RunSucceeds(c, ps, d)
      PROVE  LifeInv'
  <2>1. /\ Gate(d) /\ Commits(d) /\ captured' = captured \cup ps /\ runs' = Append(runs, c)
        /\ absent' \subseteq absent /\ UNCHANGED <<rows, chain, synced>>
    BY <1>4 DEF RunSucceeds
  <2>2. rows \in [Colls -> SUBSET Pages] /\ captured' \subseteq Pages /\ runs' \in Seq(Colls)
    BY <1>1, <1>4, <2>1, AppendProperties DEF LifeTypes
  <2> QED
    BY <2>1, <2>2, CommitKeeps
<1>5. ASSUME NEW c \in Colls, NEW d \in BOOLEAN, Tombstone(c, d)
      PROVE  LifeInv'
  <2>1. Gate(d) /\ Commits(d) /\ UNCHANGED <<rows, captured, runs, chain, synced, absent>>
    BY <1>5 DEF Tombstone
  <2> QED
    BY <1>1, <2>1, CommitKeeps DEF LifeTypes
<1>6. ASSUME NEW r \in DOMAIN runs, NEW d \in BOOLEAN, AppendSync(r, d)
      PROVE  LifeInv'
  BY <1>6, AppendSyncKeeps
<1>7. ASSUME NEW c \in Colls, PreviewPurge(c)
      PROVE  LifeInv'
  <2>1. PreviewOf(c).coll = c
    BY DEF PreviewOf
  <2>2. \A v \in previews' : v.coll \in Colls
    BY <1>1, <1>7, <2>1 DEF PreviewPurge, LifeTypes
  <2>3. synced' \in synced .. Len(chain)
        /\ UNCHANGED <<rows, captured, runs, chain, purges, absent, meddled>>
    BY <1>1, <1>7 DEF PreviewPurge
  <2> QED
    BY <2>2, <2>3, QuietKeeps
<1>8. ASSUME NEW v \in previews, Authorize(v)
      PROVE  LifeInv'
  BY <1>8, AuthorizeKeeps
<1>9. CASE SyncManifests
  <2>1. synced' \in synced .. Len(chain) /\ previews' = previews
        /\ UNCHANGED <<rows, captured, runs, chain, purges, absent, meddled>>
    BY <1>1, <1>9 DEF SyncManifests
  <2> QED
    BY <1>1, <2>1, QuietKeeps DEF LifeTypes
<1>10. ASSUME NEW i \in DOMAIN purges, Publish(i)
       PROVE  LifeInv'
  BY <1>10, PublishKeeps
<1>11. ASSUME NEW i \in DOMAIN purges, PrepareWork(i)
       PROVE  LifeInv'
  <2>1. /\ i \in UnfinishedPurges /\ SetState(i, "repacking") /\ "repacking" \in PurgeStates \ {"authorized"}
        /\ absent' = absent /\ chain' = chain /\ previews' = {} /\ UNCHANGED <<rows, captured, runs>>
    BY <1>11 DEF PrepareWork, UnfinishedPurges, PurgeStates
  <2>2. synced' \in synced .. Len(chain) /\ \E k \in 1 .. synced' : chain[k].purge = i
    BY <1>1, <1>11 DEF PrepareWork, Valid, Installed
  <2> QED
    BY <2>1, <2>2, WorkKeeps
<1>12. ASSUME NEW i \in DOMAIN purges, CommitAbsence(i)
       PROVE  LifeInv'
  <2>1. /\ i \in UnfinishedPurges /\ SetState(i, "cleaning") /\ "cleaning" \in PurgeStates \ {"authorized"}
        /\ absent' \subseteq absent \cup {<<i, o>> : o \in purges[i].objs}
        /\ chain' = chain /\ previews' = {} /\ UNCHANGED <<rows, captured, runs>>
    BY <1>12 DEF CommitAbsence, UnfinishedPurges, PurgeStates
  <2>2. synced' \in synced .. Len(chain) /\ \E k \in 1 .. synced' : chain[k].purge = i
    BY <1>1, <1>12 DEF CommitAbsence, LifeInv, WorkAuthenticated
  <2> QED
    BY <2>1, <2>2, WorkKeeps
<1>13. ASSUME NEW i \in DOMAIN purges, Finish(i)
       PROVE  LifeInv'
  <2>1. /\ i \in UnfinishedPurges /\ SetState(i, "succeeded") /\ "succeeded" \in PurgeStates \ {"authorized"}
        /\ absent' = absent /\ chain' = chain /\ previews' = {} /\ UNCHANGED <<rows, captured, runs>>
    BY <1>13 DEF Finish, UnfinishedPurges, PurgeStates
  <2>2. synced' \in synced .. Len(chain) /\ \E k \in 1 .. synced' : chain[k].purge = i
    BY <1>1, <1>13 DEF Finish, LifeInv, WorkAuthenticated
  <2>3. absent' \subseteq absent \cup {<<i, o>> : o \in purges[i].objs}
    BY <2>1
  <2> QED
    BY <2>1, <2>2, <2>3, WorkKeeps
<1>14. CASE PowerLoss
  BY <1>14, PowerLossKeeps
<1>15. CASE UNCHANGED lifeVars
  <2>1. synced' \in synced .. Len(chain) /\ previews' = previews
        /\ UNCHANGED <<rows, captured, runs, chain, purges, absent, meddled>>
    BY <1>1, <1>15 DEF lifeVars
  <2> QED
    BY <1>1, <2>1, QuietKeeps DEF LifeTypes
<1> QED
  BY <1>2, <1>3, <1>4, <1>5, <1>6, <1>7, <1>8, <1>9, <1>10, <1>11, <1>12, <1>13, <1>14, <1>15
     DEF LifeNext, ResumePurge

-----------------------------------------------------------------------------
LEMMA LifeInvHolds == LifeSpec => []LifeInv
  BY LifeInvInit, LifeInvNext, PTL DEF LifeSpec

\* PurgesAuthenticated: the chain names each purge once, after the head the
\* purge was authorized for, and no object is given up that an event safe from
\* a loss of power does not account for, whatever is killed or lost between
\* the publication of the event (ensure_purge_event) and the removal.
THEOREM PurgesAreAuthenticated == LifeSpec => []PurgesAuthenticated
<1>1. LifeInv => PurgesAuthenticated
  <2> SUFFICES ASSUME LifeInv PROVE PurgesAuthenticated
    OBVIOUS
  <2>1. \A a \in absent : \E k \in 1 .. synced : chain[k].purge = a[1] /\ a[2] \in chain[k].objs
    <3> TAKE a \in absent
    <3>1. a[1] \in DOMAIN purges /\ purges[a[1]].state # "authorized" /\ a[2] \in purges[a[1]].objs
      BY DEF LifeInv, AbsencesPurged
    <3>2. PICK k \in 1 .. synced : chain[k].purge = a[1]
      BY <3>1 DEF LifeInv, WorkAuthenticated
    <3>3. k \in DOMAIN chain /\ a[1] # 0
      BY <3>1, Indices DEF LifeInv, LifeTypes
    <3> QED
      BY <3>1, <3>2, <3>3 DEF LifeInv, EventsKnown
  <2> QED
    BY <2>1 DEF LifeInv, PurgesAuthenticated, AbsenceIsAuthenticated
<1> QED
  BY <1>1, LifeInvHolds, PTL

\* AuthorizationStaysCurrent: the writers of the daemon drain the unfinished
\* purges before they commit (Gate), so that a purge which is authorized and
\* not published yet can be published, unless a direct writer or a loss of the
\* head it names came across.
THEOREM AuthorizationsStayCurrent == LifeSpec => []AuthorizationStaysCurrent
<1>1. LifeInv => AuthorizationStaysCurrent
  <2> SUFFICES ASSUME LifeInv, NEW i \in UnfinishedPurges \ meddled,
                      purges[i].state = "authorized", ~Installed(i)
               PROVE  purges[i].fresh /\ purges[i].head = ChainHead
    BY DEF AuthorizationStaysCurrent
  <2>1. LifeTypes /\ Len(chain) \in Nat /\ DOMAIN chain = 1 .. Len(chain)
    BY Indices DEF LifeInv
  <2>2. chain = <<>> <=> Len(chain) = 0
    BY <2>1, EmptySeq DEF LifeTypes
  <2>3. ~(chain # <<>> /\ chain[Len(chain)].purge = i)
    BY <2>1, <2>2 DEF Installed
  <2>4. purges[i].fresh /\ BoundTo(i, Len(chain))
    BY <2>3 DEF LifeInv, OpenIsCurrent
  <2> QED
    BY <2>2, <2>4 DEF BoundTo, ChainHead
<1> QED
  BY <1>1, LifeInvHolds, PTL

\* OnlyExclusivePayloadGoes: the object of a page that a collection selects
\* can only go in a step of that collection's own purge.  No other step takes
\* an object away, and this one is guarded by the references gained since the
\* authorization (the shared check of commit_purge_absences).
THEOREM OnlyExclusivePayloadIsRemoved == LifeSpec => OnlyExclusivePayloadGoes
<1>1. ASSUME LifeInv, LifeNext, NEW p \in captured, NEW c \in Colls,
             Content[p] \in present \ present', p \in rows[c]
      PROVE  \E i \in DOMAIN purges : purges'[i].state # purges[i].state /\ purges[i].coll = c
  <2>1. PICK i \in DOMAIN purges : CommitAbsence(i)
    BY <1>1 DEF LifeNext, ResumePurge, Select, EditMembers, RunSucceeds, Tombstone, AppendSync,
       PreviewPurge, Authorize, SyncManifests, Publish, PrepareWork, Finish, PowerLoss
  <2>2. Content[p] \in purges[i].objs /\ purges[i].state = "repacking" /\ Shared(i) = {}
    BY <1>1, <2>1 DEF CommitAbsence, Valid
  <2>3. Superseded(i) = {}
    BY <2>2 DEF Superseded
  <2>4. Content[p] \notin Kept(purges[i].coll)
    BY <2>2, <2>3 DEF Shared
  <2>5. p \in Exclusive(purges[i].coll)
    BY <1>1, <2>4 DEF Kept
  <2>6. purges[i].coll = c
    BY <1>1, <2>5 DEF Exclusive
  <2>7. SetState(i, "cleaning") /\ "cleaning" \in PurgeStates
    BY <2>1 DEF CommitAbsence, PurgeStates
  <2>8. purges'[i].state = "cleaning"
    BY <1>1, <2>7, StateChanged DEF LifeInv
  <2> QED
    BY <2>2, <2>6, <2>8
<1>2. LifeInv /\ [LifeNext]_lifeVars =>
        [\A p \in captured, c \in Colls :
           Content[p] \in present \ present' /\ p \in rows[c] =>
             \E i \in DOMAIN purges : purges'[i].state # purges[i].state /\ purges[i].coll = c]_lifeVars
  BY <1>1
<1> QED
  BY <1>2, LifeInvHolds, PTL DEF LifeSpec, OnlyExclusivePayloadGoes
=============================================================================
