----------------------------- MODULE AuditProofs -----------------------------
(***************************************************************************)
(* A verification tells what a purge removed from a loss, in every state   *)
(* of the library: for any collections, pages, runs, purges and losses of  *)
(* power; and the anchors it starts from are kept.                         *)
(*                                                                         *)
(* The audit accepts a purge whose objects are each absent and gone, or    *)
(* back.  An object can go again that came back only through a later purge, *)
(* and none may take it: PayloadInv says why.  The pages of a purge stay   *)
(* selected by its collection (PurgedPages), what is absent cannot be read *)
(* and what cannot be read is absent (AbsentGone, LossesAuthorized), a     *)
(* purge under way blocks its objects (CleaningAbsent), and an object that *)
(* came back did so for another collection, which keeps it from every      *)
(* later purge (ComeBack).                                                 *)
(*                                                                         *)
(* AnchorsRetained is about the keys and anchors outside the library, as   *)
(* programs see them.  TrustInv says it of everything a loss of power may  *)
(* leave of their directories (AllKept), and that the writes still to do   *)
(* are those of one operation, whose files are as they expect (Planned).   *)
(*                                                                         *)
(* TransportLimitsHold is about what the clones of one client share.       *)
(* ClientInv adds what each of them has of it: an operation that reads no  *)
(* body reserves nothing, and none receives more than it reserved          *)
(* (WithinReserve); and that bytes which passed were credited before       *)
(* (Credited).                                                             *)
(***************************************************************************)
EXTENDS Audit, PurgeLifecycleProofs, TrustFiles, SourceClient,
        SequenceTheorems, FiniteSetTheorems, WellFoundedInduction

RunsKnown == \A k \in DOMAIN chain : chain[k].purge = 0 => chain[k].run \in DOMAIN runs
SelectionKept ==
  /\ status \in [Colls -> {"new", "active", "tombstoned"}]
  /\ \A c \in Colls : status[c] = "new" => rows[c] = {}
  /\ \A v \in previews : status[v.coll] = "tombstoned"
  /\ \A i \in DOMAIN purges : status[purges[i].coll] = "tombstoned"

PurgedPages ==
  \A i \in DOMAIN purges : \A o \in purges[i].objs :
    \E p \in captured \cap rows[purges[i].coll] : Content[p] = o
AbsentGone == \A a \in absent : a[2] \notin present
LossesAuthorized ==
  \A p \in captured : Content[p] \in present \/ \E i \in DOMAIN purges : <<i, Content[p]>> \in absent
CleaningAbsent ==
  \A i \in DOMAIN purges : purges[i].state = "cleaning" =>
    \A o \in purges[i].objs : <<i, o>> \in absent
\* Another collection than c selects a captured page with the object.
Elsewhere(o, c) == \E d \in Colls \ {c} : \E p \in captured \cap rows[d] : Content[p] = o
ComeBack ==
  \A i \in DOMAIN purges : purges[i].state = "succeeded" =>
    \A o \in purges[i].objs : <<i, o>> \in absent \/ (o \in present /\ Elsewhere(o, purges[i].coll))
PayloadInv == PurgedPages /\ AbsentGone /\ LossesAuthorized /\ CleaningAbsent /\ ComeBack

AuditInv == RunsKnown /\ SelectionKept /\ PayloadInv

-----------------------------------------------------------------------------
LEMMA AuditInvInit == LifeInit => AuditInv
  BY DEF LifeInit, AuditInv, RunsKnown, SelectionKept, PayloadInv, PurgedPages, AbsentGone,
     LossesAuthorized, CleaningAbsent, ComeBack

\* An event of a run names one that succeeded.
LEMMA RunsStayKnown == LifeInv /\ RunsKnown /\ [LifeNext]_lifeVars => RunsKnown'
<1> SUFFICES ASSUME LifeInv, RunsKnown, [LifeNext]_lifeVars PROVE RunsKnown'
  OBVIOUS
<1>1. LifeTypes /\ Len(chain) \in Nat /\ DOMAIN chain = 1 .. Len(chain)
  BY Indices DEF LifeInv
<1>2. CASE chain' = chain /\ runs' = runs
  BY <1>2 DEF RunsKnown
<1>3. ASSUME NEW c \in Colls, NEW d \in BOOLEAN, NEW ps \in SUBSET Pages, RunSucceeds(c, ps, d)
      PROVE  RunsKnown'
  <2>1. chain' = chain /\ runs' = Append(runs, c)
    BY <1>3 DEF RunSucceeds
  <2>2. DOMAIN runs \subseteq DOMAIN runs'
    BY <1>1, <2>1, AppendProperties, LenProperties DEF LifeTypes
  <2> QED
    BY <2>1, <2>2 DEF RunsKnown
<1>4. ASSUME NEW r \in DOMAIN runs, NEW d \in BOOLEAN, AppendSync(r, d)
      PROVE  RunsKnown'
  <2>1. PICK e : Append1(e) /\ e.run = r
    BY <1>4 DEF AppendSync
  <2>2. chain' = Append(chain, e) /\ runs' = runs
    BY <1>4, <2>1 DEF AppendSync, Append1
  <2>3. DOMAIN chain' = 1 .. Len(chain) + 1 /\ chain'[Len(chain) + 1] = e
        /\ \A k \in DOMAIN chain : chain'[k] = chain[k]
    BY <1>1, <2>2 DEF LifeTypes
  <2> QED
    BY <1>1, <2>1, <2>2, <2>3 DEF RunsKnown
<1>5. ASSUME NEW i \in DOMAIN purges, Publish(i)
      PROVE  RunsKnown'
  <2>1. PICK e : Append1(e) /\ e.purge = i
    BY <1>5 DEF Publish
  <2>2. chain' = Append(chain, e) /\ runs' = runs
    BY <1>5, <2>1 DEF Publish, Append1
  <2>3. DOMAIN chain' = 1 .. Len(chain) + 1 /\ chain'[Len(chain) + 1] = e
        /\ \A k \in DOMAIN chain : chain'[k] = chain[k]
    BY <1>1, <2>2 DEF LifeTypes
  <2>4. i # 0
    BY <1>1, Indices
  <2> QED
    BY <1>1, <2>1, <2>2, <2>3, <2>4 DEF RunsKnown
<1>6. CASE PowerLoss
  <2>1. PICK k \in synced .. Len(chain) : chain' = SubSeq(chain, 1, k) /\ runs' = runs
    BY <1>6 DEF PowerLoss
  <2>2. k \in Nat /\ k <= Len(chain)
    BY <1>1 DEF LifeTypes
  <2>3. DOMAIN chain' = 1 .. k /\ \A j \in 1 .. k : chain'[j] = chain[j]
    BY <1>1, <2>1, <2>2, SubSeqProperties DEF LifeTypes
  <2> QED
    BY <1>1, <2>1, <2>2, <2>3 DEF RunsKnown
<1> QED
  BY <1>2, <1>3, <1>4, <1>5, <1>6 DEF LifeNext, ResumePurge, lifeVars, Select, EditMembers, Tombstone,
     PreviewPurge, Authorize, SyncManifests, PrepareWork, CommitAbsence, Finish

-----------------------------------------------------------------------------
(* Collections and journals.                                               *)

\* The journals stay, but for the states of those that are cleaned.
SameJournals ==
  /\ DOMAIN purges' = DOMAIN purges
  /\ \A i \in DOMAIN purges :
       /\ purges'[i].coll = purges[i].coll /\ purges'[i].objs = purges[i].objs
       /\ purges'[i].state = "cleaning" => purges[i].state = "cleaning"
       /\ purges'[i].state = "succeeded" => purges[i].state \in {"cleaning", "succeeded"}
\* No collection is emptied, and none comes back from its tombstone.
SelectionGrows ==
  /\ \A c \in Colls : rows[c] \subseteq rows'[c]
  /\ captured \subseteq captured'

LEMMA CommitsKeepJournals ==
  ASSUME LifeInv, NEW d \in BOOLEAN, Commits(d)
  PROVE  SameJournals
  BY Aged DEF LifeInv, SameJournals

LEMMA WorkKeepsJournals ==
  ASSUME LifeInv, NEW i \in DOMAIN purges, PrepareWork(i) \/ Finish(i)
  PROVE  SameJournals
<1>1. CASE PrepareWork(i)
  <2>1. SetState(i, "repacking") /\ "repacking" \in PurgeStates
    BY <1>1 DEF PrepareWork, PurgeStates
  <2> QED
    BY <2>1, StateChanged DEF LifeInv, SameJournals
<1>2. CASE Finish(i)
  <2>1. SetState(i, "succeeded") /\ "succeeded" \in PurgeStates /\ purges[i].state = "cleaning"
    BY <1>2 DEF Finish, PurgeStates
  <2> QED
    BY <2>1, StateChanged DEF LifeInv, SameJournals
<1> QED
  BY <1>1, <1>2

\* What authorizing a preview adds.
LEMMA Authorized ==
  ASSUME LifeInv, SelectionKept, NEW v \in previews, Authorize(v)
  PROVE  /\ v.coll \in Colls /\ v.objs = Inventory(v.coll) /\ status[v.coll] = "tombstoned"
         /\ DOMAIN purges' = DOMAIN purges \cup {Len(purges) + 1}
         /\ Len(purges) + 1 \notin DOMAIN purges
         /\ purges'[Len(purges) + 1].coll = v.coll /\ purges'[Len(purges) + 1].objs = v.objs
         /\ purges'[Len(purges) + 1].state = "authorized"
         /\ \A i \in DOMAIN purges : purges'[i] = purges[i]
<1>1. v.coll \in Colls /\ v.objs = Inventory(v.coll) /\ status[v.coll] = "tombstoned"
  BY DEF LifeInv, LifeTypes, SelectionKept, Authorize, PreviewOf
<1>2. Len(purges) \in Nat /\ DOMAIN purges = 1 .. Len(purges) /\ purges \in Seq(PurgeRecord)
  BY Indices DEF LifeInv, LifeTypes
<1> DEFINE p == [coll |-> v.coll, state |-> "authorized", fresh |-> TRUE, head |-> v.head, objs |-> v.objs]
<1>3. purges' = Append(purges, p) /\ p.coll = v.coll /\ p.objs = v.objs /\ p.state = "authorized"
  BY DEF Authorize
<1> HIDE DEF p
<1>4. /\ DOMAIN purges' = 1 .. Len(purges) + 1 /\ purges'[Len(purges) + 1] = p
      /\ \A i \in 1 .. Len(purges) : purges'[i] = purges[i]
  BY <1>2, <1>3
<1> QED
  BY <1>1, <1>2, <1>3, <1>4

\* The collection of a preview or a journal is tombstoned for good.
LEMMA SelectionStays == LifeInv /\ SelectionKept /\ [LifeNext]_lifeVars => SelectionKept' /\ SelectionGrows
<1> SUFFICES ASSUME LifeInv, SelectionKept, [LifeNext]_lifeVars PROVE SelectionKept' /\ SelectionGrows
  OBVIOUS
<1>1. rows \in [Colls -> SUBSET Pages] /\ \A i \in DOMAIN purges : purges[i].coll \in Colls
  BY Indices DEF LifeInv, LifeTypes, PurgeRecord
<1>2. ASSUME NEW c \in Colls, NEW d \in BOOLEAN, NEW ps \in SUBSET Pages,
             Select(c, ps, d) \/ EditMembers(c, ps, d) \/ RunSucceeds(c, ps, d) \/ Tombstone(c, d)
      PROVE  SelectionKept' /\ SelectionGrows
  <2>1. Commits(d) /\ previews' = {}
    BY <1>2 DEF Select, EditMembers, RunSucceeds, Tombstone, Commits
  <2>2. SameJournals
    BY <2>1, CommitsKeepJournals
  <2>3. SelectionGrows
    BY <1>1, <1>2 DEF SelectionKept, SelectionGrows, Select, EditMembers, RunSucceeds, Tombstone
  <2>4. /\ status' \in [Colls -> {"new", "active", "tombstoned"}]
        /\ \A b \in Colls : status[b] = "tombstoned" => status'[b] = "tombstoned"
        /\ \A b \in Colls : status'[b] = "new" => rows'[b] = {}
    BY <1>1, <1>2 DEF SelectionKept, Select, EditMembers, RunSucceeds, Tombstone
  <2> QED
    BY <1>1, <2>1, <2>2, <2>3, <2>4 DEF SelectionKept, SameJournals
<1>3. ASSUME NEW v \in previews, Authorize(v)
      PROVE  SelectionKept' /\ SelectionGrows
  <2>1. previews' = {} /\ UNCHANGED <<status, rows, captured>>
    BY <1>3 DEF Authorize
  <2>2. \A i \in DOMAIN purges' : status[purges'[i].coll] = "tombstoned"
    BY <1>3, Authorized DEF SelectionKept
  <2> QED
    BY <2>1, <2>2 DEF SelectionKept, SelectionGrows
<1>4. ASSUME NEW i \in DOMAIN purges, PrepareWork(i) \/ CommitAbsence(i) \/ Finish(i)
      PROVE  SelectionKept' /\ SelectionGrows
  <2>1. previews' = {} /\ UNCHANGED <<status, rows, captured>>
    BY <1>4 DEF PrepareWork, CommitAbsence, Finish
  <2>2. PICK t \in PurgeStates : SetState(i, t)
    BY <1>4 DEF PrepareWork, CommitAbsence, Finish, PurgeStates
  <2>3. DOMAIN purges' = DOMAIN purges /\ \A j \in DOMAIN purges : purges'[j].coll = purges[j].coll
    BY <2>2, StateChanged DEF LifeInv
  <2> QED
    BY <2>1, <2>3 DEF SelectionKept, SelectionGrows
<1>5. ASSUME UNCHANGED <<status, rows, captured, purges>>, \A v \in previews' : status[v.coll] = "tombstoned"
      PROVE  SelectionKept' /\ SelectionGrows
  BY <1>5 DEF SelectionKept, SelectionGrows
<1>6. ASSUME NEW c \in Colls, PreviewPurge(c)
      PROVE  SelectionKept' /\ SelectionGrows
  <2>1. PreviewOf(c).coll = c
    BY DEF PreviewOf
  <2>2. UNCHANGED <<status, rows, captured, purges>> /\ \A v \in previews' : status[v.coll] = "tombstoned"
    BY <1>6, <2>1 DEF PreviewPurge, SelectionKept
  <2> QED
    BY <1>5, <2>2
<1>7. CASE (\E r \in DOMAIN runs, d \in BOOLEAN : AppendSync(r, d))
             \/ SyncManifests \/ (\E i \in DOMAIN purges : Publish(i)) \/ PowerLoss \/ UNCHANGED lifeVars
  <2>1. UNCHANGED <<status, rows, captured, purges>> /\ (previews' = {} \/ previews' = previews)
    BY <1>7 DEF AppendSync, SyncManifests, Publish, PowerLoss, lifeVars
  <2> QED
    BY <1>5, <2>1 DEF SelectionKept
<1> QED
  BY <1>2, <1>3, <1>4, <1>6, <1>7 DEF LifeNext, ResumePurge

-----------------------------------------------------------------------------
(* Payload.                                                                *)

\* What another collection selects and has captured, no purge of c may take.
LEMMA ElsewhereIsKept ==
  ASSUME NEW o, NEW c \in Colls, Elsewhere(o, c)
  PROVE  o \in Kept(c)
<1>1. PICK d \in Colls \ {c} : \E p \in captured \cap rows[d] : Content[p] = o
  BY DEF Elsewhere
<1>2. PICK p \in captured \cap rows[d] : Content[p] = o
  BY <1>1
<1>3. p \notin Exclusive(c)
  BY <1>2 DEF Exclusive
<1> QED
  BY <1>2, <1>3 DEF Kept

\* Nothing is captured, taken or given up.
LEMMA PayloadStays ==
  ASSUME LifeInv, PayloadInv, SameJournals, SelectionGrows, UNCHANGED <<captured, present, absent>>
  PROVE  PayloadInv'
<1>1. \A i \in DOMAIN purges : purges[i].coll \in Colls
  BY Indices DEF LifeInv, PurgeRecord
<1>2. \A i \in DOMAIN purges : \A o : Elsewhere(o, purges[i].coll) => Elsewhere(o, purges[i].coll)'
  BY DEF Elsewhere, SelectionGrows, SameJournals
<1>3. PurgedPages'
  BY <1>1 DEF PayloadInv, PurgedPages, SameJournals, SelectionGrows
<1>4. AbsentGone' /\ LossesAuthorized' /\ CleaningAbsent'
  BY DEF PayloadInv, AbsentGone, LossesAuthorized, CleaningAbsent, SameJournals
<1>5. ComeBack'
  BY <1>2 DEF PayloadInv, CleaningAbsent, ComeBack, SameJournals
<1> QED
  BY <1>3, <1>4, <1>5 DEF PayloadInv

\* What a run captures comes back from purges that have ended, for another
\* collection than theirs.
LEMMA CaptureKeepsPayload ==
  ASSUME LifeInv, SelectionKept, PayloadInv,
         NEW c \in Colls, NEW d \in BOOLEAN, NEW ps \in SUBSET Pages, RunSucceeds(c, ps, d)
  PROVE  PayloadInv'
<1>1. /\ status[c] = "active" /\ ps \subseteq rows[c] /\ rows' = rows
      /\ captured' = captured \cup ps /\ present' = present \cup {Content[p] : p \in ps}
      /\ absent' = {a \in absent : a[2] \notin present'}
      /\ \A p \in ps : ~Blocked(Content[p])
  BY DEF RunSucceeds
<1>2. SameJournals
  BY CommitsKeepJournals DEF RunSucceeds
<1>3. \A i \in DOMAIN purges : \A o \in purges[i].objs :
        <<i, o>> \in absent /\ <<i, o>> \notin absent' =>
           /\ o \in present' /\ purges[i].state = "succeeded"
           /\ \E p \in captured' \cap rows'[c] : Content[p] = o
  <2> SUFFICES ASSUME NEW i \in DOMAIN purges, NEW o \in purges[i].objs,
                      <<i, o>> \in absent, <<i, o>> \notin absent'
               PROVE  /\ o \in present' /\ purges[i].state = "succeeded"
                      /\ \E p \in captured' \cap rows'[c] : Content[p] = o
    OBVIOUS
  <2>1. o \in present' /\ o \notin present
    BY <1>1 DEF PayloadInv, AbsentGone
  <2>2. PICK p \in ps : Content[p] = o
    BY <1>1, <2>1
  <2>3. i \notin UnfinishedPurges
    BY <1>1, <2>2 DEF Blocked
  <2> QED
    BY <1>1, <2>1, <2>2, <2>3 DEF UnfinishedPurges
<1>4. PurgedPages'
  BY <1>1, <1>2 DEF PayloadInv, PurgedPages, SameJournals
<1>5. AbsentGone'
  BY <1>1 DEF AbsentGone
<1>6. LossesAuthorized'
  <2> SUFFICES ASSUME NEW p \in captured', Content[p] \notin present'
               PROVE  \E i \in DOMAIN purges' : <<i, Content[p]>> \in absent'
    BY DEF LossesAuthorized
  <2>1. p \in captured /\ Content[p] \notin present
    BY <1>1
  <2>2. PICK i \in DOMAIN purges : <<i, Content[p]>> \in absent
    BY <2>1 DEF PayloadInv, LossesAuthorized
  <2> QED
    BY <1>1, <1>2, <2>2 DEF SameJournals
<1>7. CleaningAbsent'
  BY <1>2, <1>3 DEF PayloadInv, CleaningAbsent, SameJournals
<1>8. ComeBack'
  <2> SUFFICES ASSUME NEW i \in DOMAIN purges, purges'[i].state = "succeeded",
                      NEW o \in purges[i].objs, <<i, o>> \notin absent'
               PROVE  o \in present' /\ Elsewhere(o, purges[i].coll)'
    BY <1>2 DEF ComeBack, SameJournals
  <2>1. purges'[i].coll = purges[i].coll /\ purges[i].coll # c
    BY <1>1, <1>2 DEF SelectionKept, SameJournals
  <2>2. CASE <<i, o>> \in absent
    BY <1>3, <2>1, <2>2 DEF Elsewhere
  <2>3. CASE <<i, o>> \notin absent
    <3>1. purges[i].state = "succeeded"
      BY <1>2, <2>3 DEF PayloadInv, CleaningAbsent, SameJournals
    <3>2. o \in present /\ Elsewhere(o, purges[i].coll)
      BY <2>3, <3>1 DEF PayloadInv, ComeBack
    <3> QED
      BY <1>1, <2>1, <3>2 DEF Elsewhere
  <2> QED
    BY <2>2, <2>3
<1> QED
  BY <1>4, <1>5, <1>6, <1>7, <1>8 DEF PayloadInv

\* A purge gives up the objects of captured pages of its collection.
LEMMA AuthorizeKeepsPayload ==
  ASSUME LifeInv, SelectionKept, PayloadInv, NEW v \in previews, Authorize(v)
  PROVE  PayloadInv'
<1>1. UNCHANGED <<rows, captured, present, absent>>
  BY DEF Authorize
<1> DEFINE n == Len(purges) + 1
<1>2. /\ v.coll \in Colls /\ v.objs = Inventory(v.coll) /\ DOMAIN purges' = DOMAIN purges \cup {n}
      /\ purges'[n].coll = v.coll /\ purges'[n].objs = v.objs /\ purges'[n].state = "authorized"
      /\ \A i \in DOMAIN purges : purges'[i] = purges[i]
  BY Authorized
<1> HIDE DEF n
<1>3. \A o \in v.objs : \E p \in captured \cap rows[v.coll] : Content[p] = o
  BY <1>2 DEF Inventory, Exclusive
<1>4. PurgedPages'
  BY <1>1, <1>2, <1>3 DEF PayloadInv, PurgedPages
<1>5. AbsentGone' /\ LossesAuthorized' /\ CleaningAbsent'
  BY <1>1, <1>2 DEF PayloadInv, AbsentGone, LossesAuthorized, CleaningAbsent
<1>6. ComeBack'
  BY <1>1, <1>2 DEF PayloadInv, ComeBack, Elsewhere
<1> QED
  BY <1>4, <1>5, <1>6 DEF PayloadInv

\* What a purge gives up, no earlier purge had got back.
LEMMA AbsenceKeepsPayload ==
  ASSUME LifeInv, PayloadInv, NEW j \in DOMAIN purges, CommitAbsence(j)
  PROVE  PayloadInv'
<1>1. /\ purges[j].state = "repacking" /\ Shared(j) = {}
      /\ absent' = absent \cup {<<j, o>> : o \in purges[j].objs}
      /\ present' = present \ purges[j].objs /\ UNCHANGED <<rows, captured>>
  BY DEF CommitAbsence, Valid
<1>2. /\ DOMAIN purges' = DOMAIN purges /\ purges'[j].state = "cleaning"
      /\ \A i \in DOMAIN purges : /\ purges'[i].coll = purges[i].coll /\ purges'[i].objs = purges[i].objs
                                  /\ i # j => purges'[i].state = purges[i].state
  <2>1. SetState(j, "cleaning") /\ "cleaning" \in PurgeStates
    BY DEF CommitAbsence, PurgeStates
  <2> QED
    BY <2>1, StateChanged DEF LifeInv
<1>3. purges[j].coll \in Colls /\ purges[j].objs \cap Kept(purges[j].coll) = {}
  <2>1. Superseded(j) = {}
    BY <1>1 DEF Superseded
  <2> QED
    BY <1>1, <2>1, Indices DEF Shared, LifeInv, PurgeRecord
<1>4. PurgedPages'
  BY <1>1, <1>2 DEF PayloadInv, PurgedPages
<1>5. AbsentGone' /\ LossesAuthorized' /\ CleaningAbsent'
  <2>1. AbsentGone'
    BY <1>1 DEF PayloadInv, AbsentGone
  <2>2. LossesAuthorized'
    BY <1>1, <1>2 DEF PayloadInv, LossesAuthorized
  <2>3. CleaningAbsent'
    BY <1>1, <1>2 DEF PayloadInv, CleaningAbsent
  <2> QED
    BY <2>1, <2>2, <2>3
<1>6. ComeBack'
  <2> SUFFICES ASSUME NEW i \in DOMAIN purges, purges'[i].state = "succeeded",
                      NEW o \in purges[i].objs, <<i, o>> \notin absent'
               PROVE  o \in present' /\ Elsewhere(o, purges[i].coll)'
    BY <1>2 DEF ComeBack
  <2>1. i # j /\ purges[i].state = "succeeded" /\ <<i, o>> \notin absent
    BY <1>1, <1>2
  <2>2. o \in present /\ Elsewhere(o, purges[i].coll)
    BY <2>1 DEF PayloadInv, ComeBack
  <2>3. PICK p \in captured \cap rows[purges[i].coll] : Content[p] = o
    BY DEF PayloadInv, PurgedPages
  <2>4. Elsewhere(o, purges[j].coll)
    <3>1. CASE purges[i].coll = purges[j].coll
      BY <2>2, <3>1
    <3>2. CASE purges[i].coll # purges[j].coll
      <4>1. purges[i].coll \in Colls
        BY Indices DEF LifeInv, PurgeRecord
      <4> QED
        BY <2>3, <3>2, <4>1 DEF Elsewhere
    <3> QED
      BY <3>1, <3>2
  <2>5. o \notin purges[j].objs
    BY <1>3, <2>4, ElsewhereIsKept
  <2> QED
    BY <1>1, <1>2, <2>2, <2>5 DEF Elsewhere
<1> QED
  BY <1>4, <1>5, <1>6 DEF PayloadInv

LEMMA AuditInvNext == LifeInv /\ AuditInv /\ [LifeNext]_lifeVars => AuditInv'
<1> SUFFICES ASSUME LifeInv, AuditInv, [LifeNext]_lifeVars PROVE PayloadInv'
  BY RunsStayKnown, SelectionStays DEF AuditInv
<1>1. SelectionKept /\ PayloadInv /\ SelectionGrows
  BY SelectionStays DEF AuditInv
<1>2. ASSUME NEW c \in Colls, NEW d \in BOOLEAN, NEW ps \in SUBSET Pages, RunSucceeds(c, ps, d)
      PROVE  PayloadInv'
  BY <1>1, <1>2, CaptureKeepsPayload
<1>3. ASSUME NEW c \in Colls, NEW d \in BOOLEAN, NEW ps \in SUBSET Pages,
             Select(c, ps, d) \/ EditMembers(c, ps, d) \/ Tombstone(c, d)
      PROVE  PayloadInv'
  <2>1. Commits(d) /\ UNCHANGED <<captured, present, absent>>
    BY <1>3 DEF Select, EditMembers, Tombstone
  <2> QED
    BY <1>1, <2>1, CommitsKeepJournals, PayloadStays
<1>4. ASSUME NEW v \in previews, Authorize(v) PROVE PayloadInv'
  BY <1>1, <1>4, AuthorizeKeepsPayload
<1>5. ASSUME NEW j \in DOMAIN purges, CommitAbsence(j) PROVE PayloadInv'
  BY <1>1, <1>5, AbsenceKeepsPayload
<1>6. ASSUME NEW j \in DOMAIN purges, PrepareWork(j) \/ Finish(j) PROVE PayloadInv'
  <2>1. UNCHANGED <<captured, present, absent>>
    BY <1>6 DEF PrepareWork, Finish
  <2> QED
    BY <1>1, <1>6, <2>1, WorkKeepsJournals, PayloadStays
<1>7. CASE UNCHANGED <<captured, present, absent, purges>>
  <2>1. SameJournals
    BY <1>7 DEF SameJournals
  <2> QED
    BY <1>1, <1>7, <2>1, PayloadStays
<1> QED
  BY <1>2, <1>3, <1>4, <1>5, <1>6, <1>7 DEF LifeNext, ResumePurge, lifeVars, AppendSync, PreviewPurge,
     SyncManifests, Publish, PowerLoss

LEMMA AuditInvHolds == LifeSpec => []AuditInv
  BY AuditInvInit, AuditInvNext, LifeInvHolds, PTL DEF LifeSpec

-----------------------------------------------------------------------------
\* A purge that no collection refers to again is accepted.
LEMMA PurgeAccepted ==
  ASSUME LifeInv, AuditInv, NEW i \in DOMAIN purges, Shared(i) = {}
  PROVE  Accepted(i, present)
<1>1. purges[i].state = "succeeded" => SharedAbsences(i) = {}
  <2> SUFFICES ASSUME NEW o \in Kept(purges[i].coll), <<i, o>> \in absent
               PROVE  FALSE
    BY DEF SharedAbsences
  <2>1. o \in purges[i].objs
    BY DEF LifeInv, AbsencesPurged
  <2> QED
    BY <2>1 DEF Shared, Superseded
<1>2. ASSUME GaveUp(i) PROVE Exact(i, present)
  <2> SUFFICES ASSUME NEW o \in purges[i].objs
               PROVE  IF <<i, o>> \in absent THEN o \notin present
                                             ELSE purges[i].state = "succeeded" /\ o \in present
    BY DEF Exact
  <2>1. CASE <<i, o>> \in absent
    BY <2>1 DEF AuditInv, PayloadInv, AbsentGone
  <2>2. CASE <<i, o>> \notin absent
    BY <1>2, <2>2 DEF GaveUp, AuditInv, PayloadInv, CleaningAbsent, ComeBack
  <2> QED
    BY <2>1, <2>2
<1> QED
  BY <1>1, <1>2 DEF Accepted

\* AuditTellsLossFromPurge: between any two steps of any number of purges,
\* their commits, kills and losses of power, verify_library finds every event
\* in its place, accepts each purge but those referred to again, explains by
\* their absences everything that cannot be read, and lets no absence hide the
\* loss of an object that can.
THEOREM LossesAreToldFromPurges == LifeSpec => []AuditTellsLossFromPurge
<1>1. ASSUME LifeInv, AuditInv PROVE Misplaced = {}
  <2> SUFFICES ASSUME NEW k \in DOMAIN chain
               PROVE  IF chain[k].purge = 0 THEN RunEvent(k) ELSE PurgeEvent(k)
    BY DEF Misplaced
  <2>1. CASE chain[k].purge # 0
    BY <1>1, <2>1 DEF LifeInv, ChainAuthentic, PurgeEvent
  <2>2. CASE chain[k].purge = 0
    <3>1. LifeTypes /\ DOMAIN chain = 1 .. Len(chain) /\ Len(chain) \in Nat
      BY <1>1, Indices DEF LifeInv
    <3>2. chain[k].run \in DOMAIN runs
      BY <1>1, <2>2 DEF AuditInv, RunsKnown
    <3>3. chain[k].run # 0
      BY <3>1, <3>2, LenProperties DEF LifeTypes
    <3>4. \A j \in 1 .. (k - 1) : chain[j].run # chain[k].run
      <4> SUFFICES ASSUME NEW j \in 1 .. (k - 1), chain[j].run = chain[k].run PROVE FALSE
        OBVIOUS
      <4>1. j \in DOMAIN chain /\ j # k
        BY <3>1
      <4>2. chain[j].purge = 0
        BY <1>1, <3>3, <4>1 DEF LifeInv, EventsKnown
      <4> QED
        BY <1>1, <2>2, <4>1, <4>2 DEF LifeInv, ChainAuthentic
    <3> QED
      BY <2>2, <3>2, <3>4 DEF RunEvent
  <2> QED
    BY <2>1, <2>2
<1>2. ASSUME LifeInv, AuditInv PROVE CleanupMismatch(present) \subseteq ReferredAgain
  BY <1>2, PurgeAccepted DEF CleanupMismatch, Examined, ReferredAgain
<1>3. ASSUME LifeInv, AuditInv
      PROVE  UnexplainedLoss(present) \subseteq UNION {purges[i].objs : i \in ReferredAgain}
  <2> SUFFICES ASSUME NEW o \in Catalog \ present, o \notin AuthorizedAbsences(present)
               PROVE  \E i \in ReferredAgain : o \in purges[i].objs
    BY DEF UnexplainedLoss
  <2>1. PICK p \in captured : Content[p] = o
    BY DEF Catalog
  <2>2. PICK i \in DOMAIN purges : <<i, o>> \in absent
    BY <1>3, <2>1 DEF AuditInv, PayloadInv, LossesAuthorized
  <2>3. purges[i].state # "authorized" /\ o \in purges[i].objs
    BY <1>3, <2>2 DEF LifeInv, AbsencesPurged
  <2>4. i \in Examined
    <3>1. PICK k \in 1 .. synced : chain[k].purge = i
      BY <1>3, <2>3 DEF LifeInv, WorkAuthenticated
    <3>2. k \in DOMAIN chain
      BY <1>3, Indices DEF LifeInv, LifeTypes
    <3> QED
      BY <3>1, <3>2 DEF Examined, Installed
  <2>5. ~Accepted(i, present)
    BY <2>2, <2>4 DEF AuthorizedAbsences
  <2> QED
    BY <1>3, <2>3, <2>5, PurgeAccepted DEF ReferredAgain
<1>4. ASSUME LifeInv, AuditInv PROVE SeesLoss
  <2> SUFFICES ASSUME NEW o \in Catalog \cap present
               PROVE  o \notin AuthorizedAbsences(present \ {o})
    BY DEF SeesLoss, UnexplainedLoss
  <2> QED
    BY <1>4 DEF AuthorizedAbsences, AuditInv, PayloadInv, AbsentGone
<1>5. LifeInv /\ AuditInv => AuditTellsLossFromPurge
  BY <1>1, <1>2, <1>3, <1>4 DEF AuditTellsLossFromPurge, AcceptsPurges
<1> QED
  BY <1>5, LifeInvHolds, AuditInvHolds, PTL

-----------------------------------------------------------------------------
(* Keys and anchors. *)

KeyContents == {Absent, Torn} \cup {KeyFile(k) : k \in SigningKeys}
AnchorContents == {Absent, Torn} \cup Anchors
KeyDirs == [SigningKeys -> KeyContents]
AnchorDirs == [files : [AnchorPaths -> AnchorContents], used : SUBSET Anchors]
TrustTypes ==
  /\ tip \in 1..MaxHead
  /\ keyDir \in Seq(KeyDirs) /\ keyDir # <<>>
  /\ anchorDir \in Seq(AnchorDirs) /\ anchorDir # <<>>

\* Whatever a loss of power leaves of the directory of the keys has this key.
KeyDurable(k) == \A i \in DOMAIN keyDir : keyDir[i][k] = KeyFile(k)
\* Whatever it leaves of the anchors has those in use, and a copy a rotation
\* left only if the key it rotated to is durable.
UsedKept(dir) == \A a \in dir.used : \E p \in AnchorPaths : dir.files[p] = a
CopiesAfterKeys(dir) == \A k \in SigningKeys : dir.files[Recovery(k)] # Absent => KeyDurable(k)
AllKept == \A i \in DOMAIN anchorDir : UsedKept(anchorDir[i]) /\ CopiesAfterKeys(anchorDir[i])

\* The file of a write is as the step before it left it.
FileOf(w) == IF w.dir = "keys" THEN KeyNow[w.path] ELSE AnchorNow[w.path]
Ready(w) ==
  /\ w.step = "create" => FileOf(w) = Absent
  /\ w.step = "fill" => FileOf(w) = Torn
\* The anchor in use may be replaced by a: nothing is lost with it.
Replaceable(a) ==
  AnchorNow[Current] \in Anchors \ {a} => \E p \in AnchorPaths \ {Current} : AnchorNow[p] = AnchorNow[Current]

Making == {"create", "fill", "sync"}
KeyPlan == \E k \in SigningKeys, step \in Making, s \in BOOLEAN : todo = <<Key(step, k, s)>>
AnchorPlan ==
  \E a \in Anchors, step \in Making \cup {"refresh", "replace"}, s \in BOOLEAN :
    /\ todo = <<AnchorFile(step, Current, a, s)>>
    /\ step = "replace" => Replaceable(a)
GuiPlan ==
  \E old \in Anchors, new \in Anchors, step \in Making :
    /\ todo = <<AnchorFile(step, Previous(old), old, FALSE), AnchorFile("replace", Current, new, FALSE)>>
    /\ AnchorNow[Current] = old /\ step # "sync"
RotationBegins ==
  \E k \in SigningKeys, old \in Anchors, new \in Anchors, step \in Making :
    /\ todo = <<Key(step, k, TRUE), AnchorFile("create", Recovery(k), old, TRUE),
                AnchorFile("replace", Current, new, TRUE)>>
    /\ AnchorNow[Current] = old /\ AnchorNow[Recovery(k)] = Absent
    /\ step = "sync" => KeyNow[k] = KeyFile(k)
RotationCopies ==
  \E k \in SigningKeys, old \in Anchors, new \in Anchors, step \in Making :
    /\ todo = <<AnchorFile(step, Recovery(k), old, TRUE), AnchorFile("replace", Current, new, TRUE)>>
    /\ AnchorNow[Current] = old /\ KeyDurable(k)
    /\ step = "sync" => AnchorNow[Recovery(k)] = old
Planned ==
  /\ todo = <<>> \/ KeyPlan \/ AnchorPlan \/ GuiPlan \/ RotationBegins \/ RotationCopies
  /\ todo # <<>> => Ready(todo[1])
TrustInv == TrustTypes /\ AllKept /\ Planned

LEMMA PathsApart ==
  /\ Current \in AnchorPaths
  /\ \A k \in SigningKeys : Recovery(k) \in AnchorPaths /\ Recovery(k) # Current
  /\ \A a \in Anchors : Previous(a) \in AnchorPaths /\ Previous(a) # Current
  /\ \A a \in Anchors, k \in SigningKeys : Previous(a) # Recovery(k)
  /\ \A j, k \in SigningKeys : Recovery(j) = Recovery(k) => j = k
<1>1. \A k : Recovery(k) # Current
  BY DEF Recovery, Current
<1>2. \A a : Previous(a) # Current
  BY DEF Previous, Current
<1>3. \A a, k : Previous(a) # Recovery(k)
  BY DEF Previous, Recovery
<1>4. \A j, k : Recovery(j) = Recovery(k) => j = k
  <2> SUFFICES ASSUME NEW j, NEW k, Recovery(j) = Recovery(k) PROVE j = k
    OBVIOUS
  <2>1. Recovery(j)[2] = j /\ Recovery(k)[2] = k
    BY DEF Recovery
  <2> QED
    BY <2>1
<1> QED
  BY <1>1, <1>2, <1>3, <1>4 DEF AnchorPaths

LEMMA ContentsApart ==
  /\ Absent # Torn /\ Absent \notin Anchors /\ Torn \notin Anchors
  /\ \A k : KeyFile(k) # Absent /\ KeyFile(k) # Torn
<1>1. Absent.kind = "absent" /\ Torn.kind = "torn"
  BY DEF Absent, Torn
<1>2. \A k : KeyFile(k).kind = "key"
  BY DEF KeyFile
<1>3. \A a \in Anchors : a.kind = "anchor"
  BY DEF Anchors, Anchor
<1> QED
  BY <1>1, <1>2, <1>3

LEMMA FileAppended ==
  ASSUME NEW S, NEW s \in Seq(S), NEW x \in S
  PROVE  /\ Append(s, x) \in Seq(S) /\ Append(s, x) # <<>>
         /\ Append(s, x)[Len(Append(s, x))] = x
         /\ \A i \in DOMAIN Append(s, x) : Append(s, x)[i] = x \/ (i \in DOMAIN s /\ Append(s, x)[i] = s[i])
OBVIOUS

LEMMA Alone ==
  ASSUME NEW S, NEW s \in Seq(S), s # <<>>, NEW t, t = s \/ \E i \in DOMAIN s : t = <<s[i]>>
  PROVE  t \in Seq(S) /\ t # <<>> /\ \A i \in DOMAIN t : \E j \in DOMAIN s : t[i] = s[j]
<1>1. CASE t = s
  BY <1>1
<1>2. CASE \E i \in DOMAIN s : t = <<s[i]>>
  <2>1. PICK i \in DOMAIN s : t = <<s[i]>>
    BY <1>2
  <2>2. PICK x \in S : x = s[i]
    OBVIOUS
  <2>3. t = <<x>> /\ x = s[i]
    BY <2>1, <2>2
  <2>4. t \in Seq(S) /\ t # <<>> /\ \A j \in DOMAIN t : t[j] = x
    BY <2>2, <2>3
  <2> QED
    BY <2>3, <2>4
<1> QED
  BY <1>1, <1>2

LEMMA LastIn == ASSUME NEW S, NEW s \in Seq(S), s # <<>> PROVE Len(s) \in DOMAIN s /\ s[Len(s)] \in S
OBVIOUS

LEMMA Lasts == ASSUME TrustTypes
  PROVE  /\ KeyNow \in KeyDirs /\ Len(keyDir) \in DOMAIN keyDir
         /\ anchorDir[Len(anchorDir)] \in AnchorDirs /\ Len(anchorDir) \in DOMAIN anchorDir
         /\ AnchorNow \in [AnchorPaths -> AnchorContents] /\ InUse \subseteq Anchors
<1>1. KeyNow \in KeyDirs /\ Len(keyDir) \in DOMAIN keyDir
  BY LastIn DEF TrustTypes, KeyNow
<1>2. anchorDir[Len(anchorDir)] \in AnchorDirs /\ Len(anchorDir) \in DOMAIN anchorDir
  BY LastIn DEF TrustTypes
<1> QED
  BY <1>1, <1>2 DEF AnchorDirs, AnchorNow, InUse

LEMMA TrustInvInit == TrustInit => TrustInv
<1> SUFFICES ASSUME TrustInit PROVE TrustInv
  OBVIOUS
<1> DEFINE noKeys == [k \in SigningKeys |-> Absent]
           noAnchors == [files |-> [p \in AnchorPaths |-> Absent], used |-> {}]
<1>1. noKeys \in KeyDirs /\ noAnchors \in AnchorDirs
  BY DEF KeyDirs, KeyContents, AnchorDirs, AnchorContents
<1>2. keyDir = <<noKeys>> /\ anchorDir = <<noAnchors>>
  BY DEF TrustInit
<1>3. UsedKept(noAnchors) /\ CopiesAfterKeys(noAnchors)
  BY PathsApart DEF UsedKept, CopiesAfterKeys
<1> HIDE DEF noKeys, noAnchors
<1>4. keyDir \in Seq(KeyDirs) /\ keyDir # <<>> /\ anchorDir \in Seq(AnchorDirs) /\ anchorDir # <<>>
      /\ \A i \in DOMAIN anchorDir : anchorDir[i] = noAnchors
  BY <1>1, <1>2
<1>5. tip \in 1..MaxHead
  BY TrustAssumption DEF TrustInit
<1> QED
  BY <1>3, <1>4, <1>5 DEF TrustInv, TrustTypes, AllKept, Planned, TrustInit

-----------------------------------------------------------------------------
\* A key file that is not there or not whole is written.
LEMMA WriteKey ==
  ASSUME TrustTypes, AllKept, tip' = tip, NEW w, NEW content \in KeyContents, Write(w, content),
         w.dir = "keys", w.path \in SigningKeys, KeyNow[w.path] \in {Absent, Torn}
  PROVE  /\ TrustTypes' /\ AllKept' /\ UNCHANGED anchorDir
         /\ KeyNow' = [KeyNow EXCEPT ![w.path] = content]
         /\ \A k \in SigningKeys : KeyDurable(k) => KeyDurable(k)'
<1>1. PICK new \in KeyDirs : new = [KeyNow EXCEPT ![w.path] = content]
  BY Lasts DEF KeyDirs
<1>2. keyDir' = Append(keyDir, new) /\ anchorDir' = anchorDir
  BY <1>1 DEF Write
<1>3. /\ keyDir' \in Seq(KeyDirs) /\ keyDir' # <<>> /\ keyDir'[Len(keyDir')] = new
      /\ \A i \in DOMAIN keyDir' : keyDir'[i] = new \/ (i \in DOMAIN keyDir /\ keyDir'[i] = keyDir[i])
  BY <1>2, FileAppended DEF TrustTypes
<1>4. ASSUME NEW k \in SigningKeys, KeyDurable(k) PROVE KeyDurable(k)'
  <2>1. KeyNow[k] = KeyFile(k)
    BY <1>4, Lasts DEF KeyDurable, KeyNow
  <2>2. new[k] = KeyFile(k)
    BY <2>1, <1>1, Lasts, ContentsApart DEF KeyDirs
  <2> QED
    BY <1>3, <1>4, <2>2 DEF KeyDurable
<1>5. AllKept'
  BY <1>2, <1>4 DEF AllKept, UsedKept, CopiesAfterKeys
<1> QED
  BY <1>1, <1>2, <1>3, <1>4, <1>5 DEF TrustTypes, KeyNow

\* A file of the anchors is written while what was there, if anybody uses it,
\* is somewhere else; a copy of a rotation only after its key.
LEMMA WriteAnchor ==
  ASSUME TrustTypes, AllKept, tip' = tip, NEW w, NEW content \in AnchorContents, Write(w, content),
         w.dir = "anchors", w.path \in AnchorPaths,
         \A k \in SigningKeys : w.path = Recovery(k) /\ content # Absent => KeyDurable(k),
         \/ AnchorNow[w.path] \notin Anchors
         \/ AnchorNow[w.path] = content
         \/ w.step = "refresh" /\ w.path = Current /\ content \in Anchors
         \/ \E p \in AnchorPaths \ {w.path} : AnchorNow[p] = AnchorNow[w.path]
  PROVE  /\ TrustTypes' /\ AllKept' /\ UNCHANGED keyDir
         /\ AnchorNow' = [AnchorNow EXCEPT ![w.path] = content]
<1> DEFINE kept == IF w.step = "refresh" THEN InUse \ {AnchorNow[Current]} ELSE InUse
           used == IF w.path = Current /\ content \in Anchors THEN kept \cup {content} ELSE kept
           files == [AnchorNow EXCEPT ![w.path] = content]
<1>1. used \in SUBSET Anchors /\ files \in [AnchorPaths -> AnchorContents]
  BY Lasts
<1>2. PICK new \in AnchorDirs : new = [files |-> files, used |-> used]
  BY <1>1 DEF AnchorDirs
<1>3. anchorDir' = Append(anchorDir, new) /\ keyDir' = keyDir
  BY <1>2 DEF Write
<1>4. /\ anchorDir' \in Seq(AnchorDirs) /\ anchorDir' # <<>> /\ anchorDir'[Len(anchorDir')] = new
      /\ \A i \in DOMAIN anchorDir' : anchorDir'[i] = new \/ (i \in DOMAIN anchorDir /\ anchorDir'[i] = anchorDir[i])
  BY <1>3, FileAppended DEF TrustTypes
<1>5. UsedKept(anchorDir[Len(anchorDir)]) /\ CopiesAfterKeys(anchorDir[Len(anchorDir)])
  BY Lasts DEF AllKept
<1>6. ASSUME NEW a \in used PROVE \E p \in AnchorPaths : files[p] = a
  <2>1. CASE a = content /\ w.path = Current
    BY <2>1, <1>1, Lasts
  <2>2. CASE a \in kept
    <3>1. PICK p \in AnchorPaths : AnchorNow[p] = a
      BY <1>5, <2>2 DEF UsedKept, AnchorNow, InUse
    <3>2. CASE p # w.path
      BY <3>1, <3>2, Lasts
    <3>3. CASE p = w.path
      <4>1. a \in Anchors
        BY <2>2, Lasts
      <4>2. CASE AnchorNow[w.path] = content
        BY <3>1, <3>3, <4>2, Lasts
      <4>3. CASE w.step = "refresh" /\ w.path = Current /\ content \in Anchors
        BY <2>2, <3>1, <3>3, <4>3
      <4>4. CASE \E q \in AnchorPaths \ {w.path} : AnchorNow[q] = AnchorNow[w.path]
        BY <3>1, <3>3, <4>4, Lasts
      <4> QED
        BY <3>1, <3>3, <4>1, <4>2, <4>3, <4>4
    <3> QED
      BY <3>2, <3>3
  <2> QED
    BY <2>1, <2>2
<1>7. ASSUME NEW k \in SigningKeys, files[Recovery(k)] # Absent PROVE KeyDurable(k)
  <2>1. CASE w.path = Recovery(k)
    BY <1>7, <2>1, Lasts
  <2>2. CASE w.path # Recovery(k)
    BY <1>5, <1>7, <2>2, PathsApart, Lasts DEF CopiesAfterKeys, AnchorNow
  <2> QED
    BY <2>1, <2>2
<1> HIDE DEF kept, used, files
<1>8. UsedKept(new) /\ CopiesAfterKeys(new)
  BY <1>2, <1>6, <1>7 DEF UsedKept, CopiesAfterKeys
<1>9. AllKept'
  BY <1>3, <1>4, <1>8 DEF AllKept, UsedKept, CopiesAfterKeys, KeyDurable
<1>10. AnchorNow' = files
  BY <1>2, <1>4 DEF AnchorNow
<1> QED
  BY <1>3, <1>4, <1>9, <1>10 DEF TrustTypes, files

\* What is synced, written back or lost leaves one of the contents there were.
LEMMA Settle ==
  ASSUME TrustTypes, AllKept, tip' \in 1..MaxHead,
         keyDir' = keyDir \/ \E i \in DOMAIN keyDir : keyDir' = <<keyDir[i]>>,
         anchorDir' = anchorDir \/ \E i \in DOMAIN anchorDir : anchorDir' = <<anchorDir[i]>>
  PROVE  TrustTypes' /\ AllKept' /\ \A k \in SigningKeys : KeyDurable(k) => KeyDurable(k)'
<1>1. /\ keyDir' \in Seq(KeyDirs) /\ keyDir' # <<>>
      /\ \A i \in DOMAIN keyDir' : \E j \in DOMAIN keyDir : keyDir'[i] = keyDir[j]
  BY Alone DEF TrustTypes
<1>2. /\ anchorDir' \in Seq(AnchorDirs) /\ anchorDir' # <<>>
      /\ \A i \in DOMAIN anchorDir' : \E j \in DOMAIN anchorDir : anchorDir'[i] = anchorDir[j]
  BY Alone DEF TrustTypes
<1>3. ASSUME NEW k \in SigningKeys, KeyDurable(k) PROVE KeyDurable(k)'
  BY <1>1, <1>3 DEF KeyDurable
<1>4. AllKept'
  BY <1>2, <1>3 DEF AllKept, UsedKept, CopiesAfterKeys
<1> QED
  BY <1>1, <1>2, <1>3, <1>4 DEF TrustTypes

-----------------------------------------------------------------------------
(* Plans. *)

LEMMA KeyFields ==
  ASSUME NEW step, NEW k, NEW s
  PROVE  /\ Key(step, k, s).step = step /\ Key(step, k, s).dir = "keys" /\ Key(step, k, s).path = k
         /\ Key(step, k, s).what = KeyFile(k) /\ Key(step, k, s).synced = s
         /\ \A new : [Key(step, k, s) EXCEPT !.step = new] = Key(new, k, s)
BY DEF Key

LEMMA AnchorFields ==
  ASSUME NEW step, NEW p, NEW a, NEW s
  PROVE  /\ AnchorFile(step, p, a, s).step = step /\ AnchorFile(step, p, a, s).dir = "anchors"
         /\ AnchorFile(step, p, a, s).path = p
         /\ AnchorFile(step, p, a, s).what = a /\ AnchorFile(step, p, a, s).synced = s
         /\ \A new : [AnchorFile(step, p, a, s) EXCEPT !.step = new] = AnchorFile(new, p, a, s)
BY DEF AnchorFile

\* The rest of a plan when its first write is done or begins a new step.
LEMMA Rests ==
  /\ \A x : Tail(<<x>>) = <<>> /\ <<x>>[1] = x /\ <<x>> # <<>>
  /\ \A x, y : Tail(<<x, y>>) = <<y>> /\ <<x, y>>[1] = x /\ <<x, y>> # <<>>
  /\ \A x, y, z : Tail(<<x, y, z>>) = <<y, z>> /\ <<x, y, z>>[1] = x /\ <<x, y, z>> # <<>>
  /\ \A x : <<x>> \o <<>> = <<x>>
  /\ \A x, y : <<x>> \o <<y>> = <<x, y>>
  /\ \A x, y, z : <<x>> \o <<y, z>> = <<x, y, z>>
<1>1. \A x : Tail(<<x>>) = <<>> /\ <<x>>[1] = x /\ <<x>> # <<>>
  OBVIOUS
<1>2. \A x, y : Tail(<<x, y>>) = <<y>> /\ <<x, y>>[1] = x /\ <<x, y>> # <<>>
  OBVIOUS
<1>3. \A x, y, z : Tail(<<x, y, z>>) = <<y, z>> /\ <<x, y, z>>[1] = x /\ <<x, y, z>> # <<>>
  OBVIOUS
<1>4. \A x : <<x>> \o <<>> = <<x>>
  OBVIOUS
<1>5. ASSUME NEW x, NEW y PROVE <<x>> \o <<y>> = <<x, y>>
  <2>1. PICK S : S = {x, y}
    OBVIOUS
  <2>2. <<x>> \in Seq(S) /\ <<y>> \in Seq(S)
    BY <2>1
  <2>3. /\ <<x>> \o <<y>> \in Seq(S) /\ Len(<<x>> \o <<y>>) = 2
        /\ (<<x>> \o <<y>>)[1] = x /\ (<<x>> \o <<y>>)[2] = y
    BY <2>2
  <2>4. <<x, y>> \in Seq(S) /\ Len(<<x, y>>) = 2
    BY <2>1
  <2>5. \A i \in 1..2 : (<<x>> \o <<y>>)[i] = <<x, y>>[i]
    BY <2>3
  <2> QED
    BY <2>3, <2>4, <2>5, SeqEqual
<1>6. ASSUME NEW x, NEW y, NEW z PROVE <<x>> \o <<y, z>> = <<x, y, z>>
  <2>1. PICK S : S = {x, y, z}
    OBVIOUS
  <2>2. <<x>> \in Seq(S) /\ <<y, z>> \in Seq(S)
    BY <2>1
  <2>3. /\ <<x>> \o <<y, z>> \in Seq(S) /\ Len(<<x>> \o <<y, z>>) = 3
        /\ (<<x>> \o <<y, z>>)[1] = x /\ (<<x>> \o <<y, z>>)[2] = y /\ (<<x>> \o <<y, z>>)[3] = z
    BY <2>2
  <2>4. <<x, y, z>> \in Seq(S) /\ Len(<<x, y, z>>) = 3
    BY <2>1
  <2>5. \A i \in 1..3 : (<<x>> \o <<y, z>>)[i] = <<x, y, z>>[i]
    BY <2>3
  <2> QED
    BY <2>3, <2>4, <2>5, SeqEqual
<1> QED
  BY <1>1, <1>2, <1>3, <1>4, <1>5, <1>6

LEMMA LongRest ==
  ASSUME NEW x, NEW y, NEW z, NEW rest, rest = <<y, z>>
  PROVE  /\ Tail(<<x, y, z>>) = rest /\ <<x, y, z>>[1] = x /\ <<x, y, z>> # <<>>
         /\ <<x>> \o rest = <<x, y, z>>
BY Rests

Works == Create \/ Fill \/ FillFails \/ Replace \/ Sync

\* What a step does that works on a key file.
LEMMA KeyStep ==
  ASSUME TrustInv, Works, NEW k \in SigningKeys, NEW step \in Making, NEW s \in BOOLEAN,
         todo # <<>>, todo[1] = Key(step, k, s)
  PROVE  /\ TrustTypes' /\ AllKept' /\ AnchorNow' = AnchorNow
         /\ \A j \in SigningKeys : KeyDurable(j) => KeyDurable(j)'
         /\ \/ step = "create" /\ KeyNow'[k] = Torn /\ todo' = <<Key("fill", k, s)>> \o Tail(todo)
            \/ step = "fill" /\ s /\ KeyNow'[k] = KeyFile(k) /\ todo' = <<Key("sync", k, s)>> \o Tail(todo)
            \/ step = "fill" /\ ~s /\ todo' = Tail(todo)
            \/ step = "fill" /\ todo' = <<>>
            \/ step = "sync" /\ todo' = Tail(todo) /\ (KeyNow[k] = KeyFile(k) => KeyDurable(k)')
<1>1. TrustTypes /\ AllKept /\ Ready(todo[1]) /\ tip' = tip
  BY DEF TrustInv, Planned, Works, Create, Fill, FillFails, Replace, Sync
<1>2. /\ todo[1].step = step /\ todo[1].dir = "keys" /\ todo[1].path = k
      /\ todo[1].what = KeyFile(k) /\ todo[1].synced = s
      /\ \A new : [todo[1] EXCEPT !.step = new] = Key(new, k, s)
  BY KeyFields
<1>3. Absent \in KeyContents /\ Torn \in KeyContents /\ KeyFile(k) \in KeyContents
  BY DEF KeyContents
<1>4. /\ step = "create" => KeyNow[k] = Absent
      /\ step = "fill" => KeyNow[k] = Torn
  BY <1>1, <1>2 DEF Ready, FileOf
<1>5. ASSUME NEW content \in KeyContents, Write(todo[1], content), step \in {"create", "fill"}
      PROVE  /\ TrustTypes' /\ AllKept' /\ AnchorNow' = AnchorNow /\ KeyNow'[k] = content
             /\ \A j \in SigningKeys : KeyDurable(j) => KeyDurable(j)'
  <2>1. KeyNow[todo[1].path] \in {Absent, Torn}
    BY <1>2, <1>4, <1>5
  <2>2. /\ TrustTypes' /\ AllKept' /\ UNCHANGED anchorDir
        /\ KeyNow' = [KeyNow EXCEPT ![k] = content]
        /\ \A j \in SigningKeys : KeyDurable(j) => KeyDurable(j)'
    BY <1>1, <1>2, <1>5, <2>1, WriteKey
  <2> QED
    BY <2>2, <1>1, Lasts DEF AnchorNow, KeyDirs
<1>6. CASE Create
  BY <1>2, <1>3, <1>5, <1>6 DEF Create
<1>7. CASE Fill
  <2>1. step = "fill" /\ Write(todo[1], KeyFile(k)) /\ Wrote(todo[1])
    BY <1>2, <1>7 DEF Fill
  <2>2. todo' = IF s THEN <<Key("sync", k, s)>> \o Tail(todo) ELSE Tail(todo)
    BY <1>2, <2>1 DEF Wrote
  <2> QED
    BY <1>3, <1>5, <2>1, <2>2
<1>8. CASE FillFails
  BY <1>2, <1>3, <1>5, <1>8 DEF FillFails
<1>9. CASE Sync
  <2>1. step = "sync" /\ keyDir' = <<KeyNow>> /\ anchorDir' = anchorDir /\ todo' = Tail(todo)
    BY <1>2, <1>9 DEF Sync
  <2>2. TrustTypes' /\ AllKept' /\ \A j \in SigningKeys : KeyDurable(j) => KeyDurable(j)'
    <3>1. tip' \in 1..MaxHead /\ \E i \in DOMAIN keyDir : keyDir' = <<keyDir[i]>>
      BY <1>1, <2>1, Lasts DEF KeyNow, TrustTypes
    <3> QED
      BY <1>1, <2>1, <3>1, Settle
  <2>3. \A i \in DOMAIN keyDir' : keyDir'[i] = KeyNow
    BY <2>1
  <2> QED
    BY <2>1, <2>2, <2>3 DEF KeyDurable, AnchorNow
<1>10. ~Replace
  BY <1>2 DEF Replace, Making
<1> QED
  BY <1>6, <1>7, <1>8, <1>9, <1>10 DEF Works

\* What a step does that works on a file of the anchors.
LEMMA AnchorStep ==
  ASSUME TrustInv, Works, NEW p \in AnchorPaths, NEW step, NEW a \in Anchors, NEW s \in BOOLEAN,
         step \in Making \cup {"refresh", "replace"},
         todo # <<>>, todo[1] = AnchorFile(step, p, a, s),
         \A k \in SigningKeys : p = Recovery(k) => KeyDurable(k),
         step \in {"refresh", "replace"} => p = Current,
         step = "replace" => Replaceable(a)
  PROVE  /\ TrustTypes' /\ AllKept' /\ KeyNow' = KeyNow
         /\ \A j \in SigningKeys : KeyDurable(j) => KeyDurable(j)'
         /\ \/ step = "create" /\ AnchorNow' = [AnchorNow EXCEPT ![p] = Torn]
               /\ todo' = <<AnchorFile("fill", p, a, s)>> \o Tail(todo)
            \/ step \notin {"create", "sync"} /\ AnchorNow' = [AnchorNow EXCEPT ![p] = a]
               /\ \/ s /\ todo' = <<AnchorFile("sync", p, a, s)>> \o Tail(todo)
                  \/ ~s /\ todo' = Tail(todo)
            \/ todo' = <<>>
            \/ step = "sync" /\ todo' = Tail(todo) /\ AnchorNow' = AnchorNow
<1>1. TrustTypes /\ AllKept /\ Ready(todo[1]) /\ tip' = tip
  BY DEF TrustInv, Planned, Works, Create, Fill, FillFails, Replace, Sync
<1>2. /\ todo[1].step = step /\ todo[1].dir = "anchors" /\ todo[1].path = p
      /\ todo[1].what = a /\ todo[1].synced = s
      /\ \A new : [todo[1] EXCEPT !.step = new] = AnchorFile(new, p, a, s)
  BY AnchorFields
<1>3. Absent \in AnchorContents /\ Torn \in AnchorContents /\ a \in AnchorContents
  BY DEF AnchorContents
<1>4. /\ step = "create" => AnchorNow[p] = Absent
      /\ step = "fill" => AnchorNow[p] = Torn
  BY <1>1, <1>2 DEF Ready, FileOf
<1>5. ASSUME NEW content \in AnchorContents, Write(todo[1], content), step # "sync",
             step \in {"refresh", "replace"} => content = a
      PROVE  /\ TrustTypes' /\ AllKept' /\ KeyNow' = KeyNow /\ AnchorNow' = [AnchorNow EXCEPT ![p] = content]
             /\ \A j \in SigningKeys : KeyDurable(j) => KeyDurable(j)'
  <2>1. \/ AnchorNow[todo[1].path] \notin Anchors
        \/ AnchorNow[todo[1].path] = content
        \/ todo[1].step = "refresh" /\ todo[1].path = Current /\ content \in Anchors
        \/ \E q \in AnchorPaths \ {todo[1].path} : AnchorNow[q] = AnchorNow[todo[1].path]
    <3>1. CASE step \in {"create", "fill"}
      BY <3>1, <1>2, <1>4, ContentsApart
    <3>2. CASE step = "refresh"
      BY <3>2, <1>2, <1>5
    <3>3. CASE step = "replace"
      BY <3>3, <1>2, <1>5 DEF Replaceable
    <3> QED
      BY <1>5, <3>1, <3>2, <3>3 DEF Making
  <2>2. /\ TrustTypes' /\ AllKept' /\ UNCHANGED keyDir
        /\ AnchorNow' = [AnchorNow EXCEPT ![todo[1].path] = content]
    BY <1>1, <1>2, <1>5, <2>1, WriteAnchor
  <2> QED
    BY <1>2, <2>2 DEF KeyNow, KeyDurable
<1>6. CASE Create
  BY <1>2, <1>3, <1>5, <1>6 DEF Create
<1>7. CASE Fill \/ Replace
  <2>1. step \notin {"create", "sync"} /\ Write(todo[1], a) /\ Wrote(todo[1])
    BY <1>2, <1>7 DEF Fill, Replace
  <2>2. todo' = IF s THEN <<AnchorFile("sync", p, a, s)>> \o Tail(todo) ELSE Tail(todo)
    BY <1>2, <2>1 DEF Wrote
  <2> QED
    BY <1>3, <1>5, <2>1, <2>2
<1>8. CASE FillFails
  BY <1>2, <1>3, <1>5, <1>8 DEF FillFails
<1>9. CASE Sync
  <2>1. step = "sync" /\ anchorDir' = <<anchorDir[Len(anchorDir)]>> /\ keyDir' = keyDir /\ todo' = Tail(todo)
    BY <1>2, <1>9 DEF Sync
  <2>2. TrustTypes' /\ AllKept' /\ \A j \in SigningKeys : KeyDurable(j) => KeyDurable(j)'
    <3>1. tip' \in 1..MaxHead /\ \E i \in DOMAIN anchorDir : anchorDir' = <<anchorDir[i]>>
      BY <1>1, <2>1, Lasts DEF TrustTypes
    <3> QED
      BY <1>1, <2>1, <3>1, Settle
  <2>3. anchorDir'[Len(anchorDir')] = anchorDir[Len(anchorDir)]
    BY <2>1
  <2> QED
    BY <2>1, <2>2, <2>3 DEF KeyNow, AnchorNow
<1> QED
  BY <1>6, <1>7, <1>8, <1>9 DEF Works

LEMMA EmptyPlan == ASSUME TrustTypes', AllKept', todo' = <<>> PROVE TrustInv'
BY DEF TrustInv, Planned

\* A write is under way for which the file is ready.
LEMMA ReadyAnchor ==
  ASSUME NEW p, NEW a, NEW s, NEW step,
         step = "create" => AnchorNow'[p] = Absent, step = "fill" => AnchorNow'[p] = Torn
  PROVE  Ready(AnchorFile(step, p, a, s))'
BY AnchorFields DEF Ready, FileOf
LEMMA ReadyKey ==
  ASSUME NEW k, NEW s, NEW step,
         step = "create" => KeyNow'[k] = Absent, step = "fill" => KeyNow'[k] = Torn
  PROVE  Ready(Key(step, k, s))'
BY KeyFields DEF Ready, FileOf

LEMMA KeyPlanKeeps == ASSUME TrustInv, KeyPlan, Works PROVE TrustInv'
<1>1. PICK k \in SigningKeys, step \in Making, s \in BOOLEAN : todo = <<Key(step, k, s)>>
  BY DEF KeyPlan
<1>2. todo # <<>> /\ todo[1] = Key(step, k, s) /\ Tail(todo) = <<>>
  BY <1>1, Rests
<1>3. TrustTypes' /\ AllKept'
  BY <1>2, KeyStep
<1>4. \/ todo' = <<Key("fill", k, s)>> /\ KeyNow'[k] = Torn
      \/ todo' = <<Key("sync", k, s)>>
      \/ todo' = <<>>
  BY <1>2, KeyStep, Rests
<1>5. CASE todo' = <<Key("fill", k, s)>> /\ KeyNow'[k] = Torn
  <2>1. KeyPlan' /\ todo'[1] = Key("fill", k, s)
    BY <1>5, Rests DEF KeyPlan, Making
  <2>2. Ready(Key("fill", k, s))'
    BY <1>5, ReadyKey
  <2> QED
    BY <1>3, <2>1, <2>2 DEF TrustInv, Planned
<1>6. CASE todo' = <<Key("sync", k, s)>>
  <2>1. KeyPlan' /\ todo'[1] = Key("sync", k, s)
    BY <1>6, Rests DEF KeyPlan, Making
  <2>2. Ready(Key("sync", k, s))'
    BY ReadyKey
  <2> QED
    BY <1>3, <2>1, <2>2 DEF TrustInv, Planned
<1> QED
  BY <1>3, <1>4, <1>5, <1>6, EmptyPlan

LEMMA AnchorPlanKeeps == ASSUME TrustInv, AnchorPlan, Works PROVE TrustInv'
<1>1. PICK a \in Anchors, step \in Making \cup {"refresh", "replace"}, s \in BOOLEAN :
        todo = <<AnchorFile(step, Current, a, s)>> /\ (step = "replace" => Replaceable(a))
  BY DEF AnchorPlan
<1>2. /\ todo # <<>> /\ todo[1] = AnchorFile(step, Current, a, s) /\ Tail(todo) = <<>>
      /\ Current \in AnchorPaths /\ \A k \in SigningKeys : Current # Recovery(k)
  BY <1>1, Rests, PathsApart
<1>3. TrustTypes' /\ AllKept'
  BY <1>1, <1>2, AnchorStep
<1>4. \/ todo' = <<AnchorFile("fill", Current, a, s)>> /\ AnchorNow' = [AnchorNow EXCEPT ![Current] = Torn]
      \/ todo' = <<AnchorFile("sync", Current, a, s)>>
      \/ todo' = <<>>
  <2>1. \A x : <<x>> \o Tail(todo) = <<x>>
    BY <1>2, Rests
  <2> QED
    BY <1>1, <1>2, <2>1, AnchorStep
<1>5. CASE todo' = <<AnchorFile("fill", Current, a, s)>> /\ AnchorNow' = [AnchorNow EXCEPT ![Current] = Torn]
  <2>1. AnchorPlan' /\ todo'[1] = AnchorFile("fill", Current, a, s)
    BY <1>5, Rests DEF AnchorPlan, Making
  <2>2. AnchorNow'[Current] = Torn
    BY <1>2, <1>5, Lasts DEF TrustInv
  <2>3. Ready(AnchorFile("fill", Current, a, s))'
    BY <2>2, ReadyAnchor
  <2> QED
    BY <1>3, <2>1, <2>3 DEF TrustInv, Planned
<1>6. CASE todo' = <<AnchorFile("sync", Current, a, s)>>
  <2>1. AnchorPlan' /\ todo'[1] = AnchorFile("sync", Current, a, s)
    BY <1>6, Rests DEF AnchorPlan, Making
  <2>2. Ready(AnchorFile("sync", Current, a, s))'
    BY ReadyAnchor
  <2> QED
    BY <1>3, <2>1, <2>2 DEF TrustInv, Planned
<1> QED
  BY <1>3, <1>4, <1>5, <1>6, EmptyPlan

\* The anchor in use is about to be replaced and has a copy.
LEMMA ReplaceNext ==
  ASSUME TrustTypes', AllKept', NEW new \in Anchors, NEW s \in BOOLEAN, NEW p \in AnchorPaths \ {Current},
         AnchorNow'[p] = AnchorNow'[Current], todo' = <<AnchorFile("replace", Current, new, s)>>
  PROVE  TrustInv'
<1>1. Replaceable(new)'
  BY DEF Replaceable
<1>2. AnchorPlan' /\ todo' # <<>> /\ todo'[1] = AnchorFile("replace", Current, new, s)
  BY <1>1, Rests DEF AnchorPlan
<1>3. Ready(AnchorFile("replace", Current, new, s))'
  BY ReadyAnchor
<1> QED
  BY <1>2, <1>3 DEF TrustInv, Planned

LEMMA GuiPlanKeeps == ASSUME TrustInv, GuiPlan, Works PROVE TrustInv'
<1>1. PICK old \in Anchors, new \in Anchors, step \in Making :
        /\ todo = <<AnchorFile(step, Previous(old), old, FALSE), AnchorFile("replace", Current, new, FALSE)>>
        /\ AnchorNow[Current] = old /\ step # "sync"
  BY DEF GuiPlan
<1>2. PICK rest : rest = <<AnchorFile("replace", Current, new, FALSE)>>
  OBVIOUS
<1>3. PICK p \in AnchorPaths : p = Previous(old) /\ p # Current /\ \A k \in SigningKeys : p # Recovery(k)
  BY PathsApart
<1>4. todo # <<>> /\ todo[1] = AnchorFile(step, p, old, FALSE) /\ Tail(todo) = rest
  BY <1>1, <1>2, <1>3, Rests
<1>5. TrustTypes' /\ AllKept'
  BY <1>3, <1>4, AnchorStep DEF Making
<1>6. \/ AnchorNow' = [AnchorNow EXCEPT ![p] = Torn] /\ todo' = <<AnchorFile("fill", p, old, FALSE)>> \o rest
      \/ AnchorNow' = [AnchorNow EXCEPT ![p] = old] /\ todo' = rest
      \/ todo' = <<>>
  BY <1>1, <1>3, <1>4, AnchorStep DEF Making
<1>7. CASE AnchorNow' = [AnchorNow EXCEPT ![p] = Torn] /\ todo' = <<AnchorFile("fill", p, old, FALSE)>> \o rest
  <2>1. AnchorNow'[Current] = old /\ AnchorNow'[p] = Torn
    BY <1>1, <1>3, <1>7, Lasts, PathsApart DEF TrustInv
  <2>2. todo' = <<AnchorFile("fill", p, old, FALSE), AnchorFile("replace", Current, new, FALSE)>>
    BY <1>2, <1>7, Rests
  <2>3. GuiPlan' /\ todo' # <<>> /\ todo'[1] = AnchorFile("fill", p, old, FALSE)
    BY <1>3, <2>1, <2>2, Rests DEF GuiPlan, Making
  <2>4. Ready(AnchorFile("fill", p, old, FALSE))'
    BY <2>1, ReadyAnchor
  <2> QED
    BY <1>5, <2>3, <2>4 DEF TrustInv, Planned
<1>8. CASE AnchorNow' = [AnchorNow EXCEPT ![p] = old] /\ todo' = rest
  <2>1. AnchorNow'[Current] = old /\ AnchorNow'[p] = old
    BY <1>1, <1>3, <1>8, Lasts, PathsApart DEF TrustInv
  <2>2. PICK s \in BOOLEAN : s = FALSE
    OBVIOUS
  <2>3. todo' = <<AnchorFile("replace", Current, new, s)>> /\ AnchorNow'[p] = AnchorNow'[Current]
    BY <1>2, <1>8, <2>1, <2>2
  <2>4. p \in AnchorPaths \ {Current}
    BY <1>3
  <2> QED
    BY <1>5, <2>3, <2>4, ReplaceNext
<1> QED
  BY <1>5, <1>6, <1>7, <1>8, EmptyPlan

LEMMA RotationCopiesKeeps == ASSUME TrustInv, RotationCopies, Works PROVE TrustInv'
<1>1. PICK k \in SigningKeys, old \in Anchors, new \in Anchors, step \in Making :
        /\ todo = <<AnchorFile(step, Recovery(k), old, TRUE), AnchorFile("replace", Current, new, TRUE)>>
        /\ AnchorNow[Current] = old /\ KeyDurable(k)
        /\ step = "sync" => AnchorNow[Recovery(k)] = old
  BY DEF RotationCopies
<1>2. PICK rest : rest = <<AnchorFile("replace", Current, new, TRUE)>>
  OBVIOUS
<1>3. PICK p \in AnchorPaths : p = Recovery(k) /\ p # Current /\ \A j \in SigningKeys : p = Recovery(j) => KeyDurable(j)
  BY <1>1, PathsApart
<1>4. todo # <<>> /\ todo[1] = AnchorFile(step, p, old, TRUE) /\ Tail(todo) = rest
  BY <1>1, <1>2, <1>3, Rests
<1>5. TrustTypes' /\ AllKept' /\ KeyDurable(k)'
  BY <1>1, <1>3, <1>4, AnchorStep DEF Making
<1>6. \/ AnchorNow' = [AnchorNow EXCEPT ![p] = Torn] /\ todo' = <<AnchorFile("fill", p, old, TRUE)>> \o rest
      \/ AnchorNow' = [AnchorNow EXCEPT ![p] = old] /\ todo' = <<AnchorFile("sync", p, old, TRUE)>> \o rest
      \/ todo' = <<>>
      \/ AnchorNow' = AnchorNow /\ AnchorNow[p] = old /\ todo' = rest
  <2>1. PICK s \in BOOLEAN : s = TRUE
    OBVIOUS
  <2>2. /\ todo # <<>> /\ todo[1] = AnchorFile(step, p, old, s)
        /\ step \in Making \cup {"refresh", "replace"} /\ step \notin {"refresh", "replace"}
    BY <1>4, <2>1 DEF Making
  <2>3. \/ AnchorNow' = [AnchorNow EXCEPT ![p] = Torn] /\ todo' = <<AnchorFile("fill", p, old, s)>> \o Tail(todo)
        \/ AnchorNow' = [AnchorNow EXCEPT ![p] = old]
           /\ \/ s /\ todo' = <<AnchorFile("sync", p, old, s)>> \o Tail(todo)
              \/ ~s /\ todo' = Tail(todo)
        \/ todo' = <<>>
        \/ step = "sync" /\ todo' = Tail(todo) /\ AnchorNow' = AnchorNow
    BY <1>3, <2>2, AnchorStep
  <2>4. step = "sync" => AnchorNow[p] = old
    BY <1>1, <1>3
  <2> QED
    BY <1>4, <2>1, <2>3, <2>4
<1>7. ASSUME NEW next \in {"fill", "sync"}, AnchorNow'[p] = IF next = "fill" THEN Torn ELSE old,
             AnchorNow'[Current] = old, todo' = <<AnchorFile(next, p, old, TRUE)>> \o rest
      PROVE  TrustInv'
  <2>1. todo' = <<AnchorFile(next, p, old, TRUE), AnchorFile("replace", Current, new, TRUE)>>
    BY <1>2, <1>7, Rests
  <2>2. RotationCopies' /\ todo' # <<>> /\ todo'[1] = AnchorFile(next, p, old, TRUE)
    <3>1. RotationCopies'
      BY <1>3, <1>5, <1>7, <2>1 DEF RotationCopies, Making
    <3> QED
      BY <2>1, <3>1, Rests
  <2>3. Ready(AnchorFile(next, p, old, TRUE))'
    BY <1>7, ReadyAnchor
  <2> QED
    BY <1>5, <2>2, <2>3 DEF TrustInv, Planned
<1>8. ASSUME NEW content, AnchorNow' = [AnchorNow EXCEPT ![p] = content]
      PROVE  AnchorNow'[p] = content /\ AnchorNow'[Current] = old
  BY <1>1, <1>3, <1>8, Lasts, PathsApart DEF TrustInv
<1>9. CASE AnchorNow' = [AnchorNow EXCEPT ![p] = Torn] /\ todo' = <<AnchorFile("fill", p, old, TRUE)>> \o rest
  BY <1>7, <1>8, <1>9
<1>10. CASE AnchorNow' = [AnchorNow EXCEPT ![p] = old] /\ todo' = <<AnchorFile("sync", p, old, TRUE)>> \o rest
  BY <1>7, <1>8, <1>10
<1>11. CASE AnchorNow' = AnchorNow /\ AnchorNow[p] = old /\ todo' = rest
  <2>1. PICK s \in BOOLEAN : s = TRUE
    OBVIOUS
  <2>2. todo' = <<AnchorFile("replace", Current, new, s)>> /\ AnchorNow'[p] = AnchorNow'[Current]
    BY <1>1, <1>2, <1>3, <1>11, <2>1
  <2>3. p \in AnchorPaths \ {Current}
    BY <1>3
  <2> QED
    BY <1>5, <2>2, <2>3, ReplaceNext
<1> QED
  BY <1>5, <1>6, <1>9, <1>10, <1>11, EmptyPlan

LEMMA RotationBeginsKeeps == ASSUME TrustInv, RotationBegins, Works PROVE TrustInv'
<1>1. PICK k \in SigningKeys, old \in Anchors, new \in Anchors, step \in Making :
        /\ todo = <<Key(step, k, TRUE), AnchorFile("create", Recovery(k), old, TRUE),
                    AnchorFile("replace", Current, new, TRUE)>>
        /\ AnchorNow[Current] = old /\ AnchorNow[Recovery(k)] = Absent
        /\ step = "sync" => KeyNow[k] = KeyFile(k)
  BY DEF RotationBegins
<1>2. PICK rest : rest = <<AnchorFile("create", Recovery(k), old, TRUE), AnchorFile("replace", Current, new, TRUE)>>
  OBVIOUS
<1>3. todo # <<>> /\ todo[1] = Key(step, k, TRUE) /\ Tail(todo) = rest
  <2>1. PICK x, y, z : /\ x = Key(step, k, TRUE) /\ y = AnchorFile("create", Recovery(k), old, TRUE)
                       /\ z = AnchorFile("replace", Current, new, TRUE)
    OBVIOUS
  <2>2. todo = <<x, y, z>> /\ rest = <<y, z>>
    BY <1>1, <1>2, <2>1
  <2>3. Tail(<<x, y, z>>) = rest /\ <<x, y, z>>[1] = x /\ <<x, y, z>> # <<>>
    BY <2>2, LongRest
  <2> QED
    BY <2>1, <2>2, <2>3
<1>4. TrustTypes' /\ AllKept' /\ AnchorNow' = AnchorNow
  BY <1>3, KeyStep
<1>5. \/ KeyNow'[k] = Torn /\ todo' = <<Key("fill", k, TRUE)>> \o rest
      \/ KeyNow'[k] = KeyFile(k) /\ todo' = <<Key("sync", k, TRUE)>> \o rest
      \/ todo' = <<>>
      \/ KeyDurable(k)' /\ todo' = rest
  <2>1. PICK s \in BOOLEAN : s = TRUE
    OBVIOUS
  <2>2. todo # <<>> /\ todo[1] = Key(step, k, s)
    BY <1>3, <2>1
  <2>3. \/ step = "create" /\ KeyNow'[k] = Torn /\ todo' = <<Key("fill", k, s)>> \o Tail(todo)
        \/ step = "fill" /\ s /\ KeyNow'[k] = KeyFile(k) /\ todo' = <<Key("sync", k, s)>> \o Tail(todo)
        \/ step = "fill" /\ ~s /\ todo' = Tail(todo)
        \/ step = "fill" /\ todo' = <<>>
        \/ step = "sync" /\ todo' = Tail(todo) /\ (KeyNow[k] = KeyFile(k) => KeyDurable(k)')
    BY <2>2, KeyStep
  <2>4. step = "sync" => KeyNow[k] = KeyFile(k)
    BY <1>1
  <2> QED
    BY <1>3, <2>1, <2>3, <2>4
<1>6. ASSUME NEW next \in {"fill", "sync"}, KeyNow'[k] = IF next = "fill" THEN Torn ELSE KeyFile(k),
             todo' = <<Key(next, k, TRUE)>> \o rest
      PROVE  TrustInv'
  <2>1. todo' = <<Key(next, k, TRUE), AnchorFile("create", Recovery(k), old, TRUE),
                  AnchorFile("replace", Current, new, TRUE)>>
    <3>1. PICK x, y, z : /\ x = Key(next, k, TRUE) /\ y = AnchorFile("create", Recovery(k), old, TRUE)
                         /\ z = AnchorFile("replace", Current, new, TRUE)
      OBVIOUS
    <3>2. rest = <<y, z>> /\ todo' = <<x>> \o rest
      BY <1>2, <1>6, <3>1
    <3>3. todo' = <<x, y, z>>
      BY <3>2, LongRest
    <3> QED
      BY <3>1, <3>3
  <2>2. RotationBegins' /\ todo' # <<>> /\ todo'[1] = Key(next, k, TRUE)
    <3>1. RotationBegins'
      BY <1>1, <1>4, <1>6, <2>1 DEF RotationBegins, Making
    <3> QED
      BY <1>2, <2>1, <3>1, LongRest
  <2>3. Ready(Key(next, k, TRUE))'
    BY <1>6, ReadyKey
  <2> QED
    BY <1>4, <2>2, <2>3 DEF TrustInv, Planned
<1>7. CASE KeyNow'[k] = Torn /\ todo' = <<Key("fill", k, TRUE)>> \o rest
  BY <1>6, <1>7
<1>8. CASE KeyNow'[k] = KeyFile(k) /\ todo' = <<Key("sync", k, TRUE)>> \o rest
  BY <1>6, <1>8
<1>9. CASE KeyDurable(k)' /\ todo' = rest
  <2>1. RotationCopies' /\ todo' # <<>> /\ todo'[1] = AnchorFile("create", Recovery(k), old, TRUE)
    BY <1>1, <1>2, <1>4, <1>9, Rests DEF RotationCopies, Making
  <2>2. Ready(AnchorFile("create", Recovery(k), old, TRUE))'
    BY <1>1, <1>4, ReadyAnchor
  <2> QED
    BY <1>4, <2>1, <2>2 DEF TrustInv, Planned
<1> QED
  BY <1>4, <1>5, <1>7, <1>8, <1>9, EmptyPlan

-----------------------------------------------------------------------------
\* An operation begins with files as its first write expects them.
LEMMA OperationBegins ==
  ASSUME TrustInv, NEW k \in SigningKeys,
         \/ \E gui \in BOOLEAN : GenerateKey(k, gui)
         \/ ExportAnchor(k) \/ RefreshAnchor(k) \/ RefreshInGui(k) \/ RotateKey(k)
  PROVE  TrustInv'
<1>1. TrustTypes /\ AllKept /\ UNCHANGED <<tip, keyDir, anchorDir>>
  BY DEF TrustInv, GenerateKey, ExportAnchor, RefreshAnchor, RefreshInGui, RotateKey, Run
<1>2. TrustTypes' /\ AllKept'
  BY <1>1 DEF TrustTypes, AllKept, UsedKept, CopiesAfterKeys, KeyDurable
<1>3. KeyNow' = KeyNow /\ AnchorNow' = AnchorNow
  BY <1>1 DEF KeyNow, AnchorNow
<1>4. PICK a \in Anchors : a = Anchor(k, tip)
  BY <1>1 DEF Anchors, TrustTypes
<1>5. ASSUME NEW gui \in BOOLEAN, GenerateKey(k, gui) PROVE TrustInv'
  <2>1. todo' = <<Key("create", k, ~gui)>> /\ KeyNow[k] = Absent
    BY <1>5 DEF GenerateKey, Run
  <2>2. KeyPlan' /\ todo' # <<>> /\ todo'[1] = Key("create", k, ~gui)
    BY <2>1, Rests DEF KeyPlan, Making
  <2>3. Ready(Key("create", k, ~gui))'
    BY <1>3, <2>1, ReadyKey
  <2> QED
    BY <1>2, <2>2, <2>3 DEF TrustInv, Planned
<1>6. ASSUME NEW step \in {"create", "refresh", "replace"}, NEW s \in BOOLEAN,
             todo' = <<AnchorFile(step, Current, a, s)>>,
             step = "create" => AnchorNow[Current] = Absent, step = "replace" => Replaceable(a)
      PROVE  TrustInv'
  <2>1. AnchorPlan' /\ todo' # <<>> /\ todo'[1] = AnchorFile(step, Current, a, s)
    BY <1>3, <1>6, Rests DEF AnchorPlan, Making, Replaceable
  <2>2. Ready(AnchorFile(step, Current, a, s))'
    BY <1>3, <1>6, ReadyAnchor
  <2> QED
    BY <1>2, <2>1, <2>2 DEF TrustInv, Planned
<1>7. CASE ExportAnchor(k)
  <2>1. todo' = <<AnchorFile("create", Current, a, TRUE)>> /\ AnchorNow[Current] = Absent
    BY <1>4, <1>7 DEF ExportAnchor, Run
  <2> QED
    BY <1>6, <2>1
<1>8. CASE RefreshAnchor(k)
  <2>1. todo' = <<AnchorFile("refresh", Current, a, TRUE)>>
    BY <1>4, <1>8 DEF RefreshAnchor, Run
  <2> QED
    BY <1>6, <2>1
<1>9. CASE RefreshInGui(k)
  <2>1. PICK old : old = AnchorNow[Current]
    OBVIOUS
  <2>2. old \in {Absent} \cup Anchors
    BY <2>1, <1>1, <1>9, Lasts, PathsApart DEF RefreshInGui, AnchorContents
  <2>3. CASE old \in {Absent, a} \/ AnchorNow[Previous(old)] = old
    <3>1. todo' = <<AnchorFile("replace", Current, a, FALSE)>>
      BY <1>4, <1>9, <2>1, <2>3 DEF RefreshInGui, Run
    <3>2. Replaceable(a)
      BY <2>1, <2>3, PathsApart, ContentsApart DEF Replaceable
    <3> QED
      BY <1>6, <3>1, <3>2
  <2>4. CASE ~(old \in {Absent, a} \/ AnchorNow[Previous(old)] = old)
    <3>1. /\ todo' = <<AnchorFile("create", Previous(old), old, FALSE), AnchorFile("replace", Current, a, FALSE)>>
          /\ AnchorNow[Previous(old)] = Absent
      BY <1>4, <1>9, <2>1, <2>4 DEF RefreshInGui, Run
    <3>2. GuiPlan' /\ todo' # <<>> /\ todo'[1] = AnchorFile("create", Previous(old), old, FALSE)
      BY <1>3, <2>1, <2>2, <2>4, <3>1, Rests DEF GuiPlan, Making
    <3>3. Ready(AnchorFile("create", Previous(old), old, FALSE))'
      BY <1>3, <3>1, ReadyAnchor
    <3> QED
      BY <1>2, <3>2, <3>3 DEF TrustInv, Planned
  <2> QED
    BY <2>3, <2>4
<1>10. CASE RotateKey(k)
  <2>1. PICK old \in Anchors : old = AnchorNow[Current]
    BY <1>1, <1>10 DEF RotateKey, Anchors, TrustTypes
  <2>2. /\ todo' = <<Key("create", k, TRUE), AnchorFile("create", Recovery(k), old, TRUE),
                     AnchorFile("replace", Current, a, TRUE)>>
        /\ KeyNow[k] = Absent /\ AnchorNow[Recovery(k)] = Absent
    BY <1>4, <1>10, <2>1 DEF RotateKey, Run
  <2>3. RotationBegins' /\ todo' # <<>> /\ todo'[1] = Key("create", k, TRUE)
    BY <1>3, <2>1, <2>2, Rests DEF RotationBegins, Making
  <2>4. Ready(Key("create", k, TRUE))'
    BY <1>3, <2>2, ReadyKey
  <2> QED
    BY <1>2, <2>3, <2>4 DEF TrustInv, Planned
<1> QED
  BY <1>5, <1>7, <1>8, <1>9, <1>10

LEMMA TrustInvNext == TrustInv /\ [TrustFilesNext]_trustVars => TrustInv'
<1> SUFFICES ASSUME TrustInv, [TrustFilesNext]_trustVars PROVE TrustInv'
  OBVIOUS
<1>1. CASE Works
  <2>1. todo # <<>>
    BY <1>1 DEF Works, Create, Fill, FillFails, Replace, Sync
  <2> QED
    BY <1>1, <2>1, KeyPlanKeeps, AnchorPlanKeeps, GuiPlanKeeps, RotationBeginsKeeps, RotationCopiesKeeps
    DEF TrustInv, Planned
<1>2. CASE StopWriting \/ WriteBack \/ LoseFiles
  <2>1. TrustTypes /\ AllKept /\ tip' = tip /\ todo' = <<>>
    BY <1>2 DEF TrustInv, StopWriting, WriteBack, LoseFiles
  <2>2. /\ keyDir' = keyDir \/ \E i \in DOMAIN keyDir : keyDir' = <<keyDir[i]>>
        /\ anchorDir' = anchorDir \/ \E i \in DOMAIN anchorDir : anchorDir' = <<anchorDir[i]>>
    BY <1>2, <2>1, Lasts DEF StopWriting, WriteBack, LoseFiles, KeyNow
  <2>3. TrustTypes' /\ AllKept'
    BY <2>1, <2>2, Settle DEF TrustTypes
  <2> QED
    BY <2>1, <2>3, EmptyPlan
<1>3. CASE Grow \/ UNCHANGED trustVars
  <2>1. TrustTypes /\ AllKept /\ UNCHANGED <<keyDir, anchorDir, todo>> /\ tip' \in 1..MaxHead
    BY <1>3, TrustAssumption DEF TrustInv, TrustTypes, Grow, trustVars
  <2>2. KeyNow' = KeyNow /\ AnchorNow' = AnchorNow
    BY <2>1 DEF KeyNow, AnchorNow
  <2>3. TrustTypes' /\ AllKept'
    BY <2>1 DEF TrustTypes, AllKept, UsedKept, CopiesAfterKeys, KeyDurable
  <2>4. Planned'
    BY <2>1, <2>2 DEF TrustInv, Planned, KeyPlan, AnchorPlan, GuiPlan, RotationBegins, RotationCopies,
       Ready, FileOf, Replaceable, KeyDurable
  <2> QED
    BY <2>3, <2>4 DEF TrustInv
<1>4. CASE \E k \in SigningKeys :
             \/ \E gui \in BOOLEAN : GenerateKey(k, gui)
             \/ ExportAnchor(k) \/ RefreshAnchor(k) \/ RefreshInGui(k) \/ RotateKey(k)
  BY <1>4, OperationBegins
<1> QED
  BY <1>1, <1>2, <1>3, <1>4 DEF TrustFilesNext, Works

LEMMA TrustInvRetains == TrustInv => AnchorsRetained
<1> SUFFICES ASSUME TrustInv PROVE AnchorsRetained
  OBVIOUS
<1>1. /\ UsedKept(anchorDir[Len(anchorDir)]) /\ CopiesAfterKeys(anchorDir[Len(anchorDir)])
      /\ Len(keyDir) \in DOMAIN keyDir
  BY Lasts DEF TrustInv, AllKept
<1> QED
  BY <1>1 DEF AnchorsRetained, UsedKept, CopiesAfterKeys, KeyDurable, InUse, AnchorNow, KeyNow

\* Whatever operation on keys and anchors is killed and whenever the power
\* fails, for any number of keys, heads, operations and failures: an anchor that
\* was in use stays whole, and a rotation installs none whose key may be gone
\* (trust.rs).  A replacement is made only when the anchor has a copy, and a
\* copy of a rotation only when the new key is durable; both hold of everything
\* a loss of power may leave of the two directories.
THEOREM AnchorsAreRetained == TrustFilesSpec => []AnchorsRetained
  BY TrustInvInit, TrustInvNext, TrustInvRetains, PTL DEF TrustFilesSpec

Counted == ops \in 0..MaxTrustOps /\ crashes \in 0..MaxCrashes
LEMMA CountedNext == Counted /\ [TrustFilesNext]_trustVars => Counted'
<1> SUFFICES ASSUME Counted, [TrustFilesNext]_trustVars PROVE Counted'
  OBVIOUS
<1>1. CASE UNCHANGED <<ops, crashes>>
  BY <1>1 DEF Counted
<1>2. CASE ops < MaxTrustOps /\ ops' = ops + 1 /\ UNCHANGED crashes
  BY <1>2, TrustAssumption DEF Counted
<1>3. CASE LoseFiles
  BY <1>3, TrustAssumption DEF LoseFiles, Counted
<1> QED
  BY <1>1, <1>2, <1>3 DEF TrustFilesNext, GenerateKey, ExportAnchor, RefreshAnchor, RefreshInGui, RotateKey,
     Run, Create, Fill, FillFails, Replace, Sync, StopWriting, WriteBack, Grow, trustVars

\* The head, the keys, the anchors and the counters keep their types.
THEOREM TrustTypesHold == TrustFilesSpec => []TrustTypeOK
<1>1. TrustInit => Counted
  BY TrustAssumption DEF TrustInit, Counted
<1>2. TrustInv /\ Counted => TrustTypeOK
  <2> SUFFICES ASSUME TrustInv, Counted PROVE TrustTypeOK
    OBVIOUS
  <2>1. \A i \in DOMAIN keyDir : keyDir[i] \in KeyDirs
    BY DEF TrustInv, TrustTypes
  <2>2. \A i \in DOMAIN anchorDir : anchorDir[i] \in AnchorDirs
    BY DEF TrustInv, TrustTypes
  <2>3. \A i \in DOMAIN anchorDir :
          anchorDir[i].files \in [AnchorPaths -> AnchorContents] /\ anchorDir[i].used \subseteq Anchors
    BY <2>2 DEF AnchorDirs
  <2> QED
    BY <2>1, <2>3 DEF TrustInv, TrustTypes, Counted, TrustTypeOK, KeyDirs, KeyContents, AnchorContents
<1> QED
  BY <1>1, <1>2, CountedNext, TrustInvInit, TrustInvNext, PTL DEF TrustFilesSpec

-----------------------------------------------------------------------------
LEMMA LeastNumber ==
  ASSUME NEW T \in SUBSET Nat, T # {}
  PROVE  \E x \in T : \A y \in T : x <= y
<1>1. PICK x \in T : \A y \in T : ~ (<<y, x>> \in OpToRel(<, Nat))
  BY NatLessThanWellFounded, WFMin
<1>2. \A y \in T : ~ (y < x)
  BY <1>1 DEF OpToRel
<1> QED
  BY <1>2

LEMMA NumbersOfRange == ASSUME NEW a, NEW b, NEW z \in a .. b PROVE z \in Int
OBVIOUS

(* What the numbers w[x] count, one by one. *)
Units(w, s) == {u \in s \X Nat : 1 <= u[2] /\ u[2] <= w[u[1]]}

LEMMA UnitsOfNone == ASSUME NEW w PROVE Cardinality(Units(w, {})) = 0
<1>1. Units(w, {}) = {}
  BY DEF Units
<1> QED
  BY <1>1, FS_EmptySet

LEMMA UnitsAre ==
  ASSUME NEW S, IsFiniteSet(S), NEW M \in Nat, NEW w \in [S -> 0 .. M]
  PROVE  \A s \in SUBSET S : IsFiniteSet(Units(w, s)) /\ Cardinality(Units(w, s)) \in Nat
<1> SUFFICES ASSUME NEW s \in SUBSET S PROVE IsFiniteSet(Units(w, s)) /\ Cardinality(Units(w, s)) \in Nat
  OBVIOUS
<1>1. IsFiniteSet(s) /\ IsFiniteSet(1 .. M)
  BY FS_Subset, FS_Interval
<1>2. IsFiniteSet(s \X (1 .. M))
  BY <1>1, FS_Product
<1>3. Units(w, s) \subseteq s \X (1 .. M)
  <2> SUFFICES ASSUME NEW u \in Units(w, s) PROVE u \in s \X (1 .. M)
    OBVIOUS
  <2>1. u = <<u[1], u[2]>> /\ u[1] \in s /\ u[2] \in Nat /\ 1 <= u[2] /\ u[2] <= w[u[1]]
    BY DEF Units
  <2>2. w[u[1]] \in 0 .. M
    BY <2>1
  <2>3. u[2] \in 1 .. M
    BY <2>1, <2>2
  <2> QED
    BY <2>1, <2>3
<1>4. IsFiniteSet(Units(w, s))
  BY <1>2, <1>3, FS_Subset
<1> QED
  BY <1>4, FS_CardinalityType

LEMMA UnitsOfOne ==
  ASSUME NEW o, NEW n \in Nat
  PROVE  IsFiniteSet({o} \X (1 .. n)) /\ Cardinality({o} \X (1 .. n)) = n
<1>1. IsFiniteSet({o}) /\ Cardinality({o}) = 1
  BY FS_Singleton
<1>2. IsFiniteSet(1 .. n) /\ Cardinality(1 .. n) = n
  BY FS_Interval
<1>3. IsFiniteSet({o} \X (1 .. n)) /\ Cardinality({o} \X (1 .. n)) = Cardinality({o}) * Cardinality(1 .. n)
  BY <1>1, <1>2, FS_Product
<1> QED
  BY <1>1, <1>2, <1>3

LEMMA UnitsApart ==
  ASSUME NEW S, IsFiniteSet(S), NEW M \in Nat, NEW w \in [S -> 0 .. M], NEW s \in SUBSET S, NEW o \in s
  PROVE  Cardinality(Units(w, s)) = w[o] + Cardinality(Units(w, s \ {o}))
<1> DEFINE A == {o} \X (1 .. w[o])
           B == Units(w, s \ {o})
<1>1. w[o] \in Nat
  OBVIOUS
<1>2. IsFiniteSet(A) /\ Cardinality(A) = w[o]
  BY <1>1, UnitsOfOne
<1>3. s \ {o} \in SUBSET S
  OBVIOUS
<1>4. IsFiniteSet(B) /\ Cardinality(B) \in Nat
  BY <1>3, UnitsAre
<1>5. Units(w, s) = A \cup B
  <2>1. ASSUME NEW u \in Units(w, s) PROVE u \in A \cup B
    <3>1. u = <<u[1], u[2]>> /\ u[1] \in s /\ u[2] \in Nat /\ 1 <= u[2] /\ u[2] <= w[u[1]]
      BY DEF Units
    <3>2. CASE u[1] = o
      BY <1>1, <3>1, <3>2
    <3>3. CASE u[1] # o
      <4>1. <<u[1], u[2]>> \in (s \ {o}) \X Nat
        BY <3>1, <3>3
      <4> QED
        BY <3>1, <4>1 DEF Units
    <3> QED
      BY <3>2, <3>3
  <2>2. ASSUME NEW u \in A PROVE u \in Units(w, s)
    <3>1. u = <<o, u[2]>> /\ u[1] = o /\ u[2] \in 1 .. w[o]
      OBVIOUS
    <3>2. u \in s \X Nat
      BY <1>1, <3>1
    <3> QED
      BY <1>1, <3>1, <3>2 DEF Units
  <2>3. B \subseteq Units(w, s)
    BY DEF Units
  <2> QED
    BY <2>1, <2>2, <2>3
<1>6. A \cap B = {}
  BY DEF Units
<1> HIDE DEF A, B
<1>7. Cardinality(A \cup B) = Cardinality(A) + Cardinality(B) - Cardinality({})
  BY <1>2, <1>4, <1>6, FS_Union
<1> QED
  BY <1>1, <1>2, <1>4, <1>5, <1>7, FS_EmptySet DEF B

(* The fold counts them. *)
LEMMA SumIs ==
  ASSUME NEW S, IsFiniteSet(S), NEW M \in Nat, NEW w \in [S -> 0 .. M]
  PROVE  SumFunction(w) = Cardinality(Units(w, S))
<1> DEFINE Body(f) == [s \in SUBSET S |-> IF s = {} THEN 0
                                          ELSE w[CHOOSE x \in s : TRUE] + f[s \ {CHOOSE x \in s : TRUE}]]
           Fold == CHOOSE Fold : Fold = Body(Fold)
           G == [s \in SUBSET S |-> Cardinality(Units(w, s))]
<1>1. SumFunction(w) = Fold[S]
  BY DEF SumFunction, SumFunctionOnSet, FoldFunctionOnSet, MapThenFoldSet
<1>2. ASSUME NEW s \in SUBSET S, s # {}
      PROVE  /\ (CHOOSE x \in s : TRUE) \in s
             /\ Cardinality(Units(w, s))
                  = w[CHOOSE x \in s : TRUE] + Cardinality(Units(w, s \ {CHOOSE x \in s : TRUE}))
  <2>1. (CHOOSE x \in s : TRUE) \in s
    BY <1>2
  <2>2. \A x \in s : Cardinality(Units(w, s)) = w[x] + Cardinality(Units(w, s \ {x}))
    BY UnitsApart
  <2> QED
    BY <2>1, <2>2
<1>3. G = Body(G)
  <2>1. ASSUME NEW s \in SUBSET S
        PROVE  G[s] = IF s = {} THEN 0 ELSE w[CHOOSE x \in s : TRUE] + G[s \ {CHOOSE x \in s : TRUE}]
    <3>1. CASE s = {}
      BY <3>1, UnitsOfNone
    <3>2. CASE s # {}
      BY <1>2, <3>2
    <3> QED
      BY <3>1, <3>2
  <2> QED
    BY <2>1
<1>4. Fold = Body(Fold)
  <2> HIDE DEF G, Body
  <2> QED
    BY <1>3
<1> HIDE DEF Fold
<1>5. ASSUME NEW s \in SUBSET S, s # {}
      PROVE  \E x \in s : Fold[s] = w[x] + Fold[s \ {x}] /\ G[s] = w[x] + G[s \ {x}]
  <2>1. Fold[s] = w[CHOOSE x \in s : TRUE] + Fold[s \ {CHOOSE x \in s : TRUE}]
    BY <1>4, <1>5
  <2>2. G[s] = w[CHOOSE x \in s : TRUE] + G[s \ {CHOOSE x \in s : TRUE}]
    BY <1>2, <1>5
  <2> QED
    BY <1>2, <1>5, <2>1, <2>2
<1>6. Fold[{}] = 0 /\ G[{}] = 0
  BY <1>4, UnitsOfNone
<1> HIDE DEF G
<1>7. \A s \in SUBSET S : Fold[s] = G[s]
  <2> DEFINE Wrong == {s \in SUBSET S : Fold[s] # G[s]}
             Sizes == {Cardinality(s) : s \in Wrong}
  <2>1. \A s \in SUBSET S : IsFiniteSet(s) /\ Cardinality(s) \in Nat
    BY FS_Subset, FS_CardinalityType
  <2>2. SUFFICES ASSUME Wrong # {} PROVE FALSE
    OBVIOUS
  <2>3. Sizes \in SUBSET Nat /\ Sizes # {}
    BY <2>1, <2>2
  <2>4. PICK n \in Sizes : \A m \in Sizes : n <= m
    <3> HIDE DEF Sizes
    <3> QED
      BY <2>3, LeastNumber
  <2>5. PICK s \in Wrong : n = Cardinality(s)
    BY <2>4
  <2>6. s # {}
    BY <1>6, <2>5
  <2>7. PICK x \in s : Fold[s] = w[x] + Fold[s \ {x}] /\ G[s] = w[x] + G[s \ {x}]
    BY <1>5, <2>5, <2>6
  <2>8. s \ {x} \in SUBSET S /\ s \ {x} \notin Wrong
    <3>1. IsFiniteSet(s) /\ Cardinality(s \ {x}) = Cardinality(s) - 1 /\ Cardinality(s) \in Nat
      BY <2>1, <2>5, <2>7, FS_RemoveElement
    <3>2. s \ {x} \in Wrong => Cardinality(s \ {x}) \in Sizes
      OBVIOUS
    <3> QED
      BY <2>4, <2>5, <3>1, <3>2
  <2> QED
    BY <2>5, <2>7, <2>8
<1> QED
  BY <1>1, <1>7 DEF G

(* One number changes, and the sum by as much. *)
LEMMA SumChanges ==
  ASSUME NEW S, IsFiniteSet(S), NEW M \in Nat, NEW w \in [S -> 0 .. M], NEW v \in [S -> 0 .. M],
         NEW o \in S, \A x \in S \ {o} : v[x] = w[x]
  PROVE  /\ SumFunction(w) \in Nat /\ SumFunction(v) \in Nat
         /\ SumFunction(v) - v[o] = SumFunction(w) - w[o]
<1>1. /\ SumFunction(w) = w[o] + Cardinality(Units(w, S \ {o}))
      /\ SumFunction(v) = v[o] + Cardinality(Units(v, S \ {o}))
  BY SumIs, UnitsApart
<1>2. Units(v, S \ {o}) = Units(w, S \ {o})
  BY DEF Units
<1>3. Cardinality(Units(w, S \ {o})) \in Nat
  BY UnitsAre
<1>4. v[o] \in Nat /\ w[o] \in Nat
  OBVIOUS
<1> QED
  BY <1>1, <1>2, <1>3, <1>4

-----------------------------------------------------------------------------
OpStates == [at : Waits, attempt : Int, known : BOOLEAN, reserved : 0 .. MaxResponse, received : 0 .. MaxResponse,
             owing : Nat, due : Int, began : Nat]
(* An operation reserves bytes only while a body is open, and receives no more. *)
WithinReserve(x) ==
  /\ x.received <= x.reserved
  /\ x.at \notin {"body", "throttle"} => x.reserved = 0
Unspent == [o \in Op |-> op[o].reserved - op[o].received]

ClientTypes ==
  /\ time \in Nat /\ spent \in Nat /\ arrived \in Nat /\ paid \in Nat /\ opened \in Nat
  /\ op \in [Op -> OpStates]
  /\ limiter \in [credit : Nat, refilled : Nat, holder : Op \cup {Nobody}]
  /\ circuit \in [failures : Nat, until : Nat]
(* What was let through was credited, and credit is what time has brought. *)
Credited == paid * Ticks + limiter.credit <= Rate * limiter.refilled /\ limiter.refilled <= time
ClientInv ==
  /\ ClientTypes /\ Credited /\ BudgetCoversArrivals /\ OpenCircuitAdmitsNone
  /\ \A o \in Op : WithinReserve(op[o]) /\ op[o].began <= time

LEMMA ClientNumbers ==
  /\ Slots \in Nat /\ Budget \in Nat /\ MaxResponse \in Nat /\ Rate \in Nat /\ Ticks \in Nat /\ OpenFor \in Nat
  /\ Rate > 0 /\ Ticks > 0 /\ IsFiniteSet(Op)
BY ClientAssumption

LEMMA UnspentIs ==
  ASSUME ClientTypes, \A o \in Op : WithinReserve(op[o])
  PROVE  Unspent \in [Op -> 0 .. MaxResponse]
<1> SUFFICES ASSUME NEW o \in Op PROVE op[o].reserved - op[o].received \in 0 .. MaxResponse
  BY DEF Unspent
<1>1. op[o].reserved \in 0 .. MaxResponse /\ op[o].received \in 0 .. MaxResponse /\ op[o].received <= op[o].reserved
  BY DEF ClientTypes, OpStates, WithinReserve
<1> QED
  BY <1>1, ClientNumbers

(* One operation moves: the budget still covers what arrived when the counter
   and the bytes change by as much as what this operation may still bring. *)
LEMMA BudgetMoves ==
  ASSUME ClientInv, NEW o \in Op, NEW x \in OpStates, WithinReserve(x), op' = [op EXCEPT ![o] = x],
         spent' \in Nat, spent' <= Budget, arrived' \in Nat,
         spent' - arrived' = spent - arrived + (x.reserved - x.received) - (op[o].reserved - op[o].received)
  PROVE  BudgetCoversArrivals'
<1> DEFINE w == Unspent
           v == [p \in Op |-> op'[p].reserved - op'[p].received]
<1>1. w \in [Op -> 0 .. MaxResponse]
  BY UnspentIs DEF ClientInv
<1>2. op \in [Op -> OpStates] /\ op'[o] = x /\ \A p \in Op \ {o} : op'[p] = op[p]
  BY DEF ClientInv, ClientTypes
<1>3. x.reserved - x.received \in 0 .. MaxResponse
  BY ClientNumbers DEF OpStates, WithinReserve
<1>4. v[o] = x.reserved - x.received /\ w[o] = op[o].reserved - op[o].received /\ \A p \in Op \ {o} : v[p] = w[p]
  BY <1>2 DEF Unspent
<1>5. v \in [Op -> 0 .. MaxResponse]
  <2> SUFFICES ASSUME NEW p \in Op PROVE v[p] \in 0 .. MaxResponse
    OBVIOUS
  <2>1. w[p] \in 0 .. MaxResponse
    BY <1>1
  <2> QED
    BY <1>3, <1>4, <2>1
<1>6. spent = arrived + SumFunction(w)
  BY DEF ClientInv, BudgetCoversArrivals, Unspent
<1> HIDE DEF v, w
<1>7. /\ SumFunction(w) \in Nat /\ SumFunction(v) \in Nat
      /\ SumFunction(v) - v[o] = SumFunction(w) - w[o]
  BY <1>1, <1>4, <1>5, ClientNumbers, SumChanges
<1>8. spent' = arrived' + SumFunction(v)
  <2>1. v[o] \in Nat /\ w[o] \in Nat /\ spent \in Nat /\ arrived \in Nat
    <3>1. v[o] \in 0 .. MaxResponse /\ w[o] \in 0 .. MaxResponse
      BY <1>1, <1>5
    <3>2. spent \in Nat /\ arrived \in Nat
      BY DEF ClientInv, ClientTypes
    <3> QED
      BY <3>1, <3>2, ClientNumbers
  <2>2. spent' - arrived' = spent - arrived + v[o] - w[o]
    BY <1>4
  <2> QED
    BY <1>6, <1>7, <2>1, <2>2
<1> QED
  BY <1>8 DEF BudgetCoversArrivals, v

LEMMA FreshIs == Fresh \in OpStates /\ WithinReserve(Fresh) /\ Fresh.reserved = 0 /\ Fresh.received = 0
BY ClientNumbers DEF Fresh, OpStates, WithinReserve, Waits

LEMMA ClientStarts == ClientInit => ClientInv
<1> SUFFICES ASSUME ClientInit PROVE ClientInv
  OBVIOUS
<1>1. \A o \in Op : op[o] = Fresh
  BY DEF ClientInit
<1>2. ClientTypes /\ \A o \in Op : WithinReserve(op[o]) /\ op[o].began <= time
  BY <1>1, FreshIs DEF ClientInit, ClientTypes, Fresh
<1>3. Credited
  BY ClientNumbers DEF ClientInit, Credited
<1>4. OpenCircuitAdmitsNone
  BY DEF ClientInit, OpenCircuitAdmitsNone, IsOpen
<1>5. BudgetCoversArrivals
  <2>1. Unspent \in [Op -> 0 .. MaxResponse] /\ \A o \in Op : Unspent[o] = 0
    BY <1>1, <1>2, FreshIs, UnspentIs DEF Unspent
  <2>2. SumFunction(Unspent) = Cardinality(Units(Unspent, Op))
    BY <2>1, ClientNumbers, SumIs
  <2>3. Units(Unspent, Op) = {}
    BY <2>1 DEF Units
  <2>4. SumFunction(Unspent) = 0
    BY <2>2, <2>3, FS_EmptySet
  <2> QED
    BY <2>4, ClientNumbers DEF BudgetCoversArrivals, ClientInit, Unspent
<1> QED
  BY <1>2, <1>3, <1>4, <1>5 DEF ClientInv

LEMMA PassKeeps == ASSUME ClientInv, Pass PROVE ClientInv'
<1>1. /\ time' = time + 1 /\ op' = op /\ spent' = spent /\ limiter' = limiter /\ circuit' = circuit
      /\ arrived' = arrived /\ paid' = paid /\ opened' = opened
  BY DEF Pass
<1>2. time \in Nat /\ limiter.refilled \in Nat /\ circuit.until \in Nat /\ \A o \in Op : op[o].began \in Nat
  BY DEF ClientInv, ClientTypes, OpStates
<1>3. ClientTypes' /\ \A o \in Op : WithinReserve(op'[o]) /\ op'[o].began <= time'
  BY <1>1, <1>2 DEF ClientInv, ClientTypes
<1>4. Credited'
  BY <1>1, <1>2 DEF ClientInv, Credited
<1>5. BudgetCoversArrivals'
  BY <1>1 DEF ClientInv, BudgetCoversArrivals
<1>6. OpenCircuitAdmitsNone'
  <2>1. IsOpen' => IsOpen
    BY <1>1, <1>2 DEF IsOpen
  <2> QED
    BY <1>1, <2>1 DEF ClientInv, OpenCircuitAdmitsNone
<1> QED
  BY <1>3, <1>4, <1>5, <1>6 DEF ClientInv

(* An operation moves without the breaker: it is over or began when it did. *)
LEMMA AdmissionKept ==
  ASSUME ClientInv, NEW o \in Op, NEW x, op' = [op EXCEPT ![o] = x],
         time' = time, circuit' = circuit, opened' = opened,
         o \in Dumps \/ x.at = "done" \/ (op[o].at \notin {"new", "done"} /\ x.began = op[o].began)
  PROVE  OpenCircuitAdmitsNone'
<1>1. op \in [Op -> OpStates] /\ op'[o] = x /\ \A p \in Op \ {o} : op'[p] = op[p]
  BY DEF ClientInv, ClientTypes
<1>2. IsOpen' => IsOpen
  BY DEF IsOpen
<1> QED
  BY <1>1, <1>2 DEF ClientInv, OpenCircuitAdmitsNone

(* What a step of one operation leaves to show. *)
LEMMA OperationMoves ==
  ASSUME ClientInv, NEW o \in Op, NEW x \in OpStates, WithinReserve(x), x.began <= time,
         op' = [op EXCEPT ![o] = x], time' = time,
         spent' \in Nat, arrived' \in Nat, paid' \in Nat, opened' \in Nat,
         limiter' \in [credit : Nat, refilled : Nat, holder : Op \cup {Nobody}],
         circuit' \in [failures : Nat, until : Nat],
         Credited', BudgetCoversArrivals', OpenCircuitAdmitsNone'
  PROVE  ClientInv'
<1>1. op \in [Op -> OpStates] /\ op'[o] = x /\ \A p \in Op \ {o} : op'[p] = op[p]
  BY DEF ClientInv, ClientTypes
<1>2. op' \in [Op -> OpStates]
  BY <1>1
<1>3. ClientTypes'
  BY <1>2 DEF ClientInv, ClientTypes
<1>4. \A p \in Op : WithinReserve(op'[p]) /\ op'[p].began <= time'
  BY <1>1 DEF ClientInv
<1> QED
  BY <1>3, <1>4 DEF ClientInv

(* Where an operation is, in plain facts. *)
LEMMA OperationIs ==
  ASSUME ClientInv, NEW o \in Op
  PROVE  /\ op[o] \in OpStates /\ WithinReserve(op[o]) /\ op[o].began <= time /\ op \in [Op -> OpStates]
         /\ op[o].reserved \in Nat /\ op[o].received \in Nat /\ op[o].reserved <= MaxResponse
         /\ op[o].received <= op[o].reserved /\ op[o].owing \in Nat /\ op[o].began \in Nat
         /\ time \in Nat /\ spent \in Nat /\ arrived \in Nat /\ paid \in Nat /\ opened \in Nat /\ spent <= Budget
         /\ limiter \in [credit : Nat, refilled : Nat, holder : Op \cup {Nobody}]
         /\ circuit \in [failures : Nat, until : Nat]
         /\ Unused(o) = op[o].reserved - op[o].received
<1>1. op \in [Op -> OpStates] /\ op[o] \in OpStates /\ WithinReserve(op[o]) /\ op[o].began <= time
  BY DEF ClientInv, ClientTypes
<1>2. /\ op[o].reserved \in 0 .. MaxResponse /\ op[o].received \in 0 .. MaxResponse
      /\ op[o].owing \in Nat /\ op[o].began \in Nat /\ op[o].received <= op[o].reserved
  BY <1>1 DEF OpStates, WithinReserve
<1>3. Unused(o) = op[o].reserved - op[o].received
  BY <1>2, ClientNumbers DEF Unused, Greater
<1> QED
  BY <1>1, <1>2, <1>3, ClientNumbers DEF ClientInv, ClientTypes, BudgetCoversArrivals

(* What is unused is part of what is spent. *)
LEMMA UnusedWasSpent == ASSUME ClientInv, NEW o \in Op PROVE spent - Unused(o) \in Nat
<1> DEFINE w == Unspent
           v == [w EXCEPT ![o] = 0]
<1>1. w \in [Op -> 0 .. MaxResponse] /\ w[o] = Unused(o)
  BY UnspentIs, OperationIs DEF ClientInv, Unspent
<1>2. spent = arrived + SumFunction(w)
  BY DEF ClientInv, BudgetCoversArrivals, Unspent
<1> HIDE DEF w
<1>3. v \in [Op -> 0 .. MaxResponse] /\ v[o] = 0 /\ \A p \in Op \ {o} : v[p] = w[p]
  BY <1>1, ClientNumbers
<1> HIDE DEF v
<1>4. SumFunction(w) \in Nat /\ SumFunction(v) \in Nat /\ SumFunction(v) - v[o] = SumFunction(w) - w[o]
  BY <1>1, <1>3, ClientNumbers, SumChanges
<1>5. w[o] \in Nat /\ arrived \in Nat
  BY <1>1, OperationIs, ClientNumbers
<1> QED
  BY <1>1, <1>2, <1>3, <1>4, <1>5

(* A step that touches neither the budget nor the limiter. *)
LEMMA WaitingMoves ==
  ASSUME ClientInv, NEW o \in Op, NEW x \in OpStates, op' = [op EXCEPT ![o] = x], WithinReserve(x), x.began <= time,
         x.reserved = op[o].reserved, x.received = op[o].received,
         time' = time, spent' = spent, limiter' = limiter, arrived' = arrived, paid' = paid, opened' = opened,
         circuit' \in [failures : Nat, until : Nat], OpenCircuitAdmitsNone'
  PROVE  ClientInv'
<1>1. Credited'
  BY DEF ClientInv, Credited
<1>2. BudgetCoversArrivals'
  <2>1. spent' \in Nat /\ spent' <= Budget /\ arrived' \in Nat
    BY OperationIs
  <2>2. spent' - arrived' = spent - arrived + (x.reserved - x.received) - (op[o].reserved - op[o].received)
    BY OperationIs
  <2> QED
    BY <2>1, <2>2, BudgetMoves
<1>3. /\ spent' \in Nat /\ arrived' \in Nat /\ paid' \in Nat /\ opened' \in Nat
      /\ limiter' \in [credit : Nat, refilled : Nat, holder : Op \cup {Nobody}]
  BY OperationIs
<1> QED
  BY <1>1, <1>2, <1>3, OperationMoves

(* Fields that are assigned together; the others stay. *)
Moved(r, a) == [r EXCEPT !.at = a]
Begun(r, a, n, b) == [r EXCEPT !.at = a, !.attempt = n, !.began = b]
Retried(r, a, n, d) == [r EXCEPT !.at = a, !.attempt = n, !.due = d]
Opened(r, a, k, m) == [r EXCEPT !.at = a, !.known = k, !.reserved = m]
Received(r, a, m, n) == [r EXCEPT !.at = a, !.received = m, !.owing = n]
Paid(r, a, n, d) == [r EXCEPT !.owing = n, !.due = d, !.at = a]
Due(r, d) == [r EXCEPT !.due = d]
Asleep(a, d, n, b) == [Fresh EXCEPT !.at = a, !.due = d, !.attempt = n, !.began = b]

LEMMA MovedTo ==
  ASSUME NEW r \in OpStates, NEW a \in Waits
  PROVE  /\ Moved(r, a) \in OpStates
         /\ Moved(r, a).at = a
         /\ Moved(r, a).reserved = r.reserved
         /\ Moved(r, a).received = r.received
         /\ Moved(r, a).began = r.began
<1>1. Moved(r, a) \in OpStates
  BY DEF OpStates, Moved
<1>2. /\ Moved(r, a).at = a
      /\ Moved(r, a).reserved = r.reserved
      /\ Moved(r, a).received = r.received
      /\ Moved(r, a).began = r.began
  BY DEF OpStates, Moved
<1> QED
  BY <1>1, <1>2

LEMMA BegunAs ==
  ASSUME NEW r \in OpStates, NEW a \in Waits, NEW n \in Int, NEW b \in Nat
  PROVE  /\ Begun(r, a, n, b) \in OpStates
         /\ Begun(r, a, n, b).at = a
         /\ Begun(r, a, n, b).reserved = r.reserved
         /\ Begun(r, a, n, b).received = r.received
         /\ Begun(r, a, n, b).began = b
<1>1. Begun(r, a, n, b) \in OpStates
  BY DEF OpStates, Begun
<1>2. /\ Begun(r, a, n, b).at = a
      /\ Begun(r, a, n, b).reserved = r.reserved
      /\ Begun(r, a, n, b).received = r.received
      /\ Begun(r, a, n, b).began = b
  BY DEF OpStates, Begun
<1> QED
  BY <1>1, <1>2

LEMMA RetriedAs ==
  ASSUME NEW r \in OpStates, NEW a \in Waits, NEW n \in Int, NEW d \in Int
  PROVE  /\ Retried(r, a, n, d) \in OpStates
         /\ Retried(r, a, n, d).at = a
         /\ Retried(r, a, n, d).reserved = r.reserved
         /\ Retried(r, a, n, d).received = r.received
         /\ Retried(r, a, n, d).began = r.began
<1>1. Retried(r, a, n, d) \in OpStates
  BY DEF OpStates, Retried
<1>2. /\ Retried(r, a, n, d).at = a
      /\ Retried(r, a, n, d).reserved = r.reserved
      /\ Retried(r, a, n, d).received = r.received
      /\ Retried(r, a, n, d).began = r.began
  BY DEF OpStates, Retried
<1> QED
  BY <1>1, <1>2

LEMMA OpenedAs ==
  ASSUME NEW r \in OpStates, NEW a \in Waits, NEW k \in BOOLEAN, NEW m \in 0 .. MaxResponse
  PROVE  /\ Opened(r, a, k, m) \in OpStates
         /\ Opened(r, a, k, m).at = a
         /\ Opened(r, a, k, m).reserved = m
         /\ Opened(r, a, k, m).received = r.received
         /\ Opened(r, a, k, m).began = r.began
<1>1. Opened(r, a, k, m) \in OpStates
  BY DEF OpStates, Opened
<1>2. /\ Opened(r, a, k, m).at = a
      /\ Opened(r, a, k, m).reserved = m
      /\ Opened(r, a, k, m).received = r.received
      /\ Opened(r, a, k, m).began = r.began
  BY DEF OpStates, Opened
<1> QED
  BY <1>1, <1>2

LEMMA ReceivedAs ==
  ASSUME NEW r \in OpStates, NEW a \in Waits, NEW m \in 0 .. MaxResponse, NEW n \in Nat
  PROVE  /\ Received(r, a, m, n) \in OpStates
         /\ Received(r, a, m, n).at = a
         /\ Received(r, a, m, n).reserved = r.reserved
         /\ Received(r, a, m, n).received = m
         /\ Received(r, a, m, n).began = r.began
<1>1. Received(r, a, m, n) \in OpStates
  BY DEF OpStates, Received
<1>2. /\ Received(r, a, m, n).at = a
      /\ Received(r, a, m, n).reserved = r.reserved
      /\ Received(r, a, m, n).received = m
      /\ Received(r, a, m, n).began = r.began
  BY DEF OpStates, Received
<1> QED
  BY <1>1, <1>2

LEMMA PaidAs ==
  ASSUME NEW r \in OpStates, NEW a \in Waits, NEW n \in Nat, NEW d \in Int
  PROVE  /\ Paid(r, a, n, d) \in OpStates
         /\ Paid(r, a, n, d).at = a
         /\ Paid(r, a, n, d).reserved = r.reserved
         /\ Paid(r, a, n, d).received = r.received
         /\ Paid(r, a, n, d).began = r.began
<1>1. Paid(r, a, n, d) \in OpStates
  BY DEF OpStates, Paid
<1>2. /\ Paid(r, a, n, d).at = a
      /\ Paid(r, a, n, d).reserved = r.reserved
      /\ Paid(r, a, n, d).received = r.received
      /\ Paid(r, a, n, d).began = r.began
  BY DEF OpStates, Paid
<1> QED
  BY <1>1, <1>2

LEMMA DueAt ==
  ASSUME NEW r \in OpStates, NEW d \in Int
  PROVE  /\ Due(r, d) \in OpStates
         /\ Due(r, d).at = r.at
         /\ Due(r, d).reserved = r.reserved
         /\ Due(r, d).received = r.received
         /\ Due(r, d).began = r.began
<1>1. Due(r, d) \in OpStates
  BY DEF OpStates, Due
<1>2. /\ Due(r, d).at = r.at
      /\ Due(r, d).reserved = r.reserved
      /\ Due(r, d).received = r.received
      /\ Due(r, d).began = r.began
  BY DEF OpStates, Due
<1> QED
  BY <1>1, <1>2

LEMMA SleepsAs ==
  ASSUME NEW a \in Waits, NEW d \in Int, NEW n \in Int, NEW b \in Nat
  PROVE  /\ Asleep(a, d, n, b) \in OpStates
         /\ Asleep(a, d, n, b).at = a
         /\ Asleep(a, d, n, b).reserved = 0
         /\ Asleep(a, d, n, b).received = 0
         /\ Asleep(a, d, n, b).began = b
<1>1. Asleep(a, d, n, b) \in OpStates
  BY FreshIs DEF OpStates, Asleep
<1>2. /\ Asleep(a, d, n, b).at = a
      /\ Asleep(a, d, n, b).reserved = 0
      /\ Asleep(a, d, n, b).received = 0
      /\ Asleep(a, d, n, b).began = b
  BY DEF Fresh, Asleep
<1> QED
  BY <1>1, <1>2

LEMMA BeginKeeps == ASSUME ClientInv, NEW o \in Op, Begin(o) PROVE ClientInv'
<1>1. /\ op[o].at = "new" /\ time' = time /\ spent' = spent /\ limiter' = limiter
      /\ arrived' = arrived /\ paid' = paid /\ opened' = opened
  BY DEF Begin
<1>2. /\ op[o] \in OpStates /\ op[o].reserved = 0 /\ op[o].received = 0 /\ op \in [Op -> OpStates]
      /\ circuit \in [failures : Nat, until : Nat] /\ time \in Nat /\ op[o].began <= time
  BY <1>1, OperationIs DEF WithinReserve
<1> DEFINE x == Begun(op[o], "slot", 1, time)
           y == Moved(op[o], "done")
<1>3. /\ /\ x \in OpStates
      /\ WithinReserve(x)
      /\ x.reserved = op[o].reserved
      /\ x.received = op[o].received
      /\ x.began = time
      /\ y \in OpStates /\ WithinReserve(y) /\ y.reserved = op[o].reserved /\ y.received = op[o].received
      /\ y.began = op[o].began /\ y.at = "done"
  <2>1. "slot" \in Waits /\ "done" \in Waits
    BY DEF Waits
  <2>2. /\ x \in OpStates
        /\ x.at = "slot"
        /\ x.reserved = op[o].reserved
        /\ x.received = op[o].received
        /\ x.began = time
    BY <1>2, <2>1, BegunAs
  <2>3. /\ y \in OpStates /\ y.at = "done" /\ y.reserved = op[o].reserved /\ y.received = op[o].received
        /\ y.began = op[o].began
    BY <1>2, <2>1, MovedTo
  <2> HIDE DEF x, y
  <2> QED
    BY <1>2, <2>2, <2>3 DEF WithinReserve
<1>4. CASE op' = [op EXCEPT ![o].at = "slot", ![o].attempt = 1, ![o].began = time]
  <2>1. op' = [op EXCEPT ![o] = x]
    BY <1>4 DEF Begun
  <2>2. circuit' \in [failures : Nat, until : Nat] /\ (o \notin Dumps => BeforeRequest)
    <3>1. CASE o \in Dumps
      BY <1>1, <1>2, <3>1 DEF Begin, BeforeRequest
    <3>2. CASE o \notin Dumps
      <4>1. BeforeRequest \/ op' = [op EXCEPT ![o].at = "done"]
        BY <3>2 DEF Begin
      <4>2. op'[o].at = "slot"
        BY <1>2, <1>4 DEF OpStates
      <4>3. BeforeRequest
        BY <1>2, <4>1, <4>2 DEF OpStates
      <4> QED
        BY <1>2, <4>3 DEF BeforeRequest
    <3> QED
      BY <3>1, <3>2
  <2>3. OpenCircuitAdmitsNone'
    <3> HIDE DEF x, y
    <3>1. CASE o \in Dumps
      <4>1. circuit' = circuit
        BY <3>1 DEF Begin
      <4> QED
        BY <1>1, <2>1, <3>1, <4>1, AdmissionKept
    <3>2. CASE o \notin Dumps
      <4>1. ~ IsOpen'
        BY <1>1, <1>2, <2>2, <3>2 DEF BeforeRequest, IsOpen
      <4> QED
        BY <4>1 DEF OpenCircuitAdmitsNone
    <3> QED
      BY <3>1, <3>2
  <2> HIDE DEF x, y
  <2>4. x.began <= time
    BY <1>2, <1>3
  <2> QED
    BY <1>1, <1>3, <2>1, <2>2, <2>3, <2>4, WaitingMoves
<1>5. CASE op' = [op EXCEPT ![o].at = "done"] /\ circuit' = circuit
  <2>1. op' = [op EXCEPT ![o] = y]
    BY <1>5 DEF Moved
  <2> HIDE DEF x, y
  <2>2. OpenCircuitAdmitsNone'
    BY <1>1, <1>3, <1>5, <2>1, AdmissionKept
  <2>3. y.began <= time /\ circuit' \in [failures : Nat, until : Nat]
    BY <1>2, <1>3, <1>5
  <2> QED
    BY <1>1, <1>3, <2>1, <2>2, <2>3, WaitingMoves
<1> QED
  BY <1>4, <1>5 DEF Begin

LEMMA SendKeeps == ASSUME ClientInv, NEW o \in Op, Send(o) PROVE ClientInv'
<1> DEFINE x == Moved(op[o], "sent")
<1>1. /\ op' = [op EXCEPT ![o] = x]
      /\ UNCHANGED <<time, spent, limiter, circuit, arrived, paid, opened>>
      /\ op[o].at = "slot"
  BY DEF Send, Moved
<1>2. /\ op[o] \in OpStates /\ op[o].reserved = 0 /\ op[o].received = 0 /\ op[o].began <= time
      /\ circuit \in [failures : Nat, until : Nat]
  BY <1>1, OperationIs DEF WithinReserve
<1>3. /\ x \in OpStates
      /\ WithinReserve(x)
      /\ x.reserved = op[o].reserved
      /\ x.received = op[o].received
      /\ x.began = op[o].began
  <2>1. "sent" \in Waits
    BY DEF Waits
  <2>2. x \in OpStates /\ x.reserved = op[o].reserved /\ x.received = op[o].received /\ x.began = op[o].began
    BY <1>2, <2>1, MovedTo
  <2> QED
    BY <1>2, <2>2 DEF WithinReserve
<1> HIDE DEF x
<1>4. OpenCircuitAdmitsNone'
  BY <1>1, <1>3, AdmissionKept
<1> QED
  BY <1>1, <1>2, <1>3, <1>4, WaitingMoves

LEMMA RetryKeeps == ASSUME ClientInv, NEW o \in Op, Retry(o) PROVE ClientInv'
<1> DEFINE x == Retried(op[o], "slot", op[o].attempt + 1, 0)
<1>1. /\ op' = [op EXCEPT ![o] = x]
      /\ UNCHANGED <<time, spent, limiter, circuit, arrived, paid, opened>>
      /\ op[o].at = "backoff"
  BY DEF Retry, Retried
<1>2. /\ op[o] \in OpStates /\ op[o].reserved = 0 /\ op[o].received = 0 /\ op[o].began <= time
      /\ circuit \in [failures : Nat, until : Nat]
  BY <1>1, OperationIs DEF WithinReserve
<1>3. /\ x \in OpStates
      /\ WithinReserve(x)
      /\ x.reserved = op[o].reserved
      /\ x.received = op[o].received
      /\ x.began = op[o].began
  <2>1. "slot" \in Waits /\ op[o].attempt + 1 \in Int
    BY <1>2 DEF Waits, OpStates
  <2>2. x \in OpStates /\ x.reserved = op[o].reserved /\ x.received = op[o].received /\ x.began = op[o].began
    BY <1>2, <2>1, RetriedAs
  <2> HIDE DEF x
  <2> QED
    BY <1>2, <2>2 DEF WithinReserve
<1> HIDE DEF x
<1>4. OpenCircuitAdmitsNone'
  BY <1>1, <1>3, AdmissionKept
<1> QED
  BY <1>1, <1>2, <1>3, <1>4, WaitingMoves

(* The end of an attempt gives back what it reserved and did not use. *)
LEMMA EndKeeps ==
  ASSUME ClientInv, NEW o \in Op, NEW fate, op[o].at \notin {"new", "done"}, EndAttempt(o, fate)
  PROVE  ClientInv'
<1>1. /\ spent' = spent - Unused(o) /\ time' = time /\ limiter' = limiter /\ arrived' = arrived /\ paid' = paid
  BY DEF EndAttempt
<1>2. /\ op[o] \in OpStates /\ op[o].reserved \in Nat /\ op[o].received \in Nat /\ op[o].received <= op[o].reserved
      /\ op[o].began \in Nat /\ op[o].began <= time
      /\ time \in Nat /\ spent \in Nat /\ arrived \in Nat /\ paid \in Nat /\ opened \in Nat /\ spent <= Budget
      /\ limiter \in [credit : Nat, refilled : Nat, holder : Op \cup {Nobody}]
      /\ circuit \in [failures : Nat, until : Nat]
      /\ Unused(o) = op[o].reserved - op[o].received
  BY OperationIs
<1>3. spent' \in Nat /\ spent' <= Budget
  BY <1>1, <1>2, UnusedWasSpent, ClientNumbers
<1>4. Credited'
  BY <1>1 DEF ClientInv, Credited
<1>5. ASSUME NEW x \in OpStates, WithinReserve(x), x.reserved = 0, x.received = 0, x.began <= time,
             op' = [op EXCEPT ![o] = x], opened' \in Nat, circuit' \in [failures : Nat, until : Nat],
             OpenCircuitAdmitsNone'
      PROVE  ClientInv'
  <2>1. spent' - arrived' = spent - arrived + (x.reserved - x.received) - (op[o].reserved - op[o].received)
    BY <1>1, <1>2, <1>5
  <2>2. arrived' \in Nat
    BY <1>1, <1>2
  <2>3. BudgetCoversArrivals'
    BY <1>3, <1>5, <2>1, <2>2, BudgetMoves
  <2>4. /\ paid' \in Nat /\ limiter' \in [credit : Nat, refilled : Nat, holder : Op \cup {Nobody}]
    BY <1>1, <1>2
  <2> QED
    BY <1>1, <1>3, <1>4, <1>5, <2>2, <2>3, <2>4, OperationMoves
<1>6. ASSUME NEW delay \in RetryDelays(op[o].attempt), circuit' = circuit, opened' = opened,
             op' = [op EXCEPT ![o] = [Fresh EXCEPT !.at = "backoff", !.due = time + delay,
                                                   !.attempt = op[o].attempt, !.began = op[o].began]]
      PROVE  ClientInv'
  <2>1. delay \in Int
    <3>1. PICK j \in (Exponential[op[o].attempt] \div 2)..Exponential[op[o].attempt], r \in 0..MaxDelay :
            delay = Greater(j, r)
      BY <1>6 DEF RetryDelays
    <3>2. j \in Int /\ r \in Int
      BY NumbersOfRange
    <3> QED
      BY <3>1, <3>2 DEF Greater
  <2>2. PICK due \in Int : due = time + delay
    BY <1>2, <2>1
  <2> DEFINE x == Asleep("backoff", due, op[o].attempt, op[o].began)
  <2>3. x \in OpStates /\ x.at = "backoff" /\ x.reserved = 0 /\ x.received = 0 /\ x.began = op[o].began
    <3>1. op[o].attempt \in Int /\ "backoff" \in Waits /\ op[o].began \in Nat
      BY <1>2 DEF OpStates, Waits
    <3> QED
      BY ONLY <3>1, SleepsAs
  <2> HIDE DEF x
  <2>4. x \in OpStates
    BY <2>3
  <2>5. WithinReserve(x) /\ x.reserved = 0 /\ x.received = 0 /\ x.began = op[o].began
    BY <2>3 DEF WithinReserve
  <2>6. op' = [op EXCEPT ![o] = x]
    BY <1>6, <2>2 DEF x, Asleep
  <2>7. OpenCircuitAdmitsNone'
    BY <1>1, <1>6, <2>5, <2>6, AdmissionKept
  <2>8. opened' \in Nat /\ circuit' \in [failures : Nat, until : Nat] /\ x.began <= time
    BY <1>2, <1>6, <2>5
  <2> QED
    BY <1>5, <2>4, <2>5, <2>6, <2>7, <2>8
<1>7. ASSUME op' = [op EXCEPT ![o] = [Fresh EXCEPT !.at = "done"]],
             \/ circuit' = circuit /\ opened' = opened
             \/ RecordFailure \/ RecordSuccess
      PROVE  ClientInv'
  <2> DEFINE x == Moved(Fresh, "done")
  <2>1. "done" \in Waits /\ Fresh \in OpStates /\ Fresh.reserved = 0 /\ Fresh.received = 0 /\ Fresh.began = 0
    BY FreshIs DEF Waits, Fresh
  <2>2. x \in OpStates /\ x.at = "done" /\ x.reserved = 0 /\ x.received = 0 /\ x.began = 0
    BY <2>1, MovedTo
  <2> HIDE DEF x
  <2>3. WithinReserve(x) /\ x.reserved = 0 /\ x.received = 0 /\ x.began <= time /\ x.at = "done"
    BY <1>2, <2>2 DEF WithinReserve
  <2>4. op' = [op EXCEPT ![o] = x]
    BY <1>7 DEF x, Moved
  <2>5. CASE circuit' = circuit /\ opened' = opened
    <3>1. OpenCircuitAdmitsNone'
      BY <1>1, <2>3, <2>4, <2>5, AdmissionKept
    <3>2. opened' \in Nat /\ circuit' \in [failures : Nat, until : Nat]
      BY <1>2, <2>5
    <3> QED
      BY <1>5, <2>2, <2>3, <2>4, <3>1, <3>2
  <2>6. CASE RecordSuccess
    <3>1. opened' \in Nat /\ circuit' = [failures |-> 0, until |-> 0]
      BY <1>2, <2>6 DEF RecordSuccess
    <3>2. OpenCircuitAdmitsNone'
      BY <1>1, <1>2, <3>1 DEF OpenCircuitAdmitsNone, IsOpen
    <3>3. circuit' \in [failures : Nat, until : Nat]
      BY <3>1
    <3> QED
      BY <1>5, <2>2, <2>3, <2>4, <3>1, <3>2, <3>3
  <2>7. CASE RecordFailure
    <3>1. \/ circuit' = [failures |-> circuit.failures + 1, until |-> time + OpenFor] /\ opened' = time
          \/ circuit' = [circuit EXCEPT !.failures = circuit.failures + 1] /\ opened' = opened
      BY <2>7 DEF RecordFailure
    <3>2. op \in [Op -> OpStates] /\ op'[o] = x /\ \A p \in Op \ {o} : op'[p] = op[p]
      BY <2>4, OperationIs
    <3>3. CASE circuit' = [failures |-> circuit.failures + 1, until |-> time + OpenFor] /\ opened' = time
      <4>1. \A p \in Op : op'[p].began <= opened'
        BY <2>3, <3>2, <3>3 DEF ClientInv
      <4>2. OpenCircuitAdmitsNone'
        BY <4>1 DEF OpenCircuitAdmitsNone
      <4>3. opened' \in Nat /\ circuit' \in [failures : Nat, until : Nat]
        BY <1>2, <3>3, ClientNumbers
      <4> QED
        BY <1>5, <2>2, <2>3, <2>4, <4>2, <4>3
    <3>4. CASE circuit' = [circuit EXCEPT !.failures = circuit.failures + 1] /\ opened' = opened
      <4>1. circuit'.until = circuit.until /\ circuit' \in [failures : Nat, until : Nat] /\ opened' \in Nat
        BY <1>2, <3>4
      <4>2. IsOpen' => IsOpen
        BY <1>1, <4>1 DEF IsOpen
      <4>3. OpenCircuitAdmitsNone'
        BY <2>3, <3>2, <3>4, <4>2 DEF OpenCircuitAdmitsNone, ClientInv
      <4> QED
        BY <1>5, <2>2, <2>3, <2>4, <4>1, <4>3
    <3> QED
      BY <3>1, <3>3, <3>4
  <2> QED
    BY <1>7, <2>5, <2>6, <2>7
<1> QED
  BY <1>6, <1>7 DEF EndAttempt

LEMMA RespondKeeps ==
  ASSUME ClientInv, NEW o \in Op, NEW size \in 1 .. (MaxResponse + 1), NEW known \in BOOLEAN, Respond(o, size, known)
  PROVE  ClientInv'
<1> DEFINE amount == Reservation(size, known)
           x == Opened(op[o], "body", known, amount)
<1>1. /\ op[o].at = "sent" /\ ~(known /\ size > MaxResponse) /\ spent + amount <= Budget /\ spent' = spent + amount
      /\ op' = [op EXCEPT ![o] = x] /\ UNCHANGED <<time, limiter, circuit, arrived, paid, opened>>
  BY DEF Respond, Reserve, Opened
<1>2. amount \in 0 .. MaxResponse
  BY <1>1, ClientNumbers DEF Reservation
<1> HIDE DEF amount
<1>3. /\ op[o] \in OpStates /\ op[o].reserved = 0 /\ op[o].received = 0
      /\ op[o].began \in Nat /\ op[o].began <= time
      /\ time \in Nat /\ spent \in Nat /\ arrived \in Nat /\ paid \in Nat /\ opened \in Nat
      /\ limiter \in [credit : Nat, refilled : Nat, holder : Op \cup {Nobody}]
      /\ circuit \in [failures : Nat, until : Nat]
  BY <1>1, OperationIs DEF WithinReserve
<1>4. "body" \in Waits /\ amount \in Nat
  BY <1>2, ClientNumbers DEF Waits
<1>5. x \in OpStates /\ x.at = "body" /\ x.reserved = amount /\ x.received = 0 /\ x.began = op[o].began
  BY <1>2, <1>3, <1>4, OpenedAs
<1> HIDE DEF x
<1>6. WithinReserve(x) /\ x.reserved = amount /\ x.received = 0 /\ x.began = op[o].began /\ amount \in Nat
  BY <1>4, <1>5 DEF WithinReserve
<1>7. Credited'
  BY <1>1 DEF ClientInv, Credited
<1>8. spent' \in Nat /\ spent' <= Budget /\ arrived' \in Nat
  BY <1>1, <1>3, <1>6
<1>9. spent' - arrived' = spent - arrived + (x.reserved - x.received) - (op[o].reserved - op[o].received)
  BY <1>1, <1>3, <1>6
<1>10. BudgetCoversArrivals'
  BY <1>1, <1>5, <1>6, <1>8, <1>9, BudgetMoves
<1>11. OpenCircuitAdmitsNone'
  BY <1>1, <1>6, AdmissionKept
<1>12. /\ paid' \in Nat /\ opened' \in Nat /\ time' = time
       /\ limiter' \in [credit : Nat, refilled : Nat, holder : Op \cup {Nobody}]
       /\ circuit' \in [failures : Nat, until : Nat] /\ x.began <= time
  BY <1>1, <1>3, <1>6
<1> QED
  BY <1>1, <1>5, <1>6, <1>7, <1>8, <1>10, <1>11, <1>12, OperationMoves

LEMMA ReceiveKeeps ==
  ASSUME ClientInv, NEW o \in Op, NEW n \in 1 .. MaxChunk, Receive(o, n)
  PROVE  ClientInv'
<1> DEFINE total == op[o].received + n
           x == Received(op[o], "throttle", total, n)
<1>1. /\ op[o].at = "body" /\ op[o].received + n <= op[o].reserved /\ arrived' = arrived + n
      /\ op' = [op EXCEPT ![o] = x] /\ UNCHANGED <<time, spent, limiter, circuit, paid, opened>>
  BY DEF Receive, RecordChunk, Received
<1>2. n \in Nat
  BY NumbersOfRange, ClientAssumption
<1>3. /\ op[o] \in OpStates /\ op[o].reserved \in Nat /\ op[o].received \in Nat /\ op[o].reserved <= MaxResponse
      /\ op[o].began \in Nat /\ op[o].began <= time
      /\ time \in Nat /\ spent \in Nat /\ arrived \in Nat /\ paid \in Nat /\ opened \in Nat /\ spent <= Budget
      /\ limiter \in [credit : Nat, refilled : Nat, holder : Op \cup {Nobody}]
      /\ circuit \in [failures : Nat, until : Nat]
  BY OperationIs
<1>4. total \in 0 .. MaxResponse /\ "throttle" \in Waits
  BY <1>1, <1>2, <1>3, ClientNumbers DEF Waits
<1> HIDE DEF total
<1>5. /\ x \in OpStates /\ x.at = "throttle" /\ x.reserved = op[o].reserved
      /\ x.received = total /\ x.began = op[o].began
  <2>1. n \in Nat /\ op[o] \in OpStates /\ total \in 0 .. MaxResponse /\ "throttle" \in Waits
    BY <1>2, <1>3, <1>4
  <2> QED
    <3> DEFINE r == op[o]
    <3> HIDE DEF r
    <3>1. /\ Received(r, "throttle", total, n) \in OpStates /\ Received(r, "throttle", total, n).at = "throttle"
          /\ Received(r, "throttle", total, n).reserved = r.reserved
          /\ Received(r, "throttle", total, n).received = total /\ Received(r, "throttle", total, n).began = r.began
      <4>1. r \in OpStates
        BY <2>1 DEF r
      <4> QED
        BY ONLY <2>1, <4>1, ReceivedAs
    <3> QED
      BY <3>1 DEF r
<1> HIDE DEF x
<1> USE DEF total
<1>6. x \in OpStates
  BY <1>5
<1>7. WithinReserve(x) /\ x.reserved = op[o].reserved /\ x.received = op[o].received + n /\ x.began = op[o].began
  BY <1>1, <1>5 DEF WithinReserve
<1>8. Credited'
  BY <1>1 DEF ClientInv, Credited
<1>9. spent' \in Nat /\ spent' <= Budget /\ arrived' \in Nat
  BY <1>1, <1>2, <1>3
<1>10. spent' - arrived' = spent - arrived + (x.reserved - x.received) - (op[o].reserved - op[o].received)
  BY <1>1, <1>2, <1>3, <1>7
<1>11. BudgetCoversArrivals'
  BY <1>1, <1>6, <1>7, <1>9, <1>10, BudgetMoves
<1>12. OpenCircuitAdmitsNone'
  BY <1>1, <1>7, AdmissionKept
<1>13. /\ paid' \in Nat /\ opened' \in Nat /\ time' = time
       /\ limiter' \in [credit : Nat, refilled : Nat, holder : Op \cup {Nobody}]
       /\ circuit' \in [failures : Nat, until : Nat] /\ x.began <= time
  BY <1>1, <1>3, <1>7
<1> QED
  BY <1>1, <1>6, <1>7, <1>8, <1>9, <1>11, <1>12, <1>13, OperationMoves

LEMMA CancelKeeps == ASSUME ClientInv, NEW o \in Op, Cancel(o) PROVE ClientInv'
<1> DEFINE x == Moved(Fresh, "done")
<1>1. /\ spent' = spent - Unused(o) /\ limiter' = Released(o) /\ op' = [op EXCEPT ![o] = x]
      /\ UNCHANGED <<time, circuit, arrived, paid, opened>>
  BY DEF Cancel, Moved
<1>2. "done" \in Waits /\ Fresh \in OpStates /\ Fresh.reserved = 0 /\ Fresh.received = 0 /\ Fresh.began = 0
  BY FreshIs DEF Waits, Fresh
<1>3. x \in OpStates /\ x.at = "done" /\ x.reserved = 0 /\ x.received = 0 /\ x.began = 0
  BY <1>2, MovedTo
<1> HIDE DEF x
<1>4. /\ op[o].reserved \in Nat /\ op[o].received \in Nat /\ op[o].received <= op[o].reserved
      /\ time \in Nat /\ spent \in Nat /\ arrived \in Nat /\ paid \in Nat /\ opened \in Nat /\ spent <= Budget
      /\ limiter \in [credit : Nat, refilled : Nat, holder : Op \cup {Nobody}]
      /\ circuit \in [failures : Nat, until : Nat]
      /\ Unused(o) = op[o].reserved - op[o].received
  BY OperationIs
<1>5. WithinReserve(x) /\ x.began <= time
  BY <1>3, <1>4 DEF WithinReserve
<1>6. /\ limiter' \in [credit : Nat, refilled : Nat, holder : Op \cup {Nobody}]
      /\ limiter'.credit = limiter.credit /\ limiter'.refilled = limiter.refilled
  BY <1>1, <1>4 DEF Released
<1>7. Credited'
  BY <1>1, <1>6 DEF ClientInv, Credited
<1>8. spent' \in Nat /\ spent' <= Budget /\ arrived' \in Nat
  BY <1>1, <1>4, UnusedWasSpent, ClientNumbers
<1>9. spent' - arrived' = spent - arrived + (x.reserved - x.received) - (op[o].reserved - op[o].received)
  BY <1>1, <1>3, <1>4
<1>10. BudgetCoversArrivals'
  BY <1>1, <1>3, <1>5, <1>8, <1>9, BudgetMoves
<1>11. OpenCircuitAdmitsNone'
  BY <1>1, <1>3, AdmissionKept
<1>12. /\ paid' \in Nat /\ opened' \in Nat /\ time' = time /\ circuit' \in [failures : Nat, until : Nat]
  BY <1>1, <1>4
<1> QED
  BY <1>1, <1>3, <1>5, <1>6, <1>7, <1>8, <1>10, <1>11, <1>12, OperationMoves

(* Credit is what the rate has brought since the last time, or less; a quantum
   is let through only out of credit. *)
LEMMA RefilledIs ==
  ASSUME ClientInv
  PROVE  /\ Refilled \in Nat
         /\ Refilled <= limiter.credit + (time - limiter.refilled) * Rate
<1>1. /\ limiter.credit \in Nat /\ limiter.refilled \in Nat /\ time \in Nat /\ limiter.refilled <= time
  BY DEF ClientInv, ClientTypes, Credited
<1>2. time - limiter.refilled \in Nat
  BY <1>1
<1>3. (time - limiter.refilled) * Rate \in Nat /\ Rate * Ticks \in Nat
  BY <1>2, ClientNumbers
<1> QED
  BY <1>1, <1>3 DEF Refilled, Lesser

LEMMA CreditSpent ==
  ASSUME NEW p \in Nat, NEW q \in Nat, NEW t \in Nat, NEW r \in Nat, NEW c \in Nat,
         NEW f \in Nat, NEW n \in Nat, NEW got \in Nat,
         p * t + c <= r * f, f <= n, got <= c + (n - f) * r
  PROVE  /\ p * t + got <= r * n
         /\ q * t <= got => (p + q) * t + (got - q * t) <= r * n
<1>1. (n - f) * r = r * n - r * f
  OBVIOUS
<1>2. p * t \in Int /\ r * n \in Int /\ r * f \in Int /\ q * t \in Int
  OBVIOUS
<1>3. (p + q) * t = p * t + q * t
  OBVIOUS
<1>4. p * t + got <= r * n
  BY <1>1, <1>2
<1> QED
  BY <1>2, <1>3, <1>4

LEMMA CeilingIs == ASSUME NEW a \in Int, NEW b \in Nat, b > 0 PROVE CeilDiv(a, b) \in Int
BY DEF CeilDiv

LEMMA ConsumeKeeps == ASSUME ClientInv, NEW o \in Op, Consume(o) PROVE ClientInv'
<1> DEFINE quantum == Lesser(op[o].owing, Rate)
           cost == quantum * Ticks
<1>1. /\ op[o].at = "throttle" /\ UNCHANGED <<time, spent, circuit, arrived, opened>>
      /\ \/ /\ Refilled >= cost
            /\ limiter' = [credit |-> Refilled - cost, refilled |-> time, holder |-> Nobody]
            /\ paid' = paid + quantum
            /\ op' = [op EXCEPT ![o].owing = @ - quantum, ![o].due = 0,
                                ![o].at = IF op[o].owing = quantum THEN "body" ELSE @]
         \/ /\ limiter' = [credit |-> Refilled, refilled |-> time, holder |-> o]
            /\ op' = [op EXCEPT ![o].due = time + CeilDiv(cost - Refilled, Rate)]
            /\ paid' = paid
  BY DEF Consume
<1>2. /\ op[o] \in OpStates /\ op[o].owing \in Nat /\ op[o].began <= time /\ op \in [Op -> OpStates]
      /\ op[o].reserved \in Nat /\ op[o].received \in Nat /\ WithinReserve(op[o])
      /\ time \in Nat /\ spent \in Nat /\ arrived \in Nat /\ paid \in Nat /\ opened \in Nat /\ spent <= Budget
      /\ circuit \in [failures : Nat, until : Nat]
  BY OperationIs
<1>3. quantum \in Nat /\ quantum <= op[o].owing /\ op[o].owing - quantum \in Nat
  BY <1>2, ClientNumbers DEF Lesser
<1>4. cost \in Nat
  BY <1>3, ClientNumbers
<1>5. /\ limiter.credit \in Nat /\ limiter.refilled \in Nat /\ limiter.refilled <= time
      /\ paid * Ticks + limiter.credit <= Rate * limiter.refilled
  BY DEF ClientInv, ClientTypes, Credited
<1> HIDE DEF quantum
<1>6. /\ paid * Ticks + Refilled <= Rate * time
      /\ cost <= Refilled => (paid + quantum) * Ticks + (Refilled - cost) <= Rate * time
  BY <1>2, <1>3, <1>5, RefilledIs, ClientNumbers, CreditSpent
<1> HIDE DEF cost
<1>7. ASSUME NEW x \in OpStates, op' = [op EXCEPT ![o] = x], x.at \notin {"new", "done"},
             x.reserved = op[o].reserved, x.received = op[o].received, x.began = op[o].began,
             x.at \in {"body", "throttle"}, paid' \in Nat, Credited',
             limiter' \in [credit : Nat, refilled : Nat, holder : Op \cup {Nobody}]
      PROVE  ClientInv'
  <2>1. WithinReserve(x) /\ x.began <= time
    BY <1>2, <1>7 DEF WithinReserve
  <2>2. /\ spent' \in Nat
        /\ spent' <= Budget
        /\ arrived' \in Nat
        /\ opened' \in Nat
        /\ time' = time
        /\ circuit' = circuit
    BY <1>1, <1>2
  <2>3. spent' - arrived' = spent - arrived + (x.reserved - x.received) - (op[o].reserved - op[o].received)
    BY <1>1, <1>2, <1>7
  <2>4. BudgetCoversArrivals'
    BY <1>7, <2>1, <2>2, <2>3, BudgetMoves
  <2>5. opened' = opened /\ op[o].at \notin {"new", "done"}
    BY <1>1
  <2>6. OpenCircuitAdmitsNone'
    BY <1>7, <2>2, <2>5, AdmissionKept
  <2>7. circuit' \in [failures : Nat, until : Nat]
    BY <1>2, <2>2
  <2> QED
    BY <1>7, <2>1, <2>2, <2>4, <2>6, <2>7, OperationMoves
<1>8. CASE /\ Refilled >= cost
           /\ limiter' = [credit |-> Refilled - cost, refilled |-> time, holder |-> Nobody]
           /\ paid' = paid + quantum
           /\ op' = [op EXCEPT ![o].owing = @ - quantum, ![o].due = 0,
                               ![o].at = IF op[o].owing = quantum THEN "body" ELSE @]
  <2>1. PICK left \in Nat : left = op[o].owing - quantum
    BY <1>3
  <2>2. PICK a \in {"body", "throttle"} : a = IF op[o].owing = quantum THEN "body" ELSE op[o].at
    BY <1>1
  <2> DEFINE x == Paid(op[o], a, left, 0)
  <2>3. op' = [op EXCEPT ![o] = x]
    BY <1>8, <2>1, <2>2 DEF Paid
  <2>4. /\ x \in OpStates /\ x.at = a /\ x.reserved = op[o].reserved
        /\ x.received = op[o].received /\ x.began = op[o].began
    <3>1. op[o] \in OpStates /\ a \in Waits /\ left \in Nat /\ 0 \in Int
      BY <1>2 DEF Waits
    <3> QED
      BY ONLY <3>1, PaidAs
  <2> HIDE DEF x
  <2>5. limiter' \in [credit : Nat, refilled : Nat, holder : Op \cup {Nobody}] /\ paid' \in Nat
    BY <1>2, <1>3, <1>4, <1>8, RefilledIs
  <2>6. Credited'
    <3>1. paid' = paid + quantum /\ limiter'.credit = Refilled - cost /\ limiter'.refilled = time /\ time' = time
      BY <1>1, <1>8
    <3>2. cost <= Refilled
      BY <1>4, <1>8, RefilledIs
    <3> QED
      BY <1>2, <1>6, <3>1, <3>2 DEF Credited
  <2> QED
    BY <1>7, <2>3, <2>4, <2>5, <2>6
<1>9. CASE /\ limiter' = [credit |-> Refilled, refilled |-> time, holder |-> o]
           /\ op' = [op EXCEPT ![o].due = time + CeilDiv(cost - Refilled, Rate)]
           /\ paid' = paid
  <2>1. CeilDiv(cost - Refilled, Rate) \in Int
    <3>1. cost - Refilled \in Int
      BY <1>4, RefilledIs
    <3> QED
      BY <3>1, ClientNumbers, CeilingIs
  <2>2. PICK d \in Int : d = time + CeilDiv(cost - Refilled, Rate)
    BY <1>2, <2>1
  <2> DEFINE x == Due(op[o], d)
  <2>3. op' = [op EXCEPT ![o] = x]
    BY <1>9, <2>2 DEF Due
  <2>4. /\ x \in OpStates /\ x.at = op[o].at /\ x.reserved = op[o].reserved
        /\ x.received = op[o].received /\ x.began = op[o].began
    BY <1>2, DueAt
  <2> HIDE DEF x
  <2>5. limiter' \in [credit : Nat, refilled : Nat, holder : Op \cup {Nobody}] /\ paid' \in Nat
    BY <1>2, <1>9, RefilledIs
  <2>6. Credited'
    <3>1. paid' = paid /\ limiter'.credit = Refilled /\ limiter'.refilled = time /\ time' = time
      BY <1>1, <1>9
    <3> QED
      BY <1>2, <1>6, <3>1 DEF Credited
  <2> QED
    BY <1>1, <1>7, <2>3, <2>4, <2>5, <2>6
<1> QED
  BY <1>1, <1>8, <1>9

LEMMA ClientKeeps == ASSUME ClientInv, [ClientNext]_clientVars PROVE ClientInv'
<1>1. CASE UNCHANGED clientVars
  <2>1. /\ time' = time /\ op' = op /\ spent' = spent /\ limiter' = limiter /\ circuit' = circuit
        /\ arrived' = arrived /\ paid' = paid /\ opened' = opened
    BY <1>1 DEF clientVars
  <2> QED
    BY <2>1 DEF ClientInv, ClientTypes, Credited, BudgetCoversArrivals, OpenCircuitAdmitsNone, IsOpen
<1>2. CASE Pass
  BY <1>2, PassKeeps
<1>3. ASSUME NEW o \in Op, Begin(o) \/ Send(o) \/ Retry(o) \/ Consume(o) \/ Cancel(o) PROVE ClientInv'
  BY <1>3, BeginKeeps, SendKeeps, RetryKeeps, ConsumeKeeps, CancelKeeps
<1>4. ASSUME NEW o \in Op, NEW size \in 1..(MaxResponse + 1), NEW known \in BOOLEAN,
             Respond(o, size, known) \/ RefuseResponse(o, size, known)
      PROVE  ClientInv'
  BY <1>4, RespondKeeps, EndKeeps DEF RefuseResponse
<1>5. ASSUME NEW o \in Op, NEW n \in 1..MaxChunk, Receive(o, n) \/ Overflow(o, n) PROVE ClientInv'
  BY <1>5, ReceiveKeeps, EndKeeps DEF Overflow
<1>6. ASSUME NEW o \in Op, NEW fate \in Fates, Complete(o, fate) \/ Break(o, fate) PROVE ClientInv'
  BY <1>6, EndKeeps DEF Complete, Break
<1> QED
  BY <1>1, <1>2, <1>3, <1>4, <1>5, <1>6 DEF ClientNext

LEMMA LimitsAreHeld == ClientInv => TransportLimitsHold
<1> SUFFICES ASSUME ClientInv PROVE TransportLimitsHold
  OBVIOUS
<1>1. /\ /\ limiter.credit \in Nat
      /\ limiter.refilled \in Nat
      /\ limiter.refilled <= time
      /\ time \in Nat
      /\ paid \in Nat
      /\ paid * Ticks + limiter.credit <= Rate * limiter.refilled
  BY DEF ClientInv, ClientTypes, Credited
<1>2. Rate * limiter.refilled <= Rate * time
  <2>1. time = limiter.refilled + (time - limiter.refilled) /\ time - limiter.refilled \in Nat
    BY <1>1
  <2>2. Rate * (time - limiter.refilled) \in Nat
    BY <2>1, ClientNumbers
  <2>3. Rate * time = Rate * limiter.refilled + Rate * (time - limiter.refilled)
    BY <1>1, ClientNumbers
  <2> QED
    BY <1>1, <2>2, <2>3, ClientNumbers
<1>3. paid * Ticks \in Nat /\ Rate * limiter.refilled \in Nat /\ Rate * time \in Nat
  BY <1>1, ClientNumbers
<1>4. RateHolds
  BY <1>1, <1>2, <1>3 DEF RateHolds
<1> QED
  BY <1>4 DEF ClientInv, TransportLimitsHold

(* However the clones of one client interleave, together they stay within the
   budget of the run and the rate, and none begins while the circuit is open:
   for any number of operations, any limits and any answers. *)
THEOREM LimitsHoldTogether == ClientSpec => []TransportLimitsHold
<1>1. ClientSpec => []ClientInv
  BY ClientStarts, ClientKeeps, PTL DEF ClientSpec
<1> QED
  BY <1>1, LimitsAreHeld, PTL
=============================================================================
