---------------------------- MODULE DaemonProofs ----------------------------
(***************************************************************************)
(* The lease of a library, the requests to its daemon, the edits of a      *)
(* collection and its schedule, the desktop application, and the inside of *)
(* packs, for any number of processes, inodes, clients, chunks, tokens,    *)
(* pages, answers of the wiki, occurrences, folders, objects and bytes.    *)
(*                                                                         *)
(* OneReachedWriter is about the processes that write.  LeaseInv adds what *)
(* they rest on: a process that writes and whose lease is not lost is the  *)
(* one the name of the writer socket stands for, and listens (LeaseShown); *)
(* whoever looks at a socket to bind it holds the lock (LockHeld), so that *)
(* what was found stale still is when it is removed (StaleStays); and the  *)
(* sockets a process has follow from what it is doing (SocketsOf).         *)
(*                                                                         *)
(* OneClientPerDraft is about what was committed.  IpcInv adds that no two *)
(* clients of this daemon claim one token, whether by holding it, by a     *)
(* request that is still on its way or by a chunk that is staged           *)
(* (TokensApart), and that every token claimed was given (TokensGiven).    *)
(*                                                                         *)
(* SavesOverWhatWasSeen is about steps.  EditsInv adds that what readers   *)
(* see in the file is older than what is committed or the same             *)
(* (DiskBehind), and that an edit which names the generation of the        *)
(* collection was overtaken by nobody (SeesWhatItNames).                   *)
(*                                                                         *)
(* NextRunIsEarliest is inductive with the types (ScheduleInv).  The       *)
(* search it rests on looks at few occurrences; that no other could be     *)
(* earlier follows from jitter that stays below a period.                  *)
(*                                                                         *)
(* ShowsWhatIsSo is about steps.  GuiInv adds that the request awaited is  *)
(* one of the folder in use, unless a folder was picked since              *)
(* (AwaitsItsFolder).                                                      *)
(*                                                                         *)
(* PacksReadBack is about a pack that is prepared.  PackInv says of every  *)
(* entry, those of a pack in the making too, that it holds its object or a *)
(* delta that makes it from an entry before it, no deeper than the limit   *)
(* (Sound); that a sound pack reads back and is accepted by the verifier   *)
(* is a fact about packs of any size.                                      *)
(***************************************************************************)
EXTENDS WriterLease, DaemonIpc, CollectionEdits, Schedule, GuiApp, PackDeltas,
        FiniteSetTheorems, WellFoundedInduction, TLAPS

LockHeld == \A p \in Procs : pc[p] \in {"inspect", "clear", "bind"} => lock = p
StaleStays == \A p \in Procs : pc[p] = "clear" => ~ Active(key[p])
Leaving == {"release", "checked"}
SocketsOf(p) ==
  /\ guard[p]["writer"] = None <=> pc[p] = "off" \/ (pc[p] \in Binding /\ key[p] = "writer")
  /\ guard[p]["daemon"] # None <=> pc[p] = "serving" \/ (pc[p] \in Leaving /\ key[p] = "daemon")
  /\ <<p, "daemon">> \in listening => pc[p] = "serving"
LeaseShown ==
  \A p \in Writers \ lost :
    path["writer"] # None /\ path["writer"].owner = p /\ <<p, "writer">> \in listening
LeaseInv ==
  /\ LeaseTypeOK /\ LockHeld /\ StaleStays /\ LeaseShown
  /\ \A p \in Procs : SocketsOf(p)

LEMMA LeaseInvInit == LeaseInit => LeaseInv
<1> SUFFICES ASSUME LeaseInit PROVE LeaseInv
  OBVIOUS
<1>1. LeaseTypeOK /\ LockHeld /\ StaleStays
  BY DEF LeaseInit, LeaseTypeOK, LockHeld, StaleStays, Keys
<1>2. Writers = {}
  BY DEF LeaseInit, Writers, Keys
<1>3. \A p \in Procs : SocketsOf(p)
  BY DEF LeaseInit, SocketsOf, Binding, Leaving, Keys
<1> QED
  BY <1>1, <1>2, <1>3 DEF LeaseInv, LeaseShown

-----------------------------------------------------------------------------
(* What a step of p must do to keep the invariant.                         *)

\* The other processes are where they were, and none regains a lost lease.
OthersAlone(p) ==
  \A q \in Procs \ {p} :
    /\ pc'[q] = pc[q] /\ key'[q] = key[q] /\ guard'[q] = guard[q]
    /\ q \in lost => q \in lost'
    /\ \A k \in Keys : <<q, k>> \in listening' <=> <<q, k>> \in listening
\* The lock is p's, or as it was.
LockPassed(p) ==
  /\ pc'[p] \in {"inspect", "clear", "bind"} => lock' = p
  /\ lock \in Procs \ {p} => lock' = lock
\* Nobody begins to listen without the lock; a name that p takes away is no
\* other writer's, or that writer has lost its lease.
NamesKept(p) ==
  /\ lock # p => \A k \in Keys : Active(k)' => Active(k)
  /\ pc'[p] = "clear" => ~ Active(key[p])'
  /\ path'["writer"] = path["writer"]
       \/ \A q \in Procs \ {p} : path["writer"] # None /\ path["writer"].owner = q
                                   /\ <<q, "writer">> \in listening => q \in lost'
Shown(p) ==
  p \in Writers \ lost =>
    path["writer"] # None /\ path["writer"].owner = p /\ <<p, "writer">> \in listening

LEMMA LeaseKept ==
  ASSUME LeaseInv, NEW p \in Procs, LeaseTypeOK', OthersAlone(p), LockPassed(p), NamesKept(p),
         SocketsOf(p)', Shown(p)'
  PROVE  LeaseInv'
<1>1. LockHeld'
  BY DEF LeaseInv, LockHeld, OthersAlone, LockPassed
<1>2. StaleStays'
  BY DEF LeaseInv, StaleStays, LockHeld, LeaseTypeOK, OthersAlone, NamesKept
<1>3. \A q \in Procs : SocketsOf(q)'
  <2>1. ASSUME NEW q \in Procs \ {p} PROVE SocketsOf(q)'
    <3>1. pc'[q] = pc[q] /\ key'[q] = key[q] /\ guard'[q] = guard[q]
          /\ (<<q, "daemon">> \in listening' <=> <<q, "daemon">> \in listening)
      BY DEF OthersAlone, Keys
    <3>2. SocketsOf(q)
      BY DEF LeaseInv
    <3> QED
      BY <3>1, <3>2 DEF SocketsOf
  <2> QED
    BY <2>1
<1>4. LeaseShown'
  <2> SUFFICES ASSUME NEW q \in Procs \ {p}, q \in Writers', q \notin lost'
               PROVE  path'["writer"] # None /\ path'["writer"].owner = q /\ <<q, "writer">> \in listening'
    BY DEF LeaseShown, Writers, Shown
  <2>1. q \in Writers \ lost
    BY DEF Writers, OthersAlone
  <2> QED
    BY <2>1 DEF LeaseInv, LeaseShown, OthersAlone, NamesKept, Keys
<1> QED
  BY <1>1, <1>2, <1>3, <1>4 DEF LeaseInv

LEMMA GoTypes ==
  ASSUME LeaseTypeOK, NEW p \in Procs, NEW there \in {"off", "release", "checked"} \cup Binding \cup Awake, Go(p, there)
  PROVE  pc' \in [Procs -> {"off", "release", "checked"} \cup Binding \cup Awake]
  BY DEF Go, LeaseTypeOK

LEMMA GiveUpTypes ==
  ASSUME LeaseTypeOK, NEW p \in Procs, GiveUp(p)
  PROVE  /\ pc' \in [Procs -> {"off", "release", "checked"} \cup Binding \cup Awake]
         /\ key' \in [Procs -> Keys] /\ listening' \subseteq Procs \X Keys
<1>1. CASE key[p] = "daemon"
  <2>1. Go(p, "release") /\ key' = [key EXCEPT ![p] = "writer"] /\ listening' = listening \ {<<p, "writer">>}
    BY <1>1 DEF GiveUp
  <2> QED
    BY <2>1, GoTypes DEF LeaseTypeOK, Keys
<1>2. CASE key[p] # "daemon"
  <2>1. Go(p, "off") /\ UNCHANGED <<key, listening>>
    BY <1>2 DEF GiveUp
  <2> QED
    BY <2>1, GoTypes DEF LeaseTypeOK
<1> QED
  BY <1>1, <1>2

\* What a process does until it looks at a socket.
LEMMA ApproachKeeps ==
  ASSUME LeaseInv, NEW p \in Procs, Discover(p) \/ AcquireLock(p)
  PROVE  LeaseInv'
<1>1. LeaseTypeOK /\ SocketsOf(p) /\ None \notin Procs /\ Shown(p)
  BY LeaseAssumption DEF LeaseInv, LeaseShown, Shown
<1>2. LeaseTypeOK'
  <2>1. CASE Discover(p)
    <3>1. Go(p, "lock") /\ key' = [key EXCEPT ![p] = "writer"]
          /\ UNCHANGED <<seen, guard, listening, path, lock, lost>>
      BY <2>1 DEF Discover
    <3>2. pc' \in [Procs -> {"off", "release", "checked"} \cup Binding \cup Awake]
      BY <1>1, <3>1, GoTypes DEF Binding
    <3> QED
      BY <1>1, <3>1, <3>2 DEF LeaseTypeOK, Keys
  <2>2. CASE AcquireLock(p)
    <3>1. Go(p, "inspect") /\ lock' = p /\ UNCHANGED <<key, seen, guard, listening, path, lost>>
      BY <2>2 DEF AcquireLock
    <3>2. pc' \in [Procs -> {"off", "release", "checked"} \cup Binding \cup Awake]
      BY <1>1, <3>1, GoTypes DEF Binding
    <3> QED
      BY <1>1, <3>1, <3>2 DEF LeaseTypeOK
  <2> QED
    BY <2>1, <2>2
<1>3. OthersAlone(p)
  BY <1>1 DEF Discover, AcquireLock, Go, LeaseTypeOK, OthersAlone
<1>4. LockPassed(p)
  <2>1. CASE Discover(p)
    BY <1>1, <2>1 DEF Discover, Go, LeaseTypeOK, LockPassed
  <2>2. CASE AcquireLock(p)
    BY <1>1, <2>2 DEF AcquireLock, LockPassed
  <2> QED
    BY <2>1, <2>2
<1>5. NamesKept(p)
  <2>1. UNCHANGED <<path, listening>> /\ pc'[p] # "clear"
    BY <1>1 DEF Discover, AcquireLock, Go, LeaseTypeOK
  <2> QED
    BY <2>1 DEF NamesKept, Active
<1>6. SocketsOf(p)'
  BY <1>1 DEF Discover, AcquireLock, Go, LeaseTypeOK, SocketsOf, Binding, Leaving
<1>7. Shown(p)'
  BY <1>1 DEF Discover, AcquireLock, Go, LeaseTypeOK, SocketsOf, Shown, Writers, Leaving, Binding
<1> QED
  BY <1>2, <1>3, <1>4, <1>5, <1>6, <1>7, LeaseKept

LEMMA InspectKeeps ==
  ASSUME LeaseInv, NEW p \in Procs, Inspect(p)
  PROVE  LeaseInv'
<1>1. LeaseTypeOK /\ SocketsOf(p) /\ None \notin Procs /\ Shown(p) /\ lock = p
  BY LeaseAssumption DEF LeaseInv, LeaseShown, Shown, LockHeld, Inspect
<1>2. LeaseTypeOK'
  <2>1. UNCHANGED <<guard, path, lost>>
    BY DEF Inspect
  <2>2. CASE path[key[p]] = None /\ Go(p, "bind") /\ UNCHANGED <<key, seen, listening, lock>>
    <3>1. pc' \in [Procs -> {"off", "release", "checked"} \cup Binding \cup Awake]
      BY <1>1, <2>2, GoTypes DEF Binding
    <3> QED
      BY <1>1, <2>1, <2>2, <3>1 DEF LeaseTypeOK
  <2>3. CASE GiveUp(p) /\ Unlock(p) /\ UNCHANGED seen
    <3>1. lock' \in Procs \cup {None}
      BY <1>1, <2>3 DEF Unlock
    <3> QED
      BY <1>1, <2>1, <2>3, <3>1, GiveUpTypes DEF LeaseTypeOK
  <2>4. CASE /\ path[key[p]] # None /\ Go(p, "clear") /\ seen' = [seen EXCEPT ![p] = path[key[p]].inode]
             /\ UNCHANGED <<key, listening, lock>>
    <3>1. pc' \in [Procs -> {"off", "release", "checked"} \cup Binding \cup Awake]
      BY <1>1, <2>4, GoTypes DEF Binding
    <3>2. seen' \in [Procs -> Inodes \cup {None}]
      BY <1>1, <2>4 DEF LeaseTypeOK
    <3> QED
      BY <1>1, <2>1, <2>4, <3>1, <3>2 DEF LeaseTypeOK
  <2> QED
    BY <2>2, <2>3, <2>4 DEF Inspect
<1>3. OthersAlone(p)
  BY <1>1 DEF Inspect, GiveUp, Go, LeaseTypeOK, OthersAlone
<1>4. LockPassed(p)
  BY <1>1 DEF Inspect, GiveUp, Unlock, Go, LeaseTypeOK, LockPassed
<1>5. NamesKept(p)
  BY <1>1 DEF Inspect, GiveUp, Go, LeaseTypeOK, NamesKept, Active
<1>6. SocketsOf(p)'
  BY <1>1 DEF Inspect, GiveUp, Go, LeaseTypeOK, SocketsOf, Binding, Leaving, Keys
<1>7. Shown(p)'
  BY <1>1 DEF Inspect, GiveUp, Go, LeaseTypeOK, SocketsOf, Shown, Writers, Leaving, Binding, Keys
<1> QED
  BY <1>2, <1>3, <1>4, <1>5, <1>6, <1>7, LeaseKept

LEMMA RemoveStaleKeeps ==
  ASSUME LeaseInv, NEW p \in Procs, RemoveStale(p)
  PROVE  LeaseInv'
<1>1. LeaseTypeOK /\ SocketsOf(p) /\ None \notin Procs /\ Shown(p) /\ lock = p /\ ~ Active(key[p])
  BY LeaseAssumption DEF LeaseInv, LeaseShown, Shown, LockHeld, StaleStays, RemoveStale
<1>2. LeaseTypeOK'
  BY <1>1 DEF RemoveStale, GiveUp, Unlock, Go, LeaseTypeOK, Binding, Awake, Keys
<1>3. OthersAlone(p)
  BY <1>1 DEF RemoveStale, GiveUp, Unlock, Go, LeaseTypeOK, OthersAlone
<1>4. LockPassed(p)
  BY <1>1 DEF RemoveStale, GiveUp, Unlock, Go, LeaseTypeOK, LockPassed, Awake
<1>5. NamesKept(p)
  BY <1>1 DEF RemoveStale, GiveUp, Unlock, Go, LeaseTypeOK, NamesKept, Active, Awake
<1>6. SocketsOf(p)'
  BY <1>1 DEF RemoveStale, GiveUp, Unlock, Go, LeaseTypeOK, SocketsOf, Binding, Leaving, Awake, Keys
<1>7. Shown(p)'
  BY <1>1 DEF RemoveStale, GiveUp, Unlock, Go, LeaseTypeOK, SocketsOf, Shown, Writers, Binding, Leaving, Awake, Keys
<1> QED
  BY <1>2, <1>3, <1>4, <1>5, <1>6, <1>7, LeaseKept

LEMMA BindKeeps ==
  ASSUME LeaseInv, NEW p \in Procs, Bind(p)
  PROVE  LeaseInv'
<1>1. LeaseTypeOK /\ SocketsOf(p) /\ None \notin Procs /\ Shown(p) /\ lock = p
      /\ None \notin [inode : Inodes, owner : Procs]
  BY LeaseAssumption DEF LeaseInv, LeaseShown, Shown, LockHeld, Bind
<1>2. LeaseTypeOK'
  <2>1. guard' \in [Procs -> [Keys -> Inodes \cup {None}]]
    <3>1. guard' = guard \/ \E i \in Inodes : guard' = [guard EXCEPT ![p][key[p]] = i]
      BY DEF Bind
    <3> QED
      BY <1>1, <3>1 DEF LeaseTypeOK
  <2>2. path' \in [Keys -> [inode : Inodes, owner : Procs] \cup {None}]
    BY <1>1 DEF Bind, LeaseTypeOK
  <2>3. pc' \in [Procs -> {"off", "release", "checked"} \cup Binding \cup Awake] /\ key' \in [Procs -> Keys]
    BY <1>1 DEF Bind, GiveUp, Go, LeaseTypeOK, Awake, Keys
  <2>4. listening' \subseteq Procs \X Keys /\ lock' \in Procs \cup {None}
    BY <1>1 DEF Bind, GiveUp, Unlock, LeaseTypeOK
  <2> QED
    BY <1>1, <2>1, <2>2, <2>3, <2>4 DEF Bind, LeaseTypeOK
<1>3. OthersAlone(p)
  BY <1>1 DEF Bind, GiveUp, Unlock, Go, LeaseTypeOK, OthersAlone
<1>4. LockPassed(p)
  BY <1>1 DEF Bind, GiveUp, Unlock, Go, LeaseTypeOK, LockPassed, Awake
<1>5. NamesKept(p)
  BY <1>1 DEF Bind, GiveUp, Unlock, Go, LeaseTypeOK, NamesKept, Active, Awake
<1>6. SocketsOf(p)'
  <2>1. CASE path[key[p]] = None
    <3>1. PICK i \in Inodes :
            /\ guard' = [guard EXCEPT ![p][key[p]] = i]
            /\ listening' = listening \cup {<<p, key[p]>>} /\ key' = key
            /\ pc' = [pc EXCEPT ![p] = IF key[p] = "daemon" THEN "serving"
                                       ELSE IF p \in Daemons THEN "startup" ELSE "writing"]
      BY <2>1 DEF Bind, Go
    <3>2. i # None /\ key[p] \in {"writer", "daemon"} /\ pc[p] = "bind"
      BY <1>1, LeaseAssumption DEF Bind, LeaseTypeOK, Keys
    <3>3. CASE key[p] = "daemon"
      BY <1>1, <3>1, <3>2, <3>3 DEF LeaseTypeOK, SocketsOf, Binding, Leaving, Keys
    <3>4. CASE key[p] = "writer"
      BY <1>1, <3>1, <3>2, <3>4 DEF LeaseTypeOK, SocketsOf, Binding, Leaving, Keys
    <3> QED
      BY <3>2, <3>3, <3>4
  <2>2. CASE path[key[p]] # None
    BY <1>1, <2>2 DEF Bind, GiveUp, Go, LeaseTypeOK, SocketsOf, Binding, Leaving, Keys
  <2> QED
    BY <2>1, <2>2
<1>7. Shown(p)'
  BY <1>1 DEF Bind, GiveUp, Unlock, Go, LeaseTypeOK, SocketsOf, Shown, Writers, Binding, Leaving, Awake, Keys
<1> QED
  BY <1>2, <1>3, <1>4, <1>5, <1>6, <1>7, LeaseKept

LEMMA StopKeeps ==
  ASSUME LeaseInv, NEW p \in Procs, Startup(p) \/ StopServing(p)
  PROVE  LeaseInv'
<1>1. LeaseTypeOK /\ SocketsOf(p) /\ None \notin Procs /\ Shown(p)
  BY LeaseAssumption DEF LeaseInv, LeaseShown, Shown
<1>2. LeaseTypeOK'
  BY <1>1 DEF Startup, StopServing, Go, LeaseTypeOK, Binding, Awake, Keys
<1>3. OthersAlone(p)
  BY <1>1 DEF Startup, StopServing, Go, LeaseTypeOK, OthersAlone
<1>4. LockPassed(p)
  BY <1>1 DEF Startup, StopServing, Go, LeaseTypeOK, LockPassed, Awake
<1>5. NamesKept(p)
  BY <1>1 DEF Startup, StopServing, Go, LeaseTypeOK, NamesKept, Active, Awake
<1>6. SocketsOf(p)'
  BY <1>1 DEF Startup, StopServing, Go, LeaseTypeOK, SocketsOf, Binding, Leaving, Awake, Keys
<1>7. Shown(p)'
  BY <1>1 DEF Startup, StopServing, Go, LeaseTypeOK, SocketsOf, Shown, Writers, Binding, Leaving, Awake, Keys
<1> QED
  BY <1>2, <1>3, <1>4, <1>5, <1>6, <1>7, LeaseKept

LEMMA CheckGuardKeeps ==
  ASSUME LeaseInv, NEW p \in Procs, CheckGuard(p)
  PROVE  LeaseInv'
<1>1. LeaseTypeOK /\ SocketsOf(p) /\ None \notin Procs /\ Shown(p)
  BY LeaseAssumption DEF LeaseInv, LeaseShown, Shown
<1>2. LeaseTypeOK'
  <2>1. guard' \in [Procs -> [Keys -> Inodes \cup {None}]]
    <3>1. guard' = guard \/ guard' = [guard EXCEPT ![p][key[p]] = None]
      BY DEF CheckGuard, Dropped
    <3>2. key[p] \in Keys /\ guard \in [Procs -> [Keys -> Inodes \cup {None}]]
      BY <1>1 DEF LeaseTypeOK
    <3> QED
      BY <3>1, <3>2
  <2>2. pc' \in [Procs -> {"off", "release", "checked"} \cup Binding \cup Awake] /\ key' \in [Procs -> Keys]
    BY <1>1 DEF CheckGuard, Dropped, Go, LeaseTypeOK, Keys
  <2>3. listening' \subseteq Procs \X Keys /\ lost' \subseteq Procs
    BY <1>1 DEF CheckGuard, Dropped, LeaseTypeOK
  <2> QED
    BY <1>1, <2>1, <2>2, <2>3 DEF CheckGuard, LeaseTypeOK
<1>3. OthersAlone(p)
  BY <1>1 DEF CheckGuard, Dropped, Go, LeaseTypeOK, OthersAlone
<1>4. LockPassed(p)
  BY <1>1 DEF CheckGuard, Dropped, Go, LeaseTypeOK, LockPassed, Awake
<1>5. NamesKept(p)
  BY <1>1 DEF CheckGuard, Dropped, Go, LeaseTypeOK, NamesKept, Active, Awake
<1>6. SocketsOf(p)'
  BY <1>1 DEF CheckGuard, Dropped, Go, LeaseTypeOK, SocketsOf, Binding, Leaving, Awake, Keys
<1>7. Shown(p)'
  BY <1>1 DEF CheckGuard, Dropped, Go, LeaseTypeOK, SocketsOf, Shown, Writers, Binding, Leaving, Awake, Keys
<1> QED
  BY <1>2, <1>3, <1>4, <1>5, <1>6, <1>7, LeaseKept

LEMMA UnlinkNameKeeps ==
  ASSUME LeaseInv, NEW p \in Procs, UnlinkName(p)
  PROVE  LeaseInv'
<1>1. LeaseTypeOK /\ SocketsOf(p) /\ None \notin Procs /\ Shown(p)
  BY LeaseAssumption DEF LeaseInv, LeaseShown, Shown
<1>2. LeaseTypeOK'
  BY <1>1 DEF UnlinkName, Dropped, Go, LeaseTypeOK, Binding, Awake, Keys
<1>3. OthersAlone(p)
  BY <1>1 DEF UnlinkName, Dropped, Go, LeaseTypeOK, OthersAlone
<1>4. LockPassed(p)
  BY <1>1 DEF UnlinkName, Dropped, Go, LeaseTypeOK, LockPassed, Awake
<1>5. NamesKept(p)
  BY <1>1 DEF UnlinkName, Dropped, Go, LeaseTypeOK, NamesKept, Active, Awake
<1>6. SocketsOf(p)'
  BY <1>1 DEF UnlinkName, Dropped, Go, LeaseTypeOK, SocketsOf, Binding, Leaving, Awake, Keys
<1>7. Shown(p)'
  BY <1>1 DEF UnlinkName, Dropped, Go, LeaseTypeOK, SocketsOf, Shown, Writers, Binding, Leaving, Awake, Keys
<1> QED
  BY <1>2, <1>3, <1>4, <1>5, <1>6, <1>7, LeaseKept

LEMMA FailureKeeps ==
  ASSUME LeaseInv, NEW p \in Procs, MonitorEnds(p) \/ Crash(p)
  PROVE  LeaseInv'
<1>1. LeaseTypeOK /\ SocketsOf(p) /\ None \notin Procs /\ Shown(p)
  BY LeaseAssumption DEF LeaseInv, LeaseShown, Shown
<1>2. LeaseTypeOK'
  <2>1. CASE MonitorEnds(p)
    BY <1>1, <2>1 DEF MonitorEnds, LeaseTypeOK
  <2>2. CASE Crash(p)
    <3>1. guard' \in [Procs -> [Keys -> Inodes \cup {None}]]
      BY <1>1, <2>2 DEF Crash, LeaseTypeOK
    <3>2. /\ pc' \in [Procs -> {"off", "release", "checked"} \cup Binding \cup Awake]
          /\ key' \in [Procs -> Keys] /\ seen' \in [Procs -> Inodes \cup {None}]
      BY <1>1, <2>2 DEF Crash, Go, LeaseTypeOK, Keys
    <3> QED
      BY <1>1, <2>2, <3>1, <3>2 DEF Crash, Unlock, LeaseTypeOK
  <2> QED
    BY <2>1, <2>2
<1>3. OthersAlone(p)
  BY <1>1 DEF MonitorEnds, Crash, Unlock, Go, LeaseTypeOK, OthersAlone
<1>4. LockPassed(p)
  BY <1>1 DEF MonitorEnds, Crash, Unlock, Go, LeaseTypeOK, LockPassed, Awake
<1>5. NamesKept(p)
  BY <1>1 DEF MonitorEnds, Crash, Unlock, Go, LeaseTypeOK, NamesKept, Active, Awake
<1>6. SocketsOf(p)'
  BY <1>1 DEF MonitorEnds, Crash, Unlock, Go, LeaseTypeOK, SocketsOf, Binding, Leaving, Awake, Keys
<1>7. Shown(p)'
  BY <1>1 DEF MonitorEnds, Crash, Unlock, Go, LeaseTypeOK, SocketsOf, Shown, Writers, Binding, Leaving, Awake, Keys
<1> QED
  BY <1>2, <1>3, <1>4, <1>5, <1>6, <1>7, LeaseKept

-----------------------------------------------------------------------------
LEMMA LeaseInvNext == LeaseInv /\ [LeaseNext]_leaseVars => LeaseInv'
<1> SUFFICES ASSUME LeaseInv, [LeaseNext]_leaseVars PROVE LeaseInv'
  OBVIOUS
<1>1. CASE LeaseNext
  BY <1>1, ApproachKeeps, InspectKeeps, RemoveStaleKeeps, BindKeeps, StopKeeps, CheckGuardKeeps,
     UnlinkNameKeeps, FailureKeeps DEF LeaseNext
<1>2. CASE UNCHANGED leaseVars
  BY <1>2 DEF leaseVars, LeaseInv, LeaseTypeOK, LockHeld, StaleStays, LeaseShown, SocketsOf, Writers, Active
<1> QED
  BY <1>1, <1>2

LEMMA LeaseInvHolds == LeaseSpec => []LeaseInv
  BY LeaseInvInit, LeaseInvNext, PTL DEF LeaseSpec

\* Processes, sockets, names and the lock keep their types.
THEOREM LeaseTypes == LeaseSpec => []LeaseTypeOK
<1>1. LeaseInv => LeaseTypeOK
  BY DEF LeaseInv
<1> QED
  BY <1>1, LeaseInvHolds, PTL

\* Two processes never hold the lease of one library (WriterLease::acquire,
\* bind_private_socket, SocketGuard), and a client that finds the control
\* socket listened on reaches the process that holds it, unless a lease was
\* lost to the gap between the check of a guard and its unlink or to the end
\* of a monitor.
THEOREM OneReachedWriterHolds == LeaseSpec => []OneReachedWriter
<1>1. LeaseInv => OneWriterUnlessLost
  <2> SUFFICES ASSUME LeaseInv, NEW p \in Writers, NEW q \in Writers, p # q, p \notin lost
               PROVE  q \in lost
    BY DEF OneWriterUnlessLost
  <2>1. path["writer"].owner = p
    BY DEF LeaseInv, LeaseShown
  <2> QED
    BY <2>1 DEF LeaseInv, LeaseShown
<1>2. LeaseInv => ReachedDaemonOwnsWriter
  <2> SUFFICES ASSUME LeaseInv, Active("daemon")
               PROVE  LET d == path["daemon"].owner IN
                        guard[d]["writer"] # None /\ (d \in lost \/ <<d, "writer">> \in listening)
    BY DEF ReachedDaemonOwnsWriter
  <2> DEFINE d == path["daemon"].owner
  <2>1. d \in Procs /\ <<d, "daemon">> \in listening
    BY DEF Active, LeaseInv, LeaseTypeOK
  <2> HIDE DEF d
  <2>2. pc[d] = "serving"
    BY <2>1 DEF LeaseInv, SocketsOf
  <2>3. guard[d]["writer"] # None /\ d \in Writers
    BY <2>1, <2>2 DEF LeaseInv, SocketsOf, Writers, Binding, Leaving
  <2> QED
    BY <2>3 DEF d, LeaseInv, LeaseShown
<1>3. LeaseInv => OneReachedWriter
  BY <1>1, <1>2 DEF OneReachedWriter
<1> QED
  BY <1>3, LeaseInvHolds, PTL

-----------------------------------------------------------------------------
(* Requests and the staged draft.                                          *)

Drafts == [token : 0..MaxTokens, parts : Seq(Clients), crossed : BOOLEAN]
IpcTypes ==
  /\ IpcTypeOK /\ staged \in Drafts
  /\ staged.token # 0 <=> staged # NoDraft
\* A client without a draft knows no token.
IdleKnowsNothing == \A c \in Clients : step[c] = "idle" => answered[c] /\ token[c] = 0 /\ sent[c] = 0
\* A request whose client still waits says where that client is, and is its only one.
RequestsCurrent ==
  /\ \A i \in DOMAIN backlog : backlog[i].from # NoClient =>
       ~ answered[backlog[i].from] /\ backlog[i].offset = sent[backlog[i].from]
  /\ \A i, j \in DOMAIN backlog :
       backlog[i].from = backlog[j].from /\ backlog[i].from # NoClient => i = j
\* Client c holds token t of this daemon, or has a request or chunks under it.
Claims(t, c) ==
  \/ c \notin restarted /\ token[c] = t
  \/ \E i \in DOMAIN backlog : ~ backlog[i].old /\ backlog[i].by = c /\ backlog[i].token = t
  \/ ~ staged.crossed /\ staged.token = t /\ \E j \in DOMAIN staged.parts : staged.parts[j] = c
TokensGiven ==
  /\ \A t \in 1..MaxTokens, c \in Clients : Claims(t, c) => t < nextToken /\ daemonUp
  /\ staged.token < nextToken /\ (~ daemonUp => staged = NoDraft)
TokensApart == \A t \in 1..MaxTokens, c, d \in Clients : Claims(t, c) /\ Claims(t, d) => c = d
IpcInv ==
  /\ IpcTypes /\ IdleKnowsNothing /\ RequestsCurrent
  /\ TokensGiven /\ TokensApart /\ OneClientPerDraft

LEMMA IpcInvInit == IpcInit => IpcInv
<1> SUFFICES ASSUME IpcInit PROVE IpcInv
  OBVIOUS
<1>1. IpcTypes /\ IdleKnowsNothing /\ RequestsCurrent
  BY IpcAssumption DEF IpcInit, IpcTypes, IpcTypeOK, Drafts, NoDraft, IdleKnowsNothing, RequestsCurrent, ClientSteps
<1>2. \A t \in 1..MaxTokens, c \in Clients : ~ Claims(t, c)
  <2>1. MaxTokens \in Nat /\ staged.token = 0 /\ backlog = <<>>
    BY IpcAssumption DEF IpcInit, NoDraft
  <2>2. \A c \in Clients : token[c] = 0
    BY DEF IpcInit
  <2> QED
    <3>1. \A t \in 1..MaxTokens : t # 0
      BY <2>1
    <3>2. \A i \in DOMAIN backlog : FALSE
      BY <2>1
    <3> QED
      BY <2>1, <2>2, <3>1, <3>2, Zenon DEF Claims
<1> QED
  BY <1>1, <1>2 DEF IpcInit, IpcInv, TokensGiven, TokensApart, OneClientPerDraft, NoDraft

-----------------------------------------------------------------------------
\* No client claims a token it did not claim before.
NoNewClaim == \A t \in 1..MaxTokens, c \in Clients : Claims(t, c)' => Claims(t, c)
LEMMA ClaimsKept ==
  ASSUME IpcInv, NoNewClaim, nextToken' = nextToken, daemonUp' = daemonUp,
         staged'.token \in {0, staged.token}, IpcTypes', ~ daemonUp => staged' = NoDraft
  PROVE  TokensGiven' /\ TokensApart'
<1>1. nextToken \in 1..(MaxTokens + 1) /\ MaxTokens \in Nat
  BY IpcAssumption DEF IpcInv, IpcTypes, IpcTypeOK
<1>2. TokensGiven'
  BY <1>1 DEF IpcInv, TokensGiven, NoNewClaim
<1>3. TokensApart'
  BY DEF IpcInv, TokensApart, NoNewClaim
<1> QED
  BY <1>2, <1>3

-----------------------------------------------------------------------------
(* Clients.                                                                *)

LEMMA CallKeeps ==
  ASSUME IpcInv, NEW c \in Clients, NEW kind \in ClientSteps \ {"idle"}, Call(c, kind),
         answered[c], restarted' = restarted \/ (token[c] = 0 /\ restarted' = restarted \ {c}),
         UNCHANGED <<token, sent, staged, nextToken, daemonUp, added>>
  PROVE  IpcInv'
<1> DEFINE r == [from |-> c, by |-> c, kind |-> kind, token |-> token[c], offset |-> sent[c], old |-> c \in restarted]
<1>1. IpcTypes /\ IpcTypeOK /\ MaxTokens \in Nat /\ backlog \in Seq(Requests)
  BY IpcAssumption DEF IpcInv, IpcTypes, IpcTypeOK
<1>2. r \in Requests
  BY <1>1 DEF IpcTypeOK, Requests
<1>3. /\ backlog' = Append(backlog, r) /\ backlog' \in Seq(Requests) /\ Len(backlog') <= MaxBacklog
  BY <1>1, <1>2, IpcAssumption DEF Call
<1>4. /\ Len(backlog) \in Nat /\ DOMAIN backlog = 1..Len(backlog) /\ DOMAIN backlog' = 1..(Len(backlog) + 1)
      /\ \A i \in DOMAIN backlog : backlog'[i] = backlog[i]
      /\ backlog'[Len(backlog) + 1] = r
  BY <1>1, <1>2, <1>3
<1>5. r.from = c /\ r.by = c /\ r.token = token[c] /\ r.offset = sent[c] /\ r.old = (c \in restarted)
  OBVIOUS
<1> HIDE DEF r
<1>6. IpcTypes'
  BY <1>1, <1>3 DEF IpcTypes, IpcTypeOK, Call
<1>7. IdleKnowsNothing'
  BY <1>1 DEF IpcInv, IdleKnowsNothing, IpcTypeOK, Call
<1>8. RequestsCurrent'
  <2>1. \A i \in DOMAIN backlog : backlog[i].from # c
    BY IpcAssumption DEF IpcInv, RequestsCurrent
  <2>2. answered' = [answered EXCEPT ![c] = FALSE] /\ answered \in [Clients -> BOOLEAN] /\ sent' = sent
    BY <1>1 DEF Call, IpcTypeOK
  <2>3. \A i \in DOMAIN backlog : backlog[i] \in Requests
    BY <1>1
  <2>4. ASSUME NEW i \in DOMAIN backlog', backlog'[i].from # NoClient
        PROVE  ~ answered'[backlog'[i].from] /\ backlog'[i].offset = sent'[backlog'[i].from]
    <3>1. CASE i \in DOMAIN backlog
      <4>1. backlog[i].from \in Clients \ {c} /\ backlog'[i] = backlog[i]
        BY <1>4, <2>1, <2>3, <2>4, <3>1 DEF Requests
      <4> QED
        BY <2>2, <2>4, <3>1, <4>1 DEF IpcInv, RequestsCurrent
    <3>2. CASE i = Len(backlog) + 1
      BY <1>4, <1>5, <2>2, <3>2
    <3> QED
      BY <1>4, <3>1, <3>2
  <2>5. ASSUME NEW i \in DOMAIN backlog', NEW j \in DOMAIN backlog',
               backlog'[i].from = backlog'[j].from, backlog'[i].from # NoClient
        PROVE  i = j
    BY <1>4, <1>5, <2>1, <2>5 DEF IpcInv, RequestsCurrent
  <2> QED
    BY <2>4, <2>5 DEF RequestsCurrent
<1>9. NoNewClaim
  <2> SUFFICES ASSUME NEW t \in 1..MaxTokens, NEW d \in Clients, Claims(t, d)' PROVE Claims(t, d)
    BY DEF NoNewClaim
  <2>1. CASE d \notin restarted' /\ token'[d] = t
    <3>1. t # 0 /\ token[d] = t
      BY <1>1, <2>1
    <3>2. d \notin restarted
      BY <3>1, <2>1
    <3> QED
      BY <3>1, <3>2 DEF Claims
  <2>2. CASE \E i \in DOMAIN backlog' : ~ backlog'[i].old /\ backlog'[i].by = d /\ backlog'[i].token = t
    <3>1. PICK i \in DOMAIN backlog' : ~ backlog'[i].old /\ backlog'[i].by = d /\ backlog'[i].token = t
      BY <2>2
    <3>2. CASE i \in DOMAIN backlog
      BY <1>4, <3>1, <3>2 DEF Claims
    <3>3. CASE i = Len(backlog) + 1
      BY <1>4, <1>5, <3>1, <3>3 DEF Claims
    <3> QED
      BY <1>4, <3>2, <3>3
  <2>3. CASE ~ staged'.crossed /\ staged'.token = t /\ \E j \in DOMAIN staged'.parts : staged'.parts[j] = d
    BY <2>3 DEF Claims
  <2> QED
    BY <2>1, <2>2, <2>3 DEF Claims
<1>10. TokensGiven' /\ TokensApart'
  BY <1>6, <1>9, ClaimsKept DEF IpcInv, TokensGiven
<1>11. OneClientPerDraft'
  BY DEF IpcInv, OneClientPerDraft
<1> QED
  BY <1>6, <1>7, <1>8, <1>10, <1>11 DEF IpcInv

LEMMA BeginDraftKeeps ==
  ASSUME IpcInv, NEW c \in Clients, BeginDraft(c)
  PROVE  IpcInv'
  BY CallKeeps DEF BeginDraft, IpcInv, IdleKnowsNothing, ClientSteps

LEMMA NextCallKeeps ==
  ASSUME IpcInv, NEW c \in Clients, NextCall(c)
  PROVE  IpcInv'
<1> DEFINE kind == IF sent[c] < Chunks THEN "append" ELSE "add"
<1>1. kind \in ClientSteps \ {"idle"}
  BY DEF ClientSteps
<1>2. /\ Call(c, kind) /\ answered[c] /\ restarted' = restarted
      /\ UNCHANGED <<token, sent, staged, nextToken, daemonUp, added>>
  BY DEF NextCall
<1> HIDE DEF kind
<1> QED
  BY <1>1, <1>2, CallKeeps

\* A client that leaves forgets its token.
LEMMA LeaveTypes ==
  ASSUME IpcTypeOK, NEW c \in Clients, Leave(c)
  PROVE  /\ step' \in [Clients -> ClientSteps] /\ answered' \in [Clients -> BOOLEAN]
         /\ token' \in [Clients -> 0..MaxTokens] /\ sent' \in [Clients -> 0..Chunks]
         /\ \A d \in Clients \ {c} : /\ step'[d] = step[d] /\ answered'[d] = answered[d]
                                     /\ token'[d] = token[d] /\ sent'[d] = sent[d]
         /\ step'[c] = "idle" /\ answered'[c] /\ token'[c] = 0 /\ sent'[c] = 0
<1>1. /\ step' = [step EXCEPT ![c] = "idle"] /\ answered' = [answered EXCEPT ![c] = TRUE]
      /\ token' = [token EXCEPT ![c] = 0] /\ sent' = [sent EXCEPT ![c] = 0]
  BY DEF Leave
<1>2. "idle" \in ClientSteps /\ 0 \in 0..MaxTokens /\ 0 \in 0..Chunks
  BY IpcAssumption DEF ClientSteps
<1>3. /\ step \in [Clients -> ClientSteps] /\ answered \in [Clients -> BOOLEAN]
      /\ token \in [Clients -> 0..MaxTokens] /\ sent \in [Clients -> 0..Chunks]
  BY DEF IpcTypeOK
<1> QED
  BY <1>1, <1>2, <1>3

LEMMA GiveUpCallKeeps ==
  ASSUME IpcInv, NEW c \in Clients, GiveUpCall(c)
  PROVE  IpcInv'
<1>1. IpcTypes /\ IpcTypeOK /\ Leave(c) /\ MaxTokens \in Nat
      /\ backlog \in Seq(Requests) /\ DOMAIN backlog = 1..Len(backlog) /\ Len(backlog) \in Nat
  <2>1. IpcTypes /\ IpcTypeOK /\ Leave(c) /\ MaxTokens \in Nat
    BY IpcAssumption DEF IpcInv, IpcTypes, GiveUpCall
  <2>2. backlog \in Seq(Requests)
    BY <2>1 DEF IpcTypeOK
  <2> QED
    BY <2>1, <2>2
<1>2. \A i \in DOMAIN backlog : backlog[i] \in Requests
  BY <1>1
<1>3. /\ DOMAIN backlog' = DOMAIN backlog
      /\ \A i \in DOMAIN backlog :
           /\ backlog'[i] \in Requests
           /\ backlog'[i].by = backlog[i].by /\ backlog'[i].token = backlog[i].token
           /\ backlog'[i].old = backlog[i].old /\ backlog'[i].offset = backlog[i].offset
           /\ backlog'[i].from = IF backlog[i].from = c THEN NoClient ELSE backlog[i].from
  BY <1>2 DEF GiveUpCall, Requests
<1>4. backlog' \in Seq(Requests) /\ Len(backlog') = Len(backlog)
  BY <1>1, <1>3 DEF GiveUpCall
<1>5. UNCHANGED <<staged, nextToken, daemonUp, added, restarted>>
  BY DEF GiveUpCall
<1>6. IpcTypes'
  BY <1>1, <1>4, <1>5, LeaveTypes DEF IpcTypes, IpcTypeOK
<1>7. IdleKnowsNothing'
  BY <1>1, LeaveTypes DEF IpcInv, IdleKnowsNothing
<1>8. RequestsCurrent'
  <2>1. \A i \in DOMAIN backlog' : backlog'[i].from # NoClient =>
           backlog[i].from = backlog'[i].from /\ backlog[i].from \in Clients \ {c}
    BY <1>2, <1>3 DEF Requests
  <2>2. \A i \in DOMAIN backlog' : backlog'[i].from # NoClient =>
           ~ answered'[backlog'[i].from] /\ backlog'[i].offset = sent'[backlog'[i].from]
    <3> SUFFICES ASSUME NEW i \in DOMAIN backlog', backlog'[i].from # NoClient
                 PROVE  ~ answered'[backlog'[i].from] /\ backlog'[i].offset = sent'[backlog'[i].from]
      OBVIOUS
    <3>1. PICK d \in Clients \ {c} : d = backlog'[i].from /\ d = backlog[i].from
      BY <2>1
    <3>2. i \in DOMAIN backlog /\ backlog'[i].offset = backlog[i].offset
      BY <1>3
    <3>3. ~ answered[d] /\ backlog[i].offset = sent[d]
      BY <3>1, <3>2, IpcAssumption DEF IpcInv, RequestsCurrent
    <3>4. answered'[d] = answered[d] /\ sent'[d] = sent[d]
      BY <1>1, LeaveTypes
    <3> QED
      BY <3>1, <3>2, <3>3, <3>4
  <2>3. \A i, j \in DOMAIN backlog' :
           backlog'[i].from = backlog'[j].from /\ backlog'[i].from # NoClient => i = j
    BY <1>3, <2>1 DEF IpcInv, RequestsCurrent
  <2> QED
    BY <2>2, <2>3 DEF RequestsCurrent
<1>9. NoNewClaim
  <2> SUFFICES ASSUME NEW t \in 1..MaxTokens, NEW d \in Clients, Claims(t, d)' PROVE Claims(t, d)
    BY DEF NoNewClaim
  <2>1. CASE d \notin restarted' /\ token'[d] = t
    <3>1. d # c
      BY <1>1, <2>1, LeaveTypes
    <3>2. d \notin restarted /\ token[d] = t
      BY <1>1, <1>5, <2>1, <3>1, LeaveTypes
    <3> QED
      BY <3>2 DEF Claims
  <2>2. CASE \E i \in DOMAIN backlog' : ~ backlog'[i].old /\ backlog'[i].by = d /\ backlog'[i].token = t
    <3>1. \E i \in DOMAIN backlog : ~ backlog[i].old /\ backlog[i].by = d /\ backlog[i].token = t
      BY <1>3, <2>2
    <3> QED
      BY <3>1 DEF Claims
  <2>3. CASE ~ staged'.crossed /\ staged'.token = t /\ \E j \in DOMAIN staged'.parts : staged'.parts[j] = d
    BY <1>5, <2>3 DEF Claims
  <2> QED
    BY <2>1, <2>2, <2>3 DEF Claims
<1>10. TokensGiven' /\ TokensApart'
  BY <1>5, <1>6, <1>9, ClaimsKept DEF IpcInv, TokensGiven
<1>11. OneClientPerDraft'
  BY <1>5 DEF IpcInv, OneClientPerDraft
<1> QED
  BY <1>6, <1>7, <1>8, <1>10, <1>11 DEF IpcInv

LEMMA AbortKeeps ==
  ASSUME IpcInv, NEW c \in Clients, Abort(c)
  PROVE  IpcInv'
<1>1. CASE Call(c, "abort") /\ UNCHANGED <<token, sent>>
  <2>1. "abort" \in ClientSteps \ {"idle"}
    BY DEF ClientSteps
  <2>2. answered[c] /\ restarted' = restarted /\ UNCHANGED <<token, sent, staged, nextToken, daemonUp, added>>
    BY <1>1 DEF Abort
  <2>3. Call(c, "abort")
    BY <1>1
  <2> QED
    BY <2>1, <2>2, <2>3, CallKeeps
<1>2. CASE Leave(c) /\ UNCHANGED backlog
  <2>1. IpcTypes /\ IpcTypeOK /\ MaxTokens \in Nat
    BY IpcAssumption DEF IpcInv, IpcTypes, IpcTypeOK
  <2>2. UNCHANGED <<staged, nextToken, daemonUp, added, restarted>> /\ answered[c]
    BY DEF Abort
  <2>3. IpcTypes'
    BY <1>2, <2>1, <2>2, LeaveTypes DEF IpcTypes, IpcTypeOK
  <2>4. IdleKnowsNothing'
    BY <1>2, <2>1, LeaveTypes DEF IpcInv, IdleKnowsNothing
  <2>5. RequestsCurrent'
    <3>1. \A i \in DOMAIN backlog : backlog[i].from # c /\ backlog[i].from \in Clients \cup {NoClient}
      <4>1. \A i \in DOMAIN backlog : backlog[i] \in Requests
        BY <2>1 DEF IpcTypeOK
      <4> QED
        BY <2>2, <4>1, IpcAssumption DEF IpcInv, RequestsCurrent, Requests
    <3> QED
      BY <1>2, <2>1, <3>1, LeaveTypes DEF IpcInv, RequestsCurrent
  <2>6. NoNewClaim
    <3> SUFFICES ASSUME NEW t \in 1..MaxTokens, NEW d \in Clients, Claims(t, d)' PROVE Claims(t, d)
      BY DEF NoNewClaim
    <3>1. CASE d \notin restarted' /\ token'[d] = t
      <4>1. d # c
        BY <1>2, <2>1, <3>1, LeaveTypes
      <4>2. d \notin restarted /\ token[d] = t
        BY <1>2, <2>1, <2>2, <3>1, <4>1, LeaveTypes
      <4> QED
        BY <4>2 DEF Claims
    <3> QED
      BY <1>2, <2>2, <3>1 DEF Claims
  <2>7. TokensGiven' /\ TokensApart'
    BY <2>2, <2>3, <2>6, ClaimsKept DEF IpcInv, TokensGiven
  <2>8. OneClientPerDraft'
    BY <2>2 DEF IpcInv, OneClientPerDraft
  <2> QED
    BY <2>3, <2>4, <2>5, <2>7, <2>8 DEF IpcInv
<1> QED
  BY <1>1, <1>2 DEF Abort

-----------------------------------------------------------------------------
(* The daemon.                                                             *)

\* What every answer leaves alone and what it may do to the client it goes to.
AnswerKept(r, ok) ==
  /\ step' \in [Clients -> ClientSteps] /\ answered' \in [Clients -> BOOLEAN]
  /\ token' \in [Clients -> 0..MaxTokens] /\ sent' \in [Clients -> 0..Chunks]
  /\ \A d \in Clients : d # r.from => /\ step'[d] = step[d] /\ answered'[d] = answered[d]
                                      /\ token'[d] = token[d] /\ sent'[d] = sent[d]
  /\ r.from \in Clients =>
       /\ step'[r.from] = "idle" => answered'[r.from] /\ token'[r.from] = 0 /\ sent'[r.from] = 0
       /\ token'[r.from] \in {0, token[r.from]} \/ (ok /\ r.kind = "begin" /\ token'[r.from] = staged'.token)

LEMMA AnswerKeeps ==
  ASSUME IpcInv, NEW r \in Requests, r.from # NoClient => ~ answered[r.from],
         NEW ok \in BOOLEAN, Answer(r, ok), staged'.token \in 0..MaxTokens,
         (ok /\ r.kind = "append" /\ r.from # NoClient) => sent[r.from] < Chunks
  PROVE  AnswerKept(r, ok)
<1>1. IpcTypeOK /\ Chunks \in Nat /\ NoClient \notin Clients /\ r.from \in Clients \cup {NoClient}
  BY IpcAssumption DEF IpcInv, IpcTypes, Requests
<1>2. CASE r.from = NoClient
  BY <1>1, <1>2 DEF Answer, AnswerKept, IpcTypeOK
<1>3. CASE r.from # NoClient
  <2> DEFINE c == r.from
  <2>1. c \in Clients /\ step[c] # "idle"
    BY <1>1, <1>3 DEF IpcInv, IdleKnowsNothing
  <2>2. CASE ~ ok /\ r.kind \in {"append", "add"}
    <3>1. /\ answered' = [answered EXCEPT ![c] = TRUE]
          /\ step' = [step EXCEPT ![c] = "abort"] /\ token' = token /\ sent' = sent
      BY <1>3, <2>2 DEF Answer
    <3> QED
      BY <1>1, <2>1, <3>1 DEF AnswerKept, IpcTypeOK, ClientSteps
  <2>3. CASE ok /\ r.kind = "begin"
    <3>1. /\ answered' = [answered EXCEPT ![c] = TRUE]
          /\ token' = [token EXCEPT ![c] = staged'.token] /\ step' = step /\ sent' = sent
      BY <1>3, <2>3 DEF Answer
    <3> QED
      BY <1>1, <2>1, <2>3, <3>1 DEF AnswerKept, IpcTypeOK
  <2>4. CASE ok /\ r.kind = "append"
    <3>1. /\ answered' = [answered EXCEPT ![c] = TRUE]
          /\ sent' = [sent EXCEPT ![c] = @ + 1] /\ step' = step /\ token' = token
      BY <1>3, <2>4 DEF Answer
    <3>2. sent[c] \in 0..Chunks /\ sent[c] < Chunks
      BY <1>1, <1>3, <2>1, <2>4 DEF IpcTypeOK
    <3>3. sent' \in [Clients -> 0..Chunks]
      BY <1>1, <2>1, <3>1, <3>2 DEF IpcTypeOK
    <3> QED
      BY <1>1, <2>1, <3>1, <3>3 DEF AnswerKept, IpcTypeOK
  <2>5. CASE Leave(c)
    BY <1>1, <2>1, <2>5, LeaveTypes DEF AnswerKept
  <2> QED
    BY <1>3, <2>2, <2>3, <2>4, <2>5 DEF Answer
<1> QED
  BY <1>2, <1>3

\* The oldest request is answered: the backlog, and what of the draft and the
\* tokens a kind of request may change.
LEMMA ServedKeeps ==
  ASSUME IpcInv, daemonUp, backlog # <<>>, NEW ok \in BOOLEAN, AnswerKept(Head(backlog), ok),
         backlog' = Tail(backlog), UNCHANGED <<daemonUp, restarted>>,
         staged' \in Drafts, staged'.token # 0 <=> staged' # NoDraft, Len(staged'.parts) <= Chunks,
         added' \in Seq([by : Clients, parts : Seq(Clients), crossed : BOOLEAN]), OneClientPerDraft',
         \/ /\ nextToken' = nextToken /\ staged'.token \in {0, staged.token}
            /\ ~ (ok /\ Head(backlog).kind = "begin")
         \/ /\ nextToken <= MaxTokens
            /\ staged' = [NoDraft EXCEPT !.token = nextToken] /\ nextToken' = nextToken + 1,
         \A t \in 1..MaxTokens, c \in Clients :
            (~ staged'.crossed /\ staged'.token = t /\ \E j \in DOMAIN staged'.parts : staged'.parts[j] = c)
               => Claims(t, c)
  PROVE  IpcInv'
<1> DEFINE r == Head(backlog)
<1>0. IpcTypes /\ IpcTypeOK /\ MaxTokens \in Nat /\ nextToken \in 1..(MaxTokens + 1)
      /\ backlog \in Seq(Requests) /\ Len(backlog) <= MaxBacklog /\ MaxBacklog \in Nat
  BY IpcAssumption DEF IpcInv, IpcTypes, IpcTypeOK
<1>1. /\ IpcTypes /\ IpcTypeOK /\ MaxTokens \in Nat /\ nextToken \in 1..(MaxTokens + 1)
      /\ backlog \in Seq(Requests) /\ Len(backlog) \in Nat \ {0} /\ Len(backlog) <= MaxBacklog
      /\ DOMAIN backlog = 1..Len(backlog) /\ MaxBacklog \in Nat
  BY <1>0
<1>2. /\ backlog' \in Seq(Requests) /\ Len(backlog') = Len(backlog) - 1
      /\ DOMAIN backlog' = 1..(Len(backlog) - 1)
      /\ \A i \in DOMAIN backlog' : i + 1 \in DOMAIN backlog /\ backlog'[i] = backlog[i + 1]
      /\ r = backlog[1] /\ r \in Requests
  BY <1>1
<1> HIDE DEF r
<1>3. AnswerKept(r, ok)
  BY DEF r
<1>4. IpcTypes'
  <2>1. nextToken' \in 1..(MaxTokens + 1)
    BY <1>1
  <2>2. Len(backlog') <= MaxBacklog /\ daemonUp' \in BOOLEAN /\ restarted' \subseteq Clients
    BY <1>1, <1>2 DEF IpcTypeOK
  <2> QED
    <3>1. /\ step' \in [Clients -> ClientSteps] /\ answered' \in [Clients -> BOOLEAN]
          /\ token' \in [Clients -> 0..MaxTokens] /\ sent' \in [Clients -> 0..Chunks]
      BY <1>3 DEF AnswerKept
    <3>2. staged'.token \in 0..MaxTokens /\ staged'.parts \in Seq(Clients) /\ staged'.crossed \in BOOLEAN
      BY DEF Drafts
    <3> QED
      BY <1>2, <2>1, <2>2, <3>1, <3>2 DEF IpcTypes, IpcTypeOK
<1>5. r.from \in Clients \cup {NoClient} /\ r.by \in Clients /\ NoClient \notin Clients
  BY <1>2, IpcAssumption DEF Requests
<1>6. IdleKnowsNothing'
  <2> SUFFICES ASSUME NEW c \in Clients, step'[c] = "idle"
               PROVE  answered'[c] /\ token'[c] = 0 /\ sent'[c] = 0
    BY DEF IdleKnowsNothing
  <2>1. CASE c = r.from
    BY <1>3, <2>1 DEF AnswerKept
  <2>2. CASE c # r.from
    BY <1>3, <2>2 DEF IpcInv, IdleKnowsNothing, AnswerKept
  <2> QED
    BY <2>1, <2>2
<1>7. RequestsCurrent'
  <2>1. ASSUME NEW i \in DOMAIN backlog', backlog'[i].from # NoClient
        PROVE  ~ answered'[backlog'[i].from] /\ backlog'[i].offset = sent'[backlog'[i].from]
    <3>1. i + 1 \in DOMAIN backlog /\ i + 1 # 1 /\ backlog'[i] = backlog[i + 1] /\ 1 \in DOMAIN backlog
      BY <1>1, <1>2
    <3>2. backlog[i + 1].from \in Clients \ {r.from}
      <4>1. backlog[i + 1] \in Requests
        BY <1>1, <3>1
      <4> QED
        BY <1>2, <2>1, <3>1, <4>1 DEF IpcInv, RequestsCurrent, Requests
    <3>3. ~ answered[backlog[i + 1].from] /\ backlog[i + 1].offset = sent[backlog[i + 1].from]
      BY <2>1, <3>1 DEF IpcInv, RequestsCurrent
    <3> QED
      BY <1>3, <3>1, <3>2, <3>3 DEF AnswerKept
  <2>2. ASSUME NEW i \in DOMAIN backlog', NEW j \in DOMAIN backlog',
               backlog'[i].from = backlog'[j].from, backlog'[i].from # NoClient
        PROVE  i = j
    <3>1. i + 1 = j + 1
      BY <1>2, <2>2 DEF IpcInv, RequestsCurrent
    <3> QED
      BY <1>1, <1>2, <3>1
  <2> QED
    BY <2>1, <2>2 DEF RequestsCurrent
<1>8. ASSUME NEW t \in 1..MaxTokens, NEW c \in Clients, Claims(t, c)'
      PROVE  Claims(t, c) \/ (t = nextToken /\ nextToken' = nextToken + 1 /\ c = r.from)
  <2>1. CASE c \notin restarted' /\ token'[c] = t
    <3>1. CASE token[c] = t
      BY <2>1, <3>1 DEF Claims
    <3>2. CASE token[c] # t
      <4>1. c = r.from /\ ok /\ r.kind = "begin" /\ t = staged'.token
        BY <1>3, <1>5, <2>1, <3>2 DEF AnswerKept
      <4>2. staged' = [NoDraft EXCEPT !.token = nextToken] /\ nextToken' = nextToken + 1
        BY <4>1 DEF r
      <4> QED
        BY <4>1, <4>2 DEF NoDraft
    <3> QED
      BY <3>1, <3>2
  <2>2. CASE \E i \in DOMAIN backlog' : ~ backlog'[i].old /\ backlog'[i].by = c /\ backlog'[i].token = t
    BY <1>2, <2>2 DEF Claims
  <2>3. CASE ~ staged'.crossed /\ staged'.token = t /\ \E j \in DOMAIN staged'.parts : staged'.parts[j] = c
    BY <2>3
  <2> QED
    BY <1>8, <2>1, <2>2, <2>3 DEF Claims
<1>9. TokensGiven'
  <2>1. \A t \in 1..MaxTokens, c \in Clients : Claims(t, c)' => t < nextToken' /\ daemonUp'
    BY <1>1, <1>8 DEF IpcInv, TokensGiven
  <2>2. staged'.token < nextToken'
    BY <1>1 DEF IpcInv, TokensGiven, NoDraft
  <2> QED
    BY <2>1, <2>2 DEF TokensGiven
<1>10. TokensApart'
  <2> SUFFICES ASSUME NEW t \in 1..MaxTokens, NEW c \in Clients, NEW d \in Clients,
                      Claims(t, c)', Claims(t, d)'
               PROVE  c = d
    BY DEF TokensApart
  <2>1. CASE Claims(t, c) /\ Claims(t, d)
    BY <2>1 DEF IpcInv, TokensApart
  <2>2. CASE t = nextToken
    <3>1. ~ Claims(t, c) /\ ~ Claims(t, d)
      BY <1>1, <2>2 DEF IpcInv, TokensGiven
    <3> QED
      BY <1>8, <3>1
  <2> QED
    BY <1>8, <2>1, <2>2
<1> QED
  BY <1>4, <1>6, <1>7, <1>9, <1>10 DEF IpcInv

\* The oldest request is one, and says where its client is.
LEMMA OldestRequest ==
  ASSUME IpcInv, backlog # <<>>
  PROVE  /\ Head(backlog) \in Requests /\ Head(backlog) = backlog[1] /\ 1 \in DOMAIN backlog
         /\ Head(backlog).from # NoClient =>
              ~ answered[Head(backlog).from] /\ Head(backlog).offset = sent[Head(backlog).from]
<1>1. backlog \in Seq(Requests) /\ 1 \in DOMAIN backlog /\ Head(backlog) = backlog[1]
  BY DEF IpcInv, IpcTypes, IpcTypeOK
<1> QED
  BY <1>1 DEF IpcInv, RequestsCurrent

LEMMA ServeKeeps == ASSUME IpcInv, Serve PROVE IpcInv'
<1> DEFINE r == Head(backlog)
<1>1. /\ daemonUp /\ backlog # <<>> /\ backlog' = Tail(backlog) /\ UNCHANGED <<daemonUp, restarted>>
      /\ \/ r.kind = "begin" /\ ServeBegin(r)
         \/ r.kind = "append" /\ ServeAppend(r)
         \/ r.kind = "add" /\ ServeAdd(r)
         \/ r.kind = "abort" /\ ServeAbort(r)
  BY DEF Serve
<1>2. /\ r \in Requests /\ r = backlog[1] /\ 1 \in DOMAIN backlog
      /\ r.from # NoClient => ~ answered[r.from] /\ r.offset = sent[r.from]
  BY <1>1, OldestRequest
<1>3. /\ IpcTypeOK /\ staged \in Drafts /\ (staged.token # 0 <=> staged # NoDraft) /\ Len(staged.parts) <= Chunks
      /\ MaxTokens \in Nat /\ Chunks \in Nat \ {0} /\ nextToken \in 1..(MaxTokens + 1)
      /\ staged.token \in 0..MaxTokens /\ staged.parts \in Seq(Clients) /\ staged.crossed \in BOOLEAN
      /\ added \in Seq([by : Clients, parts : Seq(Clients), crossed : BOOLEAN]) /\ OneClientPerDraft
  BY IpcAssumption DEF IpcInv, IpcTypes, IpcTypeOK, Drafts
<1>4. NoDraft \in Drafts /\ NoDraft.token = 0 /\ NoDraft.parts = <<>>
  BY <1>3 DEF NoDraft, Drafts
<1>5. r.by \in Clients /\ r.token \in 0..MaxTokens /\ r.old \in BOOLEAN
  BY <1>2 DEF Requests
<1> HIDE DEF r
\* chunks that are staged already
<1>6. \A t \in 1..MaxTokens, c \in Clients :
         (~ staged.crossed /\ staged.token = t /\ \E j \in DOMAIN staged.parts : staged.parts[j] = c)
           => Claims(t, c)
  BY DEF Claims
<1>7. CASE ServeBegin(r) /\ r.kind = "begin"
  <2>1. CASE staged # NoDraft
    <3>1. Answer(r, FALSE) /\ UNCHANGED <<staged, nextToken, added>>
      BY <1>7, <2>1 DEF ServeBegin
    <3>2. AnswerKept(r, FALSE)
      BY <1>2, <1>3, <3>1, AnswerKeeps
    <3> QED
      BY <1>1, <1>3, <1>6, <3>1, <3>2, ServedKeeps DEF r, OneClientPerDraft
  <2>2. CASE staged = NoDraft
    <3>1. /\ nextToken <= MaxTokens /\ staged' = [NoDraft EXCEPT !.token = nextToken]
          /\ nextToken' = nextToken + 1 /\ Answer(r, TRUE) /\ added' = added
      BY <1>7, <2>2 DEF ServeBegin
    <3>0. staged' = [token |-> nextToken, parts |-> <<>>, crossed |-> FALSE]
      BY <3>1 DEF NoDraft
    <3>2. staged' \in Drafts /\ staged'.token = nextToken /\ staged'.token \in 0..MaxTokens /\ staged'.parts = <<>>
          /\ staged'.token # 0
      BY <1>3, <3>0, <3>1 DEF Drafts
    <3>3. staged' # NoDraft /\ Len(staged'.parts) <= Chunks /\ DOMAIN staged'.parts = {}
      BY <1>3, <1>4, <3>2
    <3>4. AnswerKept(r, TRUE)
      BY <1>2, <1>7, <3>1, <3>2, AnswerKeeps
    <3>5. OneClientPerDraft'
      BY <1>3, <3>1 DEF OneClientPerDraft
    <3> QED
      BY <1>1, <1>3, <3>1, <3>2, <3>3, <3>4, <3>5, ServedKeeps DEF r
  <2> QED
    BY <2>1, <2>2
<1>8. CASE ServeAppend(r) /\ r.kind = "append"
  <2> DEFINE ok == HoldsDraft(r) /\ r.offset = Len(staged.parts) /\ Len(staged.parts) < Chunks
  <2>1. /\ staged' = IF ok THEN [staged EXCEPT !.parts = Append(@, r.by), !.crossed = @ \/ r.old] ELSE staged
        /\ Answer(r, ok) /\ UNCHANGED <<nextToken, added>>
    BY <1>8 DEF ServeAppend
  <2>2. ok \in BOOLEAN
    OBVIOUS
  <2>3. ok => staged # NoDraft /\ staged.token = r.token /\ r.offset = Len(staged.parts) /\ Len(staged.parts) < Chunks
    BY DEF HoldsDraft
  <2> HIDE DEF ok
  <2>4. CASE ok
    <3>1. /\ staged' \in Drafts /\ staged'.token = staged.token /\ staged'.parts = Append(staged.parts, r.by)
          /\ staged'.crossed = (staged.crossed \/ r.old)
      <4>1. staged' = [staged EXCEPT !.parts = Append(@, r.by), !.crossed = @ \/ r.old]
        BY <2>1, <2>4
      <4>2. Append(staged.parts, r.by) \in Seq(Clients) /\ (staged.crossed \/ r.old) \in BOOLEAN
        BY <1>3, <1>5
      <4> QED
        BY <1>3, <4>1, <4>2 DEF Drafts
    <3>2. /\ Len(staged.parts) \in Nat /\ Len(staged'.parts) = Len(staged.parts) + 1
          /\ DOMAIN staged.parts = 1..Len(staged.parts)
          /\ DOMAIN staged'.parts = 1..(Len(staged.parts) + 1)
          /\ \A j \in DOMAIN staged.parts : staged'.parts[j] = staged.parts[j]
          /\ staged'.parts[Len(staged.parts) + 1] = r.by
      BY <1>3, <1>5, <3>1
    <3>3. Len(staged'.parts) <= Chunks
      BY <1>3, <2>3, <2>4, <3>2
    <3>4. staged.token # 0 /\ staged' # NoDraft
      BY <1>3, <1>4, <2>3, <2>4, <3>1
    <3>5. AnswerKept(r, ok)
      <4>1. r.from # NoClient => sent[r.from] < Chunks
        BY <1>2, <2>3, <2>4
      <4> QED
        BY <1>2, <1>3, <2>1, <2>2, <3>1, <4>1, AnswerKeeps
    <3>6. ASSUME NEW t \in 1..MaxTokens, NEW c \in Clients, ~ staged'.crossed, staged'.token = t,
                 \E j \in DOMAIN staged'.parts : staged'.parts[j] = c
          PROVE  Claims(t, c)
      <4>1. PICK j \in DOMAIN staged'.parts : staged'.parts[j] = c
        BY <3>6
      <4>2. CASE j \in DOMAIN staged.parts
        BY <3>1, <3>2, <3>6, <4>1, <4>2 DEF Claims
      <4>3. CASE j = Len(staged.parts) + 1
        <5>1. ~ r.old /\ r.by = c /\ r.token = t
          BY <2>3, <2>4, <3>1, <3>2, <3>6, <4>1, <4>3
        <5> QED
          BY <1>2, <5>1 DEF Claims
      <4> QED
        BY <3>2, <4>2, <4>3
    <3>7. OneClientPerDraft'
      BY <1>3, <2>1 DEF OneClientPerDraft
    <3>8. nextToken' = nextToken /\ added' = added /\ r.kind # "begin" /\ staged'.token \in {0, staged.token}
      BY <1>8, <2>1, <3>1
    <3> QED
      BY <1>1, <1>3, <2>2, <3>1, <3>3, <3>4, <3>5, <3>6, <3>7, <3>8, ServedKeeps DEF r
  <2>5. CASE ~ ok
    <3>1. staged' = staged /\ nextToken' = nextToken /\ added' = added
      BY <2>1, <2>5
    <3>2. AnswerKept(r, ok)
      BY <1>2, <1>3, <2>1, <2>2, <2>5, <3>1, AnswerKeeps
    <3>3. OneClientPerDraft'
      BY <1>3, <3>1 DEF OneClientPerDraft
    <3> QED
      BY <1>1, <1>3, <1>6, <1>8, <2>2, <3>1, <3>2, <3>3, ServedKeeps DEF r
  <2> QED
    BY <2>4, <2>5
<1>9. CASE ServeAdd(r) /\ r.kind = "add"
  <2>1. CASE Answer(r, FALSE) /\ UNCHANGED <<staged, nextToken, added>>
    <3>1. AnswerKept(r, FALSE)
      BY <1>2, <1>3, <2>1, AnswerKeeps
    <3>2. OneClientPerDraft'
      BY <1>3, <2>1 DEF OneClientPerDraft
    <3> QED
      BY <1>1, <1>3, <1>6, <2>1, <3>1, <3>2, ServedKeeps DEF r
  <2>2. CASE /\ HoldsDraft(r) /\ Len(staged.parts) = Chunks /\ Len(added) < MaxAdded
             /\ added' = Append(added, [by |-> r.by, parts |-> staged.parts, crossed |-> staged.crossed \/ r.old])
             /\ staged' = NoDraft /\ Answer(r, TRUE) /\ UNCHANGED nextToken
    <3> DEFINE a == [by |-> r.by, parts |-> staged.parts, crossed |-> staged.crossed \/ r.old]
    <3>1. a \in [by : Clients, parts : Seq(Clients), crossed : BOOLEAN]
      BY <1>3, <1>5
    <3>2. a.by = r.by /\ a.parts = staged.parts /\ a.crossed = (staged.crossed \/ r.old)
      OBVIOUS
    <3>3. added' = Append(added, a)
      BY <2>2
    <3> HIDE DEF a
    <3>4. /\ added' \in Seq([by : Clients, parts : Seq(Clients), crossed : BOOLEAN])
          /\ Len(added) \in Nat /\ DOMAIN added = 1..Len(added) /\ DOMAIN added' = 1..(Len(added) + 1)
          /\ \A i \in DOMAIN added : added'[i] = added[i]
          /\ added'[Len(added) + 1] = a
      BY <1>3, <3>1, <3>3
    <3>5. ~ a.crossed => \A j \in DOMAIN a.parts : a.parts[j] = a.by
      <4> SUFFICES ASSUME ~ a.crossed, NEW j \in DOMAIN staged.parts PROVE staged.parts[j] = r.by
        BY <3>2
      <4>1. staged.token = r.token /\ staged.token \in 1..MaxTokens
        BY <1>3, <2>2 DEF HoldsDraft
      <4>2. staged.parts[j] \in Clients
        BY <1>3
      <4>3. Claims(staged.token, staged.parts[j]) /\ Claims(staged.token, r.by)
        BY <1>2, <3>2, <4>1 DEF Claims
      <4> QED
        BY <1>5, <4>1, <4>2, <4>3 DEF IpcInv, TokensApart
    <3>6. OneClientPerDraft'
      <4> SUFFICES ASSUME NEW i \in DOMAIN added', ~ added'[i].crossed
                   PROVE  \A j \in DOMAIN added'[i].parts : added'[i].parts[j] = added'[i].by
        BY DEF OneClientPerDraft
      <4>1. CASE i \in DOMAIN added
        BY <1>3, <3>4, <4>1 DEF OneClientPerDraft
      <4>2. CASE i = Len(added) + 1
        BY <3>4, <3>5, <4>2
      <4> QED
        BY <3>4, <4>1, <4>2
    <3>7. AnswerKept(r, TRUE)
      <4>1. staged'.token \in 0..MaxTokens /\ r.kind # "append"
        BY <1>3, <1>4, <1>9, <2>2
      <4>2. Answer(r, TRUE)
        BY <2>2
      <4> QED
        BY <1>2, <4>1, <4>2, AnswerKeeps
    <3>8. staged'.token = 0 /\ Len(staged'.parts) <= Chunks /\ DOMAIN staged'.parts = {} /\ staged' \in Drafts
      BY <1>3, <1>4, <2>2
    <3> QED
      BY <1>1, <1>4, <1>9, <2>2, <3>4, <3>6, <3>7, <3>8, ServedKeeps DEF r
  <2> QED
    BY <1>9, <2>1, <2>2 DEF ServeAdd
<1>10. CASE ServeAbort(r) /\ r.kind = "abort"
  <2> DEFINE ok == HoldsDraft(r)
  <2>1. staged' = (IF ok THEN NoDraft ELSE staged) /\ Answer(r, ok) /\ UNCHANGED <<nextToken, added>>
    BY <1>10 DEF ServeAbort
  <2>2. ok \in BOOLEAN
    BY DEF HoldsDraft
  <2> HIDE DEF ok
  <2>3. AnswerKept(r, ok)
    <3>1. staged'.token \in 0..MaxTokens /\ r.kind # "append"
      BY <1>3, <1>4, <1>10, <2>1
    <3> QED
      BY <1>2, <2>1, <2>2, <3>1, AnswerKeeps
  <2>4. /\ staged' \in Drafts /\ (staged'.token # 0 <=> staged' # NoDraft) /\ Len(staged'.parts) <= Chunks
        /\ staged'.token \in {0, staged.token}
    BY <1>3, <1>4, <2>1
  <2>5. OneClientPerDraft'
    BY <1>3, <2>1 DEF OneClientPerDraft
  <2>6. \A t \in 1..MaxTokens, c \in Clients :
           (~ staged'.crossed /\ staged'.token = t /\ \E j \in DOMAIN staged'.parts : staged'.parts[j] = c)
             => Claims(t, c)
    BY <1>4, <1>6, <2>1
  <2> QED
    BY <1>1, <1>3, <1>10, <2>1, <2>2, <2>3, <2>4, <2>5, <2>6, ServedKeeps DEF r
<1> QED
  BY <1>1, <1>7, <1>8, <1>9, <1>10

LEMMA ExpireKeeps == ASSUME IpcInv, Expire PROVE IpcInv'
<1>1. IpcTypes /\ IpcTypeOK /\ MaxTokens \in Nat /\ Chunks \in Nat
  BY IpcAssumption DEF IpcInv, IpcTypes, IpcTypeOK
<1>2. /\ staged' = NoDraft
      /\ UNCHANGED <<step, answered, token, sent, backlog, nextToken, daemonUp, added, restarted>>
  BY DEF Expire
<1>3. NoDraft \in Drafts /\ NoDraft.token = 0 /\ NoDraft.parts = <<>> /\ NoDraft.crossed = FALSE
  BY <1>1 DEF NoDraft, Drafts
<1>4. staged'.token = 0 /\ staged'.parts \in Seq(Clients) /\ Len(staged'.parts) = 0 /\ staged'.crossed = FALSE
  BY <1>2, <1>3
<1>5. IpcTypeOK'
  <2>0. staged'.token \in 0..MaxTokens /\ staged'.crossed \in BOOLEAN
    BY <1>2, <1>3 DEF Drafts
  <2>1. Len(staged'.parts) <= Chunks
    BY <1>1, <1>4
  <2> QED
    BY <1>1, <1>2, <1>4, <2>0, <2>1 DEF IpcTypeOK
<1>6. IpcTypes'
  BY <1>2, <1>3, <1>4, <1>5 DEF IpcTypes
<1>7. IdleKnowsNothing' /\ RequestsCurrent' /\ OneClientPerDraft'
  BY <1>2 DEF IpcInv, IdleKnowsNothing, RequestsCurrent, OneClientPerDraft
<1>8. NoNewClaim
  BY <1>1, <1>2, <1>4 DEF NoNewClaim, Claims
<1>9. TokensGiven' /\ TokensApart'
  BY <1>2, <1>4, <1>6, <1>8, ClaimsKept
<1> QED
  BY <1>6, <1>7, <1>9 DEF IpcInv

\* A daemon that ends takes every claim with it: whoever knew a token is one
\* of an earlier daemon's clients from then on.
LEMMA DaemonEndsKeeps == ASSUME IpcInv, DaemonEnds PROVE IpcInv'
<1>1. /\ IpcTypes /\ IpcTypeOK /\ MaxTokens \in Nat /\ Chunks \in Nat /\ MaxBacklog \in Nat
      /\ nextToken \in 1..(MaxTokens + 1)
  BY IpcAssumption DEF IpcInv, IpcTypes, IpcTypeOK
<1>2. /\ daemonUp' = FALSE /\ backlog' = <<>> /\ staged' = NoDraft
      /\ step' = [c \in Clients |-> IF answered[c] THEN step[c]
                                    ELSE IF step[c] \in {"append", "add"} THEN "abort" ELSE "idle"]
      /\ answered' = [c \in Clients |-> TRUE]
      /\ token' = [c \in Clients |-> IF step'[c] = "idle" THEN 0 ELSE token[c]]
      /\ sent' = [c \in Clients |-> IF step'[c] = "idle" THEN 0 ELSE sent[c]]
      /\ restarted' = restarted \cup {c \in Clients : step[c] # "idle"}
      /\ nextToken' = nextToken /\ added' = added
  BY DEF DaemonEnds
<1>3. NoDraft \in Drafts /\ NoDraft.token = 0 /\ NoDraft.parts = <<>> /\ NoDraft.crossed = FALSE
  BY <1>1 DEF NoDraft, Drafts
<1>4. staged'.token = 0 /\ staged'.parts \in Seq(Clients) /\ Len(staged'.parts) = 0 /\ staged'.crossed = FALSE
  BY <1>2, <1>3
<1>5. step' \in [Clients -> ClientSteps] /\ answered' \in [Clients -> BOOLEAN]
  BY <1>1, <1>2 DEF IpcTypeOK, ClientSteps
<1>6. token' \in [Clients -> 0..MaxTokens] /\ sent' \in [Clients -> 0..Chunks]
  BY <1>1, <1>2 DEF IpcTypeOK
<1>7. backlog' \in Seq(Requests) /\ Len(backlog') <= MaxBacklog
  BY <1>1, <1>2
<1>8. IpcTypeOK'
  <2>0. staged'.token \in 0..MaxTokens /\ staged'.crossed \in BOOLEAN
    BY <1>2, <1>3 DEF Drafts
  <2>1. Len(staged'.parts) <= Chunks
    BY <1>1, <1>4
  <2>2. nextToken' \in 1..(MaxTokens + 1) /\ daemonUp' \in BOOLEAN /\ restarted' \subseteq Clients
    BY <1>1, <1>2 DEF IpcTypeOK
  <2>3. added' \in Seq([by : Clients, parts : Seq(Clients), crossed : BOOLEAN])
    BY <1>1, <1>2 DEF IpcTypeOK
  <2> QED
    BY <1>4, <1>5, <1>6, <1>7, <2>0, <2>1, <2>2, <2>3 DEF IpcTypeOK
<1>9. IpcTypes'
  BY <1>2, <1>3, <1>4, <1>8 DEF IpcTypes
<1>10. IdleKnowsNothing' /\ RequestsCurrent' /\ OneClientPerDraft'
  <2>1. \A c \in Clients : step'[c] = "idle" => answered'[c] /\ token'[c] = 0 /\ sent'[c] = 0
    BY <1>2
  <2>2. RequestsCurrent'
    BY <1>2 DEF RequestsCurrent
  <2> QED
    BY <1>2, <2>1, <2>2 DEF IpcInv, IdleKnowsNothing, OneClientPerDraft
<1>11. ASSUME NEW t \in 1..MaxTokens, NEW c \in Clients PROVE ~ Claims(t, c)'
  <2>1. c \notin restarted' => token'[c] = 0
    <3>1. c \notin restarted' => step[c] = "idle"
      BY <1>2
    <3> QED
      BY <1>2, <3>1 DEF IpcInv, IdleKnowsNothing
  <2>2. t # 0 /\ DOMAIN backlog' = {}
    BY <1>1, <1>2
  <2> QED
    BY <1>4, <2>1, <2>2 DEF Claims
<1> QED
  BY <1>1, <1>2, <1>4, <1>9, <1>10, <1>11 DEF IpcInv, TokensGiven, TokensApart

LEMMA DaemonStartsKeeps == ASSUME IpcInv, DaemonStarts PROVE IpcInv'
<1>1. /\ IpcTypes /\ IpcTypeOK /\ MaxTokens \in Nat \ {0} /\ daemonUp = FALSE
  BY IpcAssumption DEF IpcInv, IpcTypes, IpcTypeOK, DaemonStarts
<1>2. /\ daemonUp' = TRUE /\ nextToken' = 1
      /\ UNCHANGED <<step, answered, token, sent, backlog, staged, added, restarted>>
  BY DEF DaemonStarts
<1>3. IpcTypes' /\ IdleKnowsNothing' /\ RequestsCurrent' /\ OneClientPerDraft'
  <2>1. IpcTypes'
    BY <1>1, <1>2 DEF IpcTypes, IpcTypeOK
  <2> QED
    BY <1>2, <2>1 DEF IpcInv, IdleKnowsNothing, RequestsCurrent, OneClientPerDraft
<1>4. \A t \in 1..MaxTokens, c \in Clients : ~ Claims(t, c)'
  BY <1>1, <1>2 DEF IpcInv, TokensGiven, Claims
<1>5. staged'.token < nextToken'
  BY <1>1, <1>2 DEF IpcInv, TokensGiven, NoDraft
<1> QED
  BY <1>2, <1>3, <1>4, <1>5 DEF IpcInv, TokensGiven, TokensApart

-----------------------------------------------------------------------------
LEMMA IpcInvNext == IpcInv /\ [IpcNext]_ipcVars => IpcInv'
<1> SUFFICES ASSUME IpcInv, [IpcNext]_ipcVars PROVE IpcInv'
  OBVIOUS
<1>1. CASE IpcNext
  BY <1>1, BeginDraftKeeps, NextCallKeeps, GiveUpCallKeeps, AbortKeeps, ServeKeeps, ExpireKeeps,
     DaemonEndsKeeps, DaemonStartsKeeps DEF IpcNext
<1>2. CASE UNCHANGED ipcVars
  BY <1>2 DEF ipcVars, IpcInv, IpcTypes, IpcTypeOK, IdleKnowsNothing, RequestsCurrent, TokensGiven,
     TokensApart, Claims, OneClientPerDraft
<1> QED
  BY <1>1, <1>2

LEMMA IpcInvHolds == IpcSpec => []IpcInv
  BY IpcInvInit, IpcInvNext, PTL DEF IpcSpec

\* Clients, requests, the staged draft and its tokens keep their types.
THEOREM IpcTypesHold == IpcSpec => []IpcTypeOK
<1>1. IpcInv => IpcTypeOK
  BY DEF IpcInv, IpcTypes
<1> QED
  BY <1>1, IpcInvHolds, PTL

\* A collection is made of the chunks of one client (add_collection_draft),
\* for any number of clients, chunks, drafts that expire, clients that give up
\* and daemons that start again, unless a client of an earlier daemon wrote
\* under a token that this one has given again.
THEOREM DraftsHaveOneClient == IpcSpec => []OneClientPerDraft
<1>1. IpcInv => OneClientPerDraft
  BY DEF IpcInv
<1> QED
  BY <1>1, IpcInvHolds, PTL

-----------------------------------------------------------------------------
(* Edits of a collection. *)

NoEdit == [at |-> "idle"]
OpenEdits ==
  [at : {"loaded", "asking", "previewed"}, rule : Rules, limit : Limits, keep : BOOLEAN, changed : BOOLEAN,
   loaded : 1..MaxGeneration, names : 1..MaxGeneration, overtaken : BOOLEAN,
   preview : [found : BOOLEAN, pages : SUBSET Selectable]]
Resolutions == [found : BOOLEAN, pages : SUBSET Selectable]
EditsTypes ==
  /\ collection \in Collections /\ onDisk \in Collections /\ resolving \in Resolutions
  /\ editor \in [Editors -> {NoEdit} \cup OpenEdits]
\* A generation names one state of the collection: what the file holds is older
\* than what is committed, or the same.
DiskBehind == onDisk.generation <= collection.generation /\ (onDisk.generation = collection.generation => onDisk = collection)
\* An edit that names the generation of the collection has seen what it is.
SeesWhatItNames(e) ==
  editor[e] # NoEdit =>
    /\ editor[e].names <= collection.generation
    /\ editor[e].names = collection.generation => ~editor[e].overtaken
EditsInv ==
  /\ EditsTypes /\ DiskBehind /\ WithinLimit(collection)
  /\ \A e \in Editors : SeesWhatItNames(e)

LEMMA OneIsALimit == Cardinality(Selectable) \in Limits /\ Cardinality({}) = 0
<1>1. Cardinality(Selectable) \in Nat \ {0}
  BY EditsAssumption, FS_CardinalityType, FS_EmptySet
<1> QED
  BY <1>1, FS_EmptySet DEF Limits

LEMMA EditsInvInit == EditsInit => EditsInv
<1> SUFFICES ASSUME EditsInit PROVE EditsInv
  OBVIOUS
<1>1. collection \in Collections
  BY EditsAssumption DEF EditsInit, Collections
<1>2. onDisk = collection /\ resolving \in Resolutions /\ \A e \in Editors : editor[e] = NoEdit
  BY DEF EditsInit, Nothing, Resolutions, NoEdit
<1>3. editor \in [Editors -> {NoEdit} \cup OpenEdits]
  BY DEF EditsInit, NoEdit
<1> QED
  BY <1>1, <1>2, <1>3 DEF EditsInit, EditsInv, EditsTypes, DiskBehind, SeesWhatItNames, WithinLimit, Collections

\* What a step may do to one editor while nobody commits.
LEMMA EditKeeps ==
  ASSUME EditsInv, UNCHANGED <<collection, onDisk>>, resolving' \in Resolutions,
         NEW e \in Editors, NEW new \in {NoEdit} \cup OpenEdits,
         new # NoEdit => /\ new.names <= collection.generation
                         /\ new.names = collection.generation => ~new.overtaken,
         editor' = [editor EXCEPT ![e] = new]
  PROVE  EditsInv'
<1>1. EditsTypes'
  BY DEF EditsInv, EditsTypes
<1>2. ASSUME NEW x \in Editors PROVE SeesWhatItNames(x)'
  BY DEF EditsInv, EditsTypes, SeesWhatItNames
<1> QED
  BY <1>1, <1>2 DEF EditsInv, DiskBehind, WithinLimit

LEMMA LoadKeeps == ASSUME EditsInv, NEW e \in Editors, Load(e) PROVE EditsInv'
<1>1. PICK form \in Forms(onDisk) : editor' = [editor EXCEPT ![e] = form]
  BY DEF Load
<1>2. /\ onDisk \in Collections /\ collection \in Collections
      /\ onDisk.generation \in 1..MaxGeneration /\ onDisk.rule \in Rules
      /\ onDisk.limit \in Limits /\ onDisk.keep \in BOOLEAN
  BY DEF EditsInv, EditsTypes, Collections
<1>3. Nothing \in Resolutions /\ "category" \in Rules /\ (~onDisk.keep) \in BOOLEAN
      /\ (onDisk # collection) \in BOOLEAN /\ (onDisk.rule # "category") \in BOOLEAN
  BY DEF Nothing, Resolutions, Rules
<1> DEFINE outdated == onDisk # collection
           Base == [at |-> "loaded", rule |-> onDisk.rule, limit |-> onDisk.limit, keep |-> onDisk.keep,
                    changed |-> FALSE, loaded |-> onDisk.generation, names |-> onDisk.generation,
                    overtaken |-> outdated, preview |-> Nothing]
<1>4. PICK base \in OpenEdits :
        base = Base /\ base.names = onDisk.generation /\ base.overtaken = (onDisk # collection)
  <2>1. Base \in OpenEdits
    BY <1>2, <1>3 DEF OpenEdits, Resolutions
  <2> QED
    BY <2>1
<1>5. form \in {[base EXCEPT !.rule = "category", !.changed = onDisk.rule # "category"],
               [base EXCEPT !.limit = Cardinality(Selectable)], [base EXCEPT !.keep = ~onDisk.keep]}
  BY <1>1, <1>4 DEF Forms
<1> HIDE DEF Base
<1>6. form \in OpenEdits /\ form.names = base.names /\ form.overtaken = base.overtaken
  <2>1. CASE form = [base EXCEPT !.rule = "category", !.changed = onDisk.rule # "category"]
    BY <2>1, <1>3 DEF OpenEdits
  <2>2. CASE form = [base EXCEPT !.limit = Cardinality(Selectable)]
    BY <2>2, OneIsALimit DEF OpenEdits
  <2>3. CASE form = [base EXCEPT !.keep = ~onDisk.keep]
    BY <2>3, <1>3 DEF OpenEdits
  <2> QED
    BY <1>5, <2>1, <2>2, <2>3
<1>7. collection' = collection /\ onDisk' = onDisk /\ resolving' \in Resolutions
  BY DEF Load, EditsInv, EditsTypes
<1> QED
  BY <1>1, <1>4, <1>6, <1>7, EditKeeps DEF EditsInv, DiskBehind

\* The fields of an open edit.
LEMMA OpenEdit ==
  ASSUME EditsInv, NEW e \in Editors, editor[e].at # "idle"
  PROVE  editor[e] \in OpenEdits /\ editor[e] # NoEdit
BY DEF EditsInv, EditsTypes, NoEdit, OpenEdits

LEMMA PreviewByCommandKeeps == ASSUME EditsInv, PreviewByCommand PROVE EditsInv'
<1>1. "cli" \in Editors /\ editor["cli"].at = "loaded"
  BY DEF PreviewByCommand
<1>2. editor["cli"] \in OpenEdits /\ editor["cli"] # NoEdit
  BY <1>1, OpenEdit
<1>3. PICK pages \in Answers \cup {onDisk.members} :
        editor' = [editor EXCEPT !["cli"] = [editor["cli"] EXCEPT !.at = "previewed", !.preview = Found(pages)]]
  BY DEF PreviewByCommand
<1>4. Found(pages) \in Resolutions
  BY EditsAssumption DEF Found, Resolutions, EditsInv, EditsTypes, Collections
<1>5. PICK new \in OpenEdits : new = [editor["cli"] EXCEPT !.at = "previewed", !.preview = Found(pages)]
  BY <1>2, <1>4 DEF OpenEdits, Resolutions
<1>6. new.names = editor["cli"].names /\ new.overtaken = editor["cli"].overtaken
  BY <1>2, <1>5 DEF OpenEdits
<1>7. collection' = collection /\ onDisk' = onDisk /\ resolving' \in Resolutions
  BY DEF PreviewByCommand, EditsInv, EditsTypes
<1> QED
  BY <1>1, <1>2, <1>3, <1>5, <1>6, <1>7, EditKeeps DEF EditsInv, SeesWhatItNames

LEMMA AskForPreviewKeeps == ASSUME EditsInv, AskForPreview PROVE EditsInv'
<1>1. "gui" \in Editors /\ editor["gui"] \in OpenEdits
  BY OpenEdit DEF AskForPreview
<1>2. PICK new \in OpenEdits :
        new = [editor["gui"] EXCEPT !.at = "asking", !.names = onDisk.generation, !.overtaken = onDisk # collection]
  BY <1>1 DEF OpenEdits, EditsInv, EditsTypes, Collections
<1>3. new.names = onDisk.generation /\ new.overtaken = (onDisk # collection)
  BY <1>1, <1>2 DEF OpenEdits
<1>4. editor' = [editor EXCEPT !["gui"] = new]
  BY <1>1, <1>2 DEF AskForPreview, EditsInv, EditsTypes
<1>5. collection' = collection /\ onDisk' = onDisk /\ resolving' \in Resolutions
  BY DEF AskForPreview, EditsInv, EditsTypes
<1> QED
  BY <1>1, <1>3, <1>4, <1>5, EditKeeps DEF EditsInv, DiskBehind

LEMMA PreviewInGuiKeeps == ASSUME EditsInv, PreviewInGui PROVE EditsInv'
<1>1. "gui" \in Editors /\ editor["gui"] \in OpenEdits /\ editor["gui"] # NoEdit
  BY OpenEdit DEF PreviewInGui
<1>2. PICK pages \in Answers :
        editor' = [editor EXCEPT !["gui"].at = "previewed", !["gui"].preview = Found(pages)]
  BY DEF PreviewInGui
<1>3. Found(pages) \in Resolutions
  BY EditsAssumption DEF Found, Resolutions
<1>4. PICK new \in OpenEdits : new = [editor["gui"] EXCEPT !.at = "previewed", !.preview = Found(pages)]
  BY <1>1, <1>3 DEF OpenEdits, Resolutions
<1>5. new.names = editor["gui"].names /\ new.overtaken = editor["gui"].overtaken
  BY <1>1, <1>4 DEF OpenEdits
<1>6. editor' = [editor EXCEPT !["gui"] = new]
  BY <1>1, <1>2, <1>4 DEF EditsInv, EditsTypes
<1>7. collection' = collection /\ onDisk' = onDisk /\ resolving' \in Resolutions
  BY DEF PreviewInGui, EditsInv, EditsTypes
<1> QED
  BY <1>1, <1>5, <1>6, <1>7, EditKeeps DEF EditsInv, SeesWhatItNames

LEMMA EndsKeep == ASSUME EditsInv, NEW e \in Editors, Refused(e) \/ Discard(e) PROVE EditsInv'
<1>1. collection' = collection /\ onDisk' = onDisk /\ resolving' \in Resolutions
  BY DEF Refused, Discard, EditsInv, EditsTypes
<1>2. PICK new \in {NoEdit, editor[e]} : editor' = [editor EXCEPT ![e] = new]
  BY DEF Refused, Discard, NoEdit
<1>3. new \in {NoEdit} \cup OpenEdits
  BY DEF EditsInv, EditsTypes
<1>4. new # NoEdit => /\ new.names <= collection.generation
                      /\ new.names = collection.generation => ~new.overtaken
  BY DEF EditsInv, SeesWhatItNames
<1> QED
  BY <1>1, <1>2, <1>3, <1>4, EditKeeps

\* A commit gives the collection a generation that no edit names and that the
\* file does not have.
LEMMA CommitKeeps ==
  ASSUME EditsInv, NEW c \in Collections, c.generation = collection.generation,
         collection.generation < MaxGeneration, WithinLimit(c), collection' = Advanced(c),
         onDisk' = onDisk, resolving' \in Resolutions,
         editor' = Overtaken \/ \E e \in Editors : editor' = [Overtaken EXCEPT ![e] = [at |-> "idle"]]
  PROVE  EditsInv' /\ WithinLimit(collection')
<1>1. /\ collection' \in Collections /\ collection'.generation = collection.generation + 1
      /\ collection'.members = c.members /\ collection'.limit = c.limit
  BY EditsAssumption DEF Advanced, Collections
<1>2. WithinLimit(collection')
  BY <1>1 DEF WithinLimit
<1>3. ASSUME NEW x \in Editors
      PROVE  Overtaken[x] \in {NoEdit} \cup OpenEdits /\ (Overtaken[x] # NoEdit => Overtaken[x].names = editor[x].names)
             /\ (editor[x] = NoEdit => Overtaken[x] = NoEdit)
  <2>1. CASE editor[x].at = "idle"
    BY <2>1, <1>3 DEF Overtaken, EditsInv, EditsTypes, NoEdit, OpenEdits
  <2>2. CASE editor[x].at # "idle"
    <3>1. editor[x] \in OpenEdits /\ editor[x] # NoEdit
      BY <2>2, <1>3, OpenEdit
    <3>2. Overtaken[x] = [editor[x] EXCEPT !.overtaken = TRUE]
      BY <2>2, <1>3 DEF Overtaken
    <3> QED
      BY <3>1, <3>2 DEF OpenEdits
  <2> QED
    BY <2>1, <2>2
<1>4. Overtaken \in [Editors -> {NoEdit} \cup OpenEdits]
  BY <1>3 DEF Overtaken
<1>5. editor' \in [Editors -> {NoEdit} \cup OpenEdits]
  BY <1>4 DEF NoEdit
<1>6. ASSUME NEW x \in Editors PROVE editor'[x] \in {NoEdit, Overtaken[x]}
  BY <1>4, <1>6 DEF NoEdit
<1>7. ASSUME NEW x \in Editors, editor'[x] # NoEdit PROVE editor'[x].names <= collection.generation
  <2>1. editor'[x] = Overtaken[x] /\ editor[x] # NoEdit
    BY <1>3, <1>6, <1>7
  <2> QED
    BY <2>1, <1>3, <1>7 DEF EditsInv, SeesWhatItNames
<1>8. ASSUME NEW x \in Editors PROVE SeesWhatItNames(x)'
  <2>1. ASSUME editor'[x] # NoEdit PROVE editor'[x].names \in Int /\ editor'[x].names < collection'.generation
    BY <1>1, <1>5, <1>7, <1>8, <2>1 DEF OpenEdits, EditsInv, EditsTypes, Collections
  <2> QED
    BY <2>1, <1>1 DEF SeesWhatItNames, Collections
<1>9. DiskBehind'
  BY <1>1 DEF EditsInv, EditsTypes, DiskBehind, Collections
<1> QED
  BY <1>1, <1>2, <1>5, <1>8, <1>9 DEF EditsInv, EditsTypes

LEMMA SaveKeeps == ASSUME EditsInv, NEW e \in Editors, Save(e) PROVE EditsInv' /\ WithinLimit(collection')
<1>1. editor[e] \in OpenEdits
  BY OpenEdit DEF Save
<1>2. PICK c \in Collections : c = Replaced(editor[e])
  BY <1>1 DEF Replaced, Resolved, OpenEdits, EditsInv, EditsTypes, Collections
<1>3. c.generation = collection.generation
  BY <1>2 DEF Replaced, EditsInv, EditsTypes, Collections
<1>4. /\ WithinLimit(c) /\ collection' = Advanced(c) /\ collection.generation < MaxGeneration
      /\ onDisk' = onDisk /\ resolving' \in Resolutions
      /\ editor' = [Overtaken EXCEPT ![e] = [at |-> "idle"]]
  BY <1>2 DEF Save, Accepts, EditsInv, EditsTypes
<1> QED
  BY <1>3, <1>4, CommitKeeps

LEMMA CommitResolvedKeeps == ASSUME EditsInv, CommitResolved PROVE EditsInv' /\ WithinLimit(collection')
<1> DEFINE new == [collection EXCEPT !.members = Resolved(collection.keep, @, resolving.pages)]
<1>1. PICK c \in Collections : c = new
  BY DEF Resolved, EditsInv, EditsTypes, Collections, Resolutions
<1>2. c.generation = collection.generation
  BY <1>1 DEF EditsInv, EditsTypes, Collections
<1>3. onDisk' = onDisk /\ resolving' \in Resolutions
  BY DEF CommitResolved, Nothing, Resolutions
<1>4. CASE WithinLimit(c) /\ Commit(c)
  BY <1>2, <1>3, <1>4, CommitKeeps DEF Commit
<1>5. CASE UNCHANGED <<collection, editor>>
  BY <1>3, <1>5 DEF EditsInv, EditsTypes, DiskBehind, WithinLimit, SeesWhatItNames
<1> QED
  BY <1>1, <1>4, <1>5 DEF CommitResolved

LEMMA ChangeSettingKeeps == ASSUME EditsInv, ChangeSetting PROVE EditsInv' /\ WithinLimit(collection')
<1>1. collection \in Collections /\ WithinLimit(collection) /\ onDisk' = onDisk /\ resolving' \in Resolutions
  BY DEF ChangeSetting, EditsInv, EditsTypes
<1> QED
  BY <1>1, CommitKeeps DEF ChangeSetting, Commit

LEMMA RemoveCollectionKeeps == ASSUME EditsInv, RemoveCollection PROVE EditsInv' /\ WithinLimit(collection')
<1>1. PICK c \in Collections : c = [collection EXCEPT !.active = FALSE, !.members = {}]
  BY DEF EditsInv, EditsTypes, Collections
<1>2. /\ c.generation = collection.generation /\ c.members = {} /\ c.limit \in Limits
  BY <1>1 DEF EditsInv, EditsTypes, Collections
<1>3. WithinLimit(c)
  BY <1>2, OneIsALimit, FS_CardinalityType, EditsAssumption DEF WithinLimit, Limits
<1>4. onDisk' = onDisk /\ resolving' \in Resolutions
  BY DEF RemoveCollection, EditsInv, EditsTypes
<1> QED
  BY <1>1, <1>2, <1>3, <1>4, CommitKeeps DEF RemoveCollection, Commit

LEMMA OthersKeep ==
  ASSUME EditsInv, ResolveCategory \/ StopResolving \/ Checkpoint
  PROVE  EditsInv'
<1>1. resolving' \in Resolutions
  <2>1. CASE ResolveCategory
    BY <2>1, EditsAssumption DEF ResolveCategory, Found, Resolutions
  <2>2. CASE StopResolving
    BY <2>2 DEF StopResolving, Nothing, Resolutions
  <2>3. CASE Checkpoint
    BY <2>3 DEF Checkpoint, EditsInv, EditsTypes
  <2> QED
    BY <2>1, <2>2, <2>3
<1>2. collection' = collection /\ editor' = editor /\ onDisk' \in {onDisk, collection}
  BY DEF ResolveCategory, StopResolving, Checkpoint
<1> QED
  BY <1>1, <1>2 DEF EditsInv, EditsTypes, DiskBehind, WithinLimit, SeesWhatItNames, Collections

LEMMA EditsInvNext == EditsInv /\ [EditsNext]_editsVars => EditsInv'
<1> SUFFICES ASSUME EditsInv, [EditsNext]_editsVars PROVE EditsInv'
  OBVIOUS
<1>1. CASE EditsNext
  BY <1>1, LoadKeeps, SaveKeeps, EndsKeep, PreviewByCommandKeeps, AskForPreviewKeeps, PreviewInGuiKeeps,
     CommitResolvedKeeps, ChangeSettingKeeps, RemoveCollectionKeeps, OthersKeep DEF EditsNext
<1>2. CASE UNCHANGED editsVars
  BY <1>2 DEF editsVars, EditsInv, EditsTypes, DiskBehind, WithinLimit, SeesWhatItNames
<1> QED
  BY <1>1, <1>2

\* Only Save takes an edit that was previewed to its end with a commit.
LEMMA OnlySaveSaves ==
  ASSUME EditsInv, EditsNext, NEW e \in Editors, Saves(e)
  PROVE  Save(e)
<1>1. \E x \in Editors : Save(x) \/ CommitResolved \/ ChangeSetting \/ RemoveCollection
  BY DEF EditsNext, Saves, Load, Refused, Discard, PreviewByCommand, AskForPreview, PreviewInGui,
     ResolveCategory, StopResolving, Checkpoint
<1>2. /\ Overtaken \in [Editors -> {Overtaken[x] : x \in Editors}]
      /\ \A x \in Editors : editor[x].at # "idle" => Overtaken[x].at # "idle"
  <2>1. ASSUME NEW x \in Editors, editor[x].at # "idle" PROVE Overtaken[x].at # "idle"
    BY <2>1, OpenEdit DEF Overtaken, OpenEdits
  <2> QED
    BY <2>1 DEF Overtaken
<1>3. editor[e].at = "previewed" /\ editor'[e].at = "idle" /\ collection' # collection
  BY DEF Saves
<1>4. editor' # Overtaken
  BY <1>2, <1>3
<1>5. PICK x \in Editors : Save(x)
  BY <1>1, <1>3, <1>4 DEF CommitResolved, ChangeSetting, RemoveCollection, Commit
<1>6. x = e
  BY <1>2, <1>3, <1>5 DEF Save
<1> QED
  BY <1>5, <1>6

LEMMA SaveSeesAll ==
  EditsInv /\ [EditsNext]_editsVars =>
    [(\A e \in Editors : Saves(e) => ~editor[e].overtaken) /\ WithinLimit(collection')]_editsVars
<1> SUFFICES ASSUME EditsInv, EditsNext
             PROVE  (\A e \in Editors : Saves(e) => ~editor[e].overtaken) /\ WithinLimit(collection')
  OBVIOUS
<1>1. ASSUME NEW e \in Editors, Saves(e) PROVE ~editor[e].overtaken
  <2>1. Save(e)
    BY <1>1, OnlySaveSaves
  <2>2. editor[e] # NoEdit /\ editor[e].names = collection.generation
    BY <1>1, <2>1, OpenEdit DEF Save, Accepts
  <2> QED
    BY <1>1, <2>2 DEF EditsInv, SeesWhatItNames
<1>2. EditsInv'
  BY EditsInvNext
<1> QED
  BY <1>1, <1>2 DEF EditsInv

\* No preview overwrites what was committed since it was asked for
\* (StaleCollectionGeneration), and all members of a collection are within its
\* limit, for any wiki, answers and commits: an edit that names the generation
\* of the collection has seen what it is, as every commit makes a new one and
\* readers see the file of an older or the same one.
THEOREM EditsSaveOverWhatWasSeen == EditsSpec => SavesOverWhatWasSeen
  BY EditsInvInit, EditsInvNext, SaveSeesAll, PTL DEF EditsSpec, SavesOverWhatWasSeen

\* The collection, what its file holds, the open edits and what was resolved
\* keep their types.
THEOREM EditsTypesHold == EditsSpec => []EditsTypeOK
<1>1. EditsInv => EditsTypeOK
  BY DEF EditsInv, EditsTypes, EditsTypeOK, NoEdit, OpenEdits, Resolutions
<1> QED
  BY <1>1, EditsInvInit, EditsInvNext, PTL DEF EditsSpec

-----------------------------------------------------------------------------
LEMMA DivisionBounds ==
  ASSUME NEW a \in Nat, NEW b \in Nat \ {0}
  PROVE  a \div b \in Nat /\ (a \div b) * b <= a /\ a < (a \div b) * b + b
OBVIOUS

LEMMA MultiplesGrow ==
  ASSUME NEW b \in Nat \ {0}, NEW k \in Int, NEW i \in Int, k < i
  PROVE  k * b + b <= i * b
<1>1. (i - k) * b >= b
  OBVIOUS
<1>2. (i - k) * b = i * b - k * b
  OBVIOUS
<1> QED
  BY <1>1, <1>2

LEMMA JitterBounds == EffectiveJitter \in 0 .. (Period - 1)
BY ScheduleAssumption DEF EffectiveJitter

LEMMA NumbersAre == \E h \in Nat : Numbers = 0 .. (h + 3)
<1>1. Horizon \div Period \in Nat
  BY ScheduleAssumption, DivisionBounds
<1> QED
  BY <1>1 DEF Numbers

(* The first nominal occurrence tried is the first at or after the window. *)
LEMMA FirstTriedIs ==
  ASSUME NEW t \in 0 .. Horizon
  PROVE  /\ WindowStart(t) \in 0 .. t /\ t <= WindowStart(t) + EffectiveJitter
         /\ FirstTried(t) \in Nat /\ FirstTried(t) + 2 \in Numbers
         /\ Nominal(FirstTried(t)) >= WindowStart(t)
         /\ FirstTried(t) # 0 =>
              Nominal(FirstTried(t) - 1) < WindowStart(t) /\ WindowStart(t) + EffectiveJitter = t
<1> DEFINE w == WindowStart(t)
           f == FirstTried(t)
<1>1. w \in 0 .. t /\ t <= w + EffectiveJitter /\ (w # 0 => w + EffectiveJitter = t)
  BY ScheduleAssumption, JitterBounds DEF WindowStart
<1>2. CASE w <= Offset
  <2>1. f = 0
    BY <1>2 DEF FirstTried, NominalAtOrAfter
  <2>2. Nominal(f) = Offset
    BY <2>1, ScheduleAssumption DEF Nominal
  <2>3. f + 2 \in Numbers
    BY <2>1, NumbersAre
  <2> QED
    BY <1>1, <1>2, <2>1, <2>2, <2>3, ScheduleAssumption
<1>3. CASE ~(w <= Offset)
  <2> DEFINE a == w - Offset + Period - 1
             h == Horizon \div Period
  <2>1. a \in Nat /\ f = a \div Period
    BY <1>1, <1>3, ScheduleAssumption DEF FirstTried, NominalAtOrAfter
  <2>2. f \in Nat /\ f * Period <= a /\ a < f * Period + Period
    BY <2>1, DivisionBounds, ScheduleAssumption
  <2>3. f # 0 /\ Nominal(f) >= w
    BY <1>1, <1>3, <2>2, ScheduleAssumption DEF Nominal
  <2>4. Nominal(f - 1) < w
    <3>1. (f - 1) * Period + Period <= f * Period
      BY <2>2, ScheduleAssumption, MultiplesGrow
    <3>2. (f - 1) * Period \in Int
      BY <2>2, ScheduleAssumption
    <3> QED
      BY <1>1, <2>1, <2>2, <3>1, <3>2, ScheduleAssumption DEF Nominal
  <2>5. f + 2 \in Numbers
    <3>1. h \in Nat /\ Horizon < h * Period + Period /\ h * Period \in Int
      BY ScheduleAssumption, DivisionBounds
    <3>2. ASSUME h + 1 < f PROVE FALSE
      <4>1. (h + 1) * Period + Period <= f * Period
        BY <2>2, <3>1, <3>2, ScheduleAssumption, MultiplesGrow
      <4>2. (h + 1) * Period = h * Period + Period
        BY <3>1, ScheduleAssumption
      <4> QED
        BY <1>1, <2>1, <2>2, <3>1, <4>1, <4>2, ScheduleAssumption
    <3> QED
      BY <2>2, <3>1, <3>2 DEF Numbers
  <2> QED
    BY <1>1, <1>3, <2>2, <2>3, <2>4, <2>5, ScheduleAssumption
<1> QED
  BY <1>2, <1>3

(* Jitter never reaches a period: occurrences come in the order of their numbers. *)
LEMMA OccurrencesAscend ==
  ASSUME NEW j \in [Numbers -> 0 .. EffectiveJitter], NEW k \in Numbers, NEW i \in Numbers
  PROVE  /\ Occurrence(j, k) \in Nat
         /\ Nominal(k) <= Occurrence(j, k) /\ Occurrence(j, k) <= Nominal(k) + EffectiveJitter
         /\ k < i => Nominal(k) + Period <= Nominal(i) /\ Occurrence(j, k) < Occurrence(j, i)
<1>1. k \in Nat /\ i \in Nat /\ j[k] \in 0 .. EffectiveJitter /\ j[i] \in 0 .. EffectiveJitter
  BY DEF Numbers
<1>2. k * Period \in Nat /\ i * Period \in Nat
  BY <1>1, ScheduleAssumption
<1>3. k < i => k * Period + Period <= i * Period
  BY <1>1, MultiplesGrow, ScheduleAssumption
<1> QED
  BY <1>1, <1>2, <1>3, JitterBounds, ScheduleAssumption DEF Occurrence, Nominal

(* What the loop finds: an occurrence after t, and none between the two. *)
LEMMA NextOccurrence ==
  ASSUME NEW j \in [Numbers -> 0 .. EffectiveJitter], NEW t \in 0 .. Horizon
  PROVE  /\ NextOccurrenceAfter(j, t) > t
         /\ \E k \in Numbers : NextOccurrenceAfter(j, t) = Occurrence(j, k)
         /\ \A k \in Numbers : Occurrence(j, k) > t => NextOccurrenceAfter(j, t) <= Occurrence(j, k)
<1> DEFINE f == FirstTried(t)
           w == WindowStart(t)
           s == CHOOSE k \in f .. (f + 2) : Stops(j, t, k)
<1>1. /\ w \in 0 .. t /\ t <= w + EffectiveJitter /\ f \in Nat /\ f + 2 \in Numbers /\ Nominal(f) >= w
      /\ f # 0 => Nominal(f - 1) < w /\ w + EffectiveJitter = t
  BY FirstTriedIs
<1> HIDE DEF f, w
<1>2. f .. (f + 2) \subseteq Numbers
  BY <1>1, NumbersAre
<1>3. Nominal(f) \in Nat
  BY <1>1, ScheduleAssumption DEF Nominal
<1>4. Occurrence(j, f + 1) > t
  <2>1. Nominal(f) + Period <= Nominal(f + 1) /\ Nominal(f + 1) <= Occurrence(j, f + 1)
    BY <1>1, <1>2, OccurrencesAscend
  <2>2. Occurrence(j, f + 1) \in Nat /\ Nominal(f + 1) \in Nat
    BY <1>1, <1>2, OccurrencesAscend, ScheduleAssumption DEF Nominal
  <2> QED
    BY <1>1, <1>3, <2>1, <2>2, JitterBounds, ScheduleAssumption
<1>5. \E k \in f .. (f + 2) : Stops(j, t, k)
  <2>1. CASE Occurrence(j, f) > t
    <3>1. Stops(j, t, f)
      BY <2>1, <1>1 DEF Stops, f
    <3> QED
      BY <3>1, <1>1
  <2>2. CASE ~(Occurrence(j, f) > t)
    <3>1. Occurrence(j, f) <= t
      BY <2>2, <1>1, <1>2, OccurrencesAscend
    <3>2. \A i \in f .. (f + 1 - 1) : i = f
      BY <1>1
    <3>3. Stops(j, t, f + 1)
      BY <1>1, <1>4, <3>1, <3>2 DEF Stops, f
    <3> QED
      BY <3>3, <1>1
  <2> QED
    BY <2>1, <2>2
<1>6. s \in f .. (f + 2) /\ Stops(j, t, s)
  BY <1>5
<1> HIDE DEF s
<1>7. s \in Numbers /\ NextOccurrenceAfter(j, t) = Occurrence(j, s)
  BY <1>2, <1>6 DEF NextOccurrenceAfter, s, f
<1>8. Occurrence(j, s) > t
  BY <1>6 DEF Stops
<1>9. ASSUME NEW k \in Numbers, Occurrence(j, k) > t PROVE Occurrence(j, s) <= Occurrence(j, k)
  <2>1. CASE s <= k
    BY <2>1, <1>7, OccurrencesAscend DEF Numbers
  <2>2. CASE k \in f .. (s - 1)
    <3>1. Occurrence(j, k) <= t
      BY <2>2, <1>6 DEF Stops, f
    <3> QED
      BY <3>1, <1>9, <1>7, OccurrencesAscend
  <2>3. CASE k < f
    <3>1. k \in Nat /\ f # 0 /\ f - 1 \in Numbers
      BY <1>1, <2>3, NumbersAre
    <3>2. Nominal(k) <= Nominal(f - 1)
      BY <3>1, <1>1, <2>3, OccurrencesAscend, ScheduleAssumption DEF Nominal, Numbers
    <3>3. Occurrence(j, k) <= Nominal(k) + EffectiveJitter /\ Occurrence(j, k) \in Nat
      BY OccurrencesAscend
    <3>4. Nominal(k) \in Nat /\ Nominal(f - 1) \in Nat
      BY <3>1, ScheduleAssumption DEF Nominal, Numbers
    <3> QED
      BY <1>1, <1>9, <3>1, <3>2, <3>3, <3>4, JitterBounds, ScheduleAssumption
  <2> QED
    BY <1>1, <1>6, <1>7, <2>1, <2>2, <2>3 DEF Numbers
<1> QED
  BY <1>7, <1>8, <1>9

ScheduleInv == ScheduleTypeOK /\ NextRunIsEarliest

LEMMA ScheduleStarts == ScheduleInit => ScheduleInv
<1> SUFFICES ASSUME ScheduleInit PROVE ScheduleInv
  OBVIOUS
<1>1. jitter \in [Numbers -> 0 .. EffectiveJitter] /\ 0 \in 0 .. Horizon
  BY ScheduleAssumption DEF ScheduleInit
<1>2. NextRunIsEarliest
  BY <1>1, NextOccurrence DEF ScheduleInit, NextRunIsEarliest
<1>3. nextRun \in Nat
  BY <1>1, <1>2, OccurrencesAscend DEF NextRunIsEarliest
<1> QED
  BY <1>1, <1>2, <1>3 DEF ScheduleInv, ScheduleTypeOK, ScheduleInit

LEMMA ScheduleKeeps == ScheduleInv /\ [ScheduleNext]_scheduleVars => ScheduleInv'
<1> SUFFICES ASSUME ScheduleInv, [ScheduleNext]_scheduleVars PROVE ScheduleInv'
  OBVIOUS
<1>1. CASE SetClock \/ UNCHANGED scheduleVars
  BY <1>1 DEF ScheduleInv, ScheduleTypeOK, NextRunIsEarliest, SetClock, scheduleVars, Occurrence
<1>2. CASE ClaimNext \/ Reschedule
  <2>1. /\ jitter \in [Numbers -> 0 .. EffectiveJitter] /\ now \in 0 .. Horizon
        /\ jitter' = jitter /\ since' = now /\ now' = now /\ nextRun' = NextOccurrenceAfter(jitter, now)
    BY <1>2 DEF ScheduleInv, ScheduleTypeOK, ClaimNext, Reschedule
  <2>2. /\ nextRun' > now
        /\ \E k \in Numbers : nextRun' = Occurrence(jitter, k)
        /\ \A k \in Numbers : Occurrence(jitter, k) > now => nextRun' <= Occurrence(jitter, k)
    BY <2>1, NextOccurrence
  <2>3. nextRun' \in Nat
    BY <2>1, <2>2, OccurrencesAscend
  <2>4. NextRunIsEarliest'
    BY <2>1, <2>2 DEF NextRunIsEarliest, Occurrence
  <2> QED
    BY <2>1, <2>3, <2>4 DEF ScheduleInv, ScheduleTypeOK
<1> QED
  BY <1>1, <1>2 DEF ScheduleNext

(* For any period, offset, jitter and corrections of the clock: the instant that
   is kept is the first occurrence after the one it was computed at
   (next_occurrence_after, claim_due_schedule). *)
THEOREM NextRunIsTheEarliest == ScheduleSpec => []NextRunIsEarliest
<1>1. ScheduleInv => NextRunIsEarliest
  BY DEF ScheduleInv
<1> QED
  BY <1>1, ScheduleStarts, ScheduleKeeps, PTL DEF ScheduleSpec

(* The schedule's variables keep their types. *)
THEOREM ScheduleTypesHold == ScheduleSpec => []ScheduleTypeOK
<1>1. ScheduleInv => ScheduleTypeOK
  BY DEF ScheduleInv
<1> QED
  BY <1>1, ScheduleStarts, ScheduleKeeps, PTL DEF ScheduleSpec

-----------------------------------------------------------------------------
Kinds ==
  {LibraryKind, Kind({}, {}, {}, FALSE)} \cup CreationKinds \cup EditKinds \cup RemovalKinds \cup PurgeKinds
  \cup ScheduleKinds \cup DumpKinds \cup TrustKinds
WindowRequests == [kind : Kinds, task : {"load", "create", "prepare", "work", "reader"}, folder : Folders]
GuiTypes ==
  /\ GuiTypeOK /\ screen \in {"setup", "dashboard"} /\ probing \in Folders \cup {NoFolder}
  /\ Busy => active \in WindowRequests
\* A request of the folder in use is awaited, unless a folder was picked since.
AwaitsItsFolder ==
  /\ Busy => running \/ overtaken
  /\ Busy /\ ~overtaken => active.folder = libraryPath
\* Only a window that shows a library has work under way.
WorkIsShown == Busy /\ active.task = "work" => screen = "dashboard"
GuiInv == GuiTypes /\ AwaitsItsFolder /\ WorkIsShown

LEMMA KindsAre == \A k \in Kinds : k.opens \subseteq FormNames /\ k.shows \in BOOLEAN
<1> DEFINE Fit(k) == k.opens \subseteq FormNames /\ k.shows \in BOOLEAN
<1>1. \A n, c, o \in SUBSET FormNames, s \in BOOLEAN : Fit(Kind(n, c, o, s))
  BY DEF Kind
<1>2. \A o \in {{}, {"edit"}, {"remove"}, {"schedule"}, {"purge"}, {"selection"}, {"dump"}} : o \in SUBSET FormNames
  BY DEF FormNames
<1> HIDE DEF Fit
<1>3. \A k \in {LibraryKind, Kind({}, {}, {}, FALSE)} \cup CreationKinds \cup EditKinds : Fit(k)
  BY <1>1, <1>2 DEF LibraryKind, CreationKinds, EditKinds
<1>4. \A k \in RemovalKinds \cup PurgeKinds \cup ScheduleKinds \cup DumpKinds \cup TrustKinds : Fit(k)
  BY <1>1, <1>2 DEF RemovalKinds, PurgeKinds, ScheduleKinds, DumpKinds, DumpImport, TrustKinds
<1> QED
  BY <1>3, <1>4 DEF Kinds, Fit

LEMMA GuiStarts == GuiInit => GuiInv
BY GuiAssumption DEF GuiInit, GuiInv, GuiTypes, GuiTypeOK, AwaitsItsFolder, WorkIsShown, Busy, FormNames

(* What every request begins with. *)
LEMMA Begun ==
  ASSUME NEW k \in Kinds, NEW t \in {"load", "create", "prepare", "work", "reader"}, NEW f \in Folders,
         BeginRequest(k, t, f)
  PROVE  active' \in WindowRequests /\ active'.folder = f /\ active'.task = t /\ running' /\ ~overtaken'
BY DEF BeginRequest, WindowRequests

(* What a task did to the disk. *)
LEMMA DiskKept ==
  ASSUME GuiInv, Busy, NEW ok \in BOOLEAN, TaskDone(ok)
  PROVE  /\ libraries \subseteq libraries' /\ libraries' \subseteq Folders /\ empty' \subseteq libraries'
         /\ ~running'
<1>1. active \in WindowRequests /\ active.folder \in Folders
  BY DEF GuiInv, GuiTypes, WindowRequests
<1>2. libraries \subseteq Folders /\ empty \subseteq libraries
  BY DEF GuiInv, GuiTypes, GuiTypeOK
<1>3. libraries' = libraries \/ libraries' = libraries \cup {active.folder}
  BY DEF TaskDone
<1>4. empty' = empty \ {active.folder} \/ empty' = empty \cup (libraries' \ libraries)
  BY DEF TaskDone
<1> QED
  BY <1>1, <1>2, <1>3, <1>4 DEF TaskDone

LEMMA FolderStepsKeep ==
  ASSUME GuiInv, PathProbed \/ ChooseOnboardingStorage \/ OnboardingStorageChosen \/ ProgressiveReaderStarted
  PROVE  GuiInv'
<1> USE DEF GuiInv, GuiTypes, GuiTypeOK, AwaitsItsFolder, WorkIsShown, Busy, diskVars, pathVars, readerVars
<1>1. CASE PathProbed
  BY <1>1 DEF PathProbed
<1>2. CASE ChooseOnboardingStorage
  BY <1>2 DEF ChooseOnboardingStorage
<1>3. CASE OnboardingStorageChosen
  BY <1>3 DEF OnboardingStorageChosen
<1>4. CASE ProgressiveReaderStarted
  BY <1>4 DEF ProgressiveReaderStarted
<1> QED
  BY <1>1, <1>2, <1>3, <1>4

LEMMA FormStepsKeep ==
  ASSUME GuiInv, EditCollection \/ PreviewRemove \/ EditSchedule \/ CloseForm \/ ChooseAnotherLibrary
  PROVE  GuiInv'
<1> USE DEF GuiInv, GuiTypes, GuiTypeOK, AwaitsItsFolder, WorkIsShown, Busy, diskVars, pathVars, readerVars
<1>1. CASE ChooseAnotherLibrary
  BY <1>1 DEF ChooseAnotherLibrary
<1>2. ASSUME NEW opened \in SUBSET FormNames, OnForms(opened) PROVE GuiInv'
  BY <1>2 DEF OnForms
<1>3. open \subseteq FormNames
  OBVIOUS
<1>4. ASSUME EditCollection \/ PreviewRemove \/ EditSchedule \/ CloseForm
      PROVE  \E opened \in SUBSET FormNames : OnForms(opened)
  <2>1. /\ (open \ {"schedule", "remove"}) \cup {"edit"} \in SUBSET FormNames
        /\ (open \ {"edit", "schedule", "purge"}) \cup {"remove"} \in SUBSET FormNames
        /\ open \cup {"schedule"} \in SUBSET FormNames
        /\ \A f : open \ {f} \in SUBSET FormNames
    BY <1>3 DEF FormNames
  <2> QED
    BY <1>4, <2>1 DEF EditCollection, PreviewRemove, EditSchedule, CloseForm
<1> QED
  BY <1>1, <1>2, <1>4

LEMMA RequestStepsKeep ==
  ASSUME GuiInv,
         \/ OpenLibrary \/ CreateLibrary \/ StartEditionSync \/ Refresh
         \/ OpenCollectionPurge \/ StartRequest \/ OpenReader
  PROVE  GuiInv'
<1> USE DEF GuiInv, GuiTypes, GuiTypeOK, AwaitsItsFolder, WorkIsShown, Busy, diskVars, pathVars, readerVars
<1>1. libraryPath \in Folders /\ storagePath \in Folders
  OBVIOUS
<1>2. CASE OpenLibrary \/ CreateLibrary \/ Refresh
  <2>1. \E t \in {"load", "create"} : BeginRequest(LibraryKind, t, libraryPath)
    BY <1>2 DEF OpenLibrary, CreateLibrary, Refresh
  <2>2. /\ active' \in WindowRequests /\ active'.folder = libraryPath /\ active'.task \in {"load", "create"}
        /\ running' /\ ~overtaken'
    BY <1>1, <2>1, Begun DEF Kinds
  <2> QED
    BY <1>2, <2>2 DEF OpenLibrary, CreateLibrary, Refresh
<1>3. CASE StartEditionSync
  <2>1. /\ active' \in WindowRequests /\ active'.folder = storagePath /\ active'.task = "prepare"
        /\ running' /\ ~overtaken'
    BY <1>1, <1>3, Begun DEF Kinds, StartEditionSync
  <2> QED
    BY <1>3, <2>1 DEF StartEditionSync
<1>4. CASE OpenCollectionPurge \/ StartRequest \/ OpenReader
  <2>1. screen = "dashboard" /\ open' \subseteq FormNames
    BY <1>4 DEF OpenCollectionPurge, StartRequest, OpenReader, FormNames
  <2>2. \E k \in Kinds, t \in {"work", "reader"} : BeginRequest(k, t, libraryPath)
    BY <1>4 DEF OpenCollectionPurge, StartRequest, OpenReader, Kinds
  <2>3. active' \in WindowRequests /\ active'.folder = libraryPath /\ running' /\ ~overtaken'
    BY <1>1, <2>2, Begun
  <2> QED
    BY <1>4, <2>1, <2>3 DEF OpenCollectionPurge, StartRequest, OpenReader
<1> QED
  BY <1>2, <1>3, <1>4

LEMMA AnswersKeep ==
  ASSUME GuiInv, AnswerDropped \/ AnswerFailed \/ LibraryLoaded \/ EditionPrepared \/ WorkDone \/ ReaderStarted
  PROVE  GuiInv'
<1> USE DEF GuiInv, GuiTypes, GuiTypeOK, AwaitsItsFolder, WorkIsShown, Busy, diskVars, pathVars, readerVars
<1>1. active \in WindowRequests /\ active.folder \in Folders /\ active.kind \in Kinds
  BY DEF AnswerDropped, AnswerFailed, LibraryLoaded, EditionPrepared, WorkDone, ReaderStarted, WindowRequests
<1>2. CASE AnswerDropped
  <2>1. libraries' \subseteq Folders /\ empty' \subseteq libraries'
    BY <1>2, DiskKept DEF AnswerDropped
  <2> QED
    BY <1>2, <2>1 DEF AnswerDropped, Finishes
<1>3. CASE AnswerFailed
  <2>1. libraries' \subseteq Folders /\ empty' \subseteq libraries'
    BY <1>3, DiskKept DEF AnswerFailed
  <2> QED
    BY <1>3, <2>1 DEF AnswerFailed
<1>4. CASE LibraryLoaded
  <2>1. libraries' \subseteq Folders /\ empty' \subseteq libraries'
    BY <1>4, DiskKept DEF LibraryLoaded
  <2> QED
    BY <1>1, <1>4, <2>1, GuiAssumption DEF LibraryLoaded, Shows
<1>5. CASE EditionPrepared
  <2>1. active' \in WindowRequests /\ active'.folder = active.folder /\ running' /\ ~overtaken'
    BY <1>1, <1>5, Begun DEF EditionPrepared, Kinds, DumpKinds
  <2> QED
    BY <1>1, <1>5, <2>1, GuiAssumption DEF EditionPrepared, Shows, Finishes
<1>6. CASE WorkDone
  <2>1. libraries' \subseteq Folders /\ empty' \subseteq libraries'
    BY <1>6, DiskKept DEF WorkDone
  <2>2. open' \subseteq FormNames
    BY <1>1, <1>6, KindsAre DEF WorkDone
  <2> QED
    BY <1>1, <1>6, <2>1, <2>2, GuiAssumption DEF WorkDone, Shows
<1>7. CASE ReaderStarted
  <2>1. libraries' \subseteq Folders /\ empty' \subseteq libraries'
    BY <1>7, DiskKept DEF ReaderStarted
  <2> QED
    BY <1>1, <1>7, <2>1 DEF ReaderStarted
<1> QED
  BY <1>2, <1>3, <1>4, <1>5, <1>6, <1>7

LEMMA GuiKeeps == GuiInv /\ [GuiNext]_guiVars => GuiInv'
<1> SUFFICES ASSUME GuiInv, [GuiNext]_guiVars PROVE GuiInv'
  OBVIOUS
<1>1. CASE UNCHANGED guiVars
  BY <1>1 DEF guiVars, GuiInv, GuiTypes, GuiTypeOK, AwaitsItsFolder, WorkIsShown, Busy
<1> QED
  BY <1>1, FolderStepsKeep, FormStepsKeep, RequestStepsKeep, AnswersKeep DEF GuiNext

(* A snapshot comes from the folder in use. *)
LEMMA SnapshotsAreOfTheFolder ==
  ASSUME GuiInv, GuiNext, shown' # shown, shown' # NoFolder PROVE shown' = libraryPath'
BY DEF GuiNext, PathProbed, ChooseOnboardingStorage, OnboardingStorageChosen, OpenLibrary, CreateLibrary,
   StartEditionSync, Refresh, ChooseAnotherLibrary, EditCollection, PreviewRemove, EditSchedule, CloseForm,
   OnForms, OpenCollectionPurge, StartRequest, OpenReader, ProgressiveReaderStarted, AnswerDropped, AnswerFailed,
   LibraryLoaded, EditionPrepared, WorkDone, ReaderStarted, Shows, Finishes, pathVars

(* Whatever the user does and whenever tasks, probes and the picker answer, for
   any folders: the application does not come to wait for an answer that was
   given, unless a folder was picked meanwhile, and shows a new snapshot only of
   the folder in use (finish_request, App::update). *)
THEOREM TheWindowShowsWhatIsSo == GuiSpec => ShowsWhatIsSo
<1>1. GuiInv /\ GuiInv' /\ [GuiNext]_guiVars =>
        [ /\ (Busy => running \/ overtaken)'
          /\ shown' # shown /\ shown' # NoFolder => shown' = libraryPath' ]_guiVars
  BY SnapshotsAreOfTheFolder DEF GuiInv, AwaitsItsFolder
<1> QED
  BY <1>1, GuiStarts, GuiKeeps, PTL DEF GuiSpec, ShowsWhatIsSo

(* The window's state and the disk keep their types. *)
THEOREM GuiTypesHold == GuiSpec => []GuiTypeOK
<1>1. GuiInv => GuiTypeOK
  BY DEF GuiInv, GuiTypes
<1> QED
  BY <1>1, GuiStarts, GuiKeeps, PTL DEF GuiSpec

-----------------------------------------------------------------------------
LEMMA LeastOf ==
  ASSUME NEW T \in SUBSET Nat, T # {}
  PROVE  Min(T) \in T /\ \A y \in T : Min(T) <= y
<1>1. PICK x \in T : \A y \in T : ~ (<<y, x>> \in OpToRel(<, Nat))
  BY NatLessThanWellFounded, WFMin
<1>2. \A y \in T : ~ (y < x)
  BY <1>1 DEF OpToRel
<1>3. \E z \in T : \A y \in T : z <= y
  BY <1>2
<1> QED
  BY <1>3 DEF Min

LEMMA GreatestOf ==
  ASSUME NEW n \in Nat, NEW T \in SUBSET (0 .. n), T # {}
  PROVE  Max(T) \in T /\ \A y \in T : y <= Max(T)
<1> DEFINE U == {n - y : y \in T}
<1>1. \A y \in T : y \in Nat /\ n - y \in Nat
  OBVIOUS
<1>2. U \in SUBSET Nat /\ U # {}
  BY <1>1
<1>3. PICK u \in U : \A y \in U : u <= y
  <2>1. Min(U) \in U /\ \A y \in U : Min(U) <= y
    BY <1>2, LeastOf
  <2> HIDE DEF U
  <2> QED
    BY <2>1
<1>4. PICK x \in T : u = n - x
  BY <1>3
<1>5. \A y \in T : y <= x
  BY <1>1, <1>3, <1>4
<1>6. \E z \in T : \A y \in T : z >= y
  BY <1>1, <1>5
<1> HIDE DEF U
<1> QED
  BY <1>1, <1>6 DEF Max

Byte == 0 .. 255

LEMMA PartOf ==
  ASSUME NEW s \in Seq(Byte), NEW i \in Nat \ {0}, NEW j \in Nat, i <= j + 1, j <= Len(s)
  PROVE  /\ SubSeq(s, i, j) \in Seq(Byte) /\ Len(SubSeq(s, i, j)) = j - i + 1
         /\ \A k \in 1 .. (j - i + 1) : SubSeq(s, i, j)[k] = s[i + k - 1]
OBVIOUS

LEMMA SameElements ==
  ASSUME NEW u \in Seq(Byte), NEW t \in Seq(Byte), Len(u) = Len(t), \A k \in 1 .. Len(t) : u[k] = t[k]
  PROVE  u = t
OBVIOUS

LEMMA TwoParts ==
  ASSUME NEW h \in Seq(Byte), NEW c \in Seq(Byte)
  PROVE  /\ h \o c \in Seq(Byte) /\ Len(h \o c) = Len(h) + Len(c)
         /\ \A k \in 1 .. Len(h) : (h \o c)[k] = h[k]
         /\ \A k \in 1 .. Len(c) : (h \o c)[Len(h) + k] = c[k]
OBVIOUS

(* t is h, c and e, one after the other. *)
MadeOf(t, h, c, e) ==
  /\ Len(t) = Len(h) + Len(c) + Len(e)
  /\ \A k \in 1 .. Len(h) : h[k] = t[k]
  /\ \A k \in 1 .. Len(c) : c[k] = t[Len(h) + k]
  /\ \A k \in 1 .. Len(e) : e[k] = t[Len(h) + Len(c) + k]

LEMMA ThreeParts ==
  ASSUME NEW h \in Seq(Byte), NEW c \in Seq(Byte), NEW e \in Seq(Byte), NEW t \in Seq(Byte), MadeOf(t, h, c, e)
  PROVE  (h \o c) \o e = t
<1>0. /\ Len(t) = Len(h) + Len(c) + Len(e)
      /\ \A k \in 1 .. Len(h) : h[k] = t[k]
      /\ \A k \in 1 .. Len(c) : c[k] = t[Len(h) + k]
      /\ \A k \in 1 .. Len(e) : e[k] = t[Len(h) + Len(c) + k]
  BY DEF MadeOf
<1> DEFINE g == h \o c
           u == g \o e
<1>1. /\ g \in Seq(Byte) /\ Len(g) = Len(h) + Len(c)
      /\ \A k \in 1 .. Len(h) : g[k] = h[k]
      /\ \A k \in 1 .. Len(c) : g[Len(h) + k] = c[k]
  BY TwoParts
<1> HIDE DEF g
<1>2. /\ u \in Seq(Byte) /\ Len(u) = Len(g) + Len(e)
      /\ \A k \in 1 .. Len(g) : u[k] = g[k]
      /\ \A k \in 1 .. Len(e) : u[Len(g) + k] = e[k]
  BY <1>1, TwoParts
<1> HIDE DEF u
<1>3. ASSUME NEW k \in 1 .. Len(t) PROVE u[k] = t[k]
  <2>1. Len(h) \in Nat /\ Len(c) \in Nat /\ Len(e) \in Nat
    OBVIOUS
  <2>2. CASE k <= Len(h)
    BY <1>0, <1>1, <1>2, <2>1, <2>2
  <2>3. CASE Len(h) < k /\ k <= Len(h) + Len(c)
    <3>1. k - Len(h) \in 1 .. Len(c) /\ k = Len(h) + (k - Len(h))
      BY <2>1, <2>3
    <3>2. g[k] = c[k - Len(h)] /\ c[k - Len(h)] = t[k]
      BY <1>0, <1>1, <3>1
    <3> QED
      BY <1>1, <1>2, <2>1, <2>3, <3>2
  <2>4. CASE Len(h) + Len(c) < k
    <3>1. k - Len(g) \in 1 .. Len(e) /\ k = Len(g) + (k - Len(g))
      BY <1>0, <1>1, <2>1, <2>4
    <3>2. u[k] = e[k - Len(g)]
      BY <1>2, <3>1
    <3>3. e[k - Len(g)] = t[k]
      BY <1>0, <1>1, <3>1
    <3> QED
      BY <3>2, <3>3
  <2> QED
    BY <2>1, <2>2, <2>3, <2>4
<1>4. u = t
  BY <1>0, <1>1, <1>2, <1>3, SameElements
<1> QED
  BY <1>4 DEF u, g

(* A delta gives back what it was made from. *)
LEMMA DeltaGivesBack ==
  ASSUME NEW b \in Seq(Byte), NEW t \in Seq(Byte)
  PROVE  ApplyDelta(b, CreateDelta(b, t), Len(t)) = {t}
<1> DEFINE m == Min({Len(b), Len(t)})
           P == {k \in 0 .. m : SubSeq(b, 1, k) = SubSeq(t, 1, k)}
           p == Max(P)
           S == {k \in 0 .. (m - p) :
                   SubSeq(b, Len(b) - k + 1, Len(b)) = SubSeq(t, Len(t) - k + 1, Len(t))}
           s == Max(S)
           d == CreateDelta(b, t)
<1>1. m \in Nat /\ m <= Len(b) /\ m <= Len(t)
  <2>1. {Len(b), Len(t)} \in SUBSET Nat
    OBVIOUS
  <2> QED
    BY <2>1, LeastOf
<1> HIDE DEF m
<1>2. 0 \in P
  BY <1>1
<1>3. p \in P
  BY <1>1, <1>2, GreatestOf
<1> HIDE DEF p
<1>4. p \in 0 .. m /\ SubSeq(b, 1, p) = SubSeq(t, 1, p)
  BY <1>3
<1>5. 0 \in S
  BY <1>1, <1>4
<1>6. s \in S
  <2>1. m - p \in Nat
    BY <1>1, <1>4
  <2>2. S \in SUBSET (0 .. (m - p)) /\ S # {}
    BY <1>5
  <2> HIDE DEF S
  <2> QED
    BY <2>1, <2>2, GreatestOf
<1> HIDE DEF s
<1>7. s \in 0 .. (m - p) /\ SubSeq(b, Len(b) - s + 1, Len(b)) = SubSeq(t, Len(t) - s + 1, Len(t))
  BY <1>6
<1>8. d = [prefix |-> p, suffix |-> s, middle |-> SubSeq(t, p + 1, Len(t) - s)]
  BY DEF CreateDelta, m, p, s
<1> HIDE DEF P, S, d
<1> DEFINE h == SubSeq(t, 1, p)
           c == SubSeq(t, p + 1, Len(t) - s)
           e == SubSeq(t, Len(t) - s + 1, Len(t))
<1>9. /\ h \in Seq(Byte) /\ Len(h) = p /\ \A k \in 1 .. p : h[k] = t[k]
      /\ c \in Seq(Byte) /\ Len(c) = Len(t) - s - p /\ \A k \in 1 .. (Len(t) - s - p) : c[k] = t[p + k]
      /\ e \in Seq(Byte) /\ Len(e) = s /\ \A k \in 1 .. s : e[k] = t[Len(t) - s + k]
  <2>1. /\ p \in Nat /\ s \in Nat /\ Len(t) \in Nat /\ p <= Len(t) - s /\ Len(t) - s \in Nat
    BY <1>1, <1>4, <1>7
  <2>2. h \in Seq(Byte) /\ Len(h) = p /\ \A k \in 1 .. p : h[k] = t[k]
    BY <2>1, PartOf
  <2>3. c \in Seq(Byte) /\ Len(c) = Len(t) - s - p /\ \A k \in 1 .. (Len(t) - s - p) : c[k] = t[p + k]
    BY <2>1, PartOf
  <2>4. e \in Seq(Byte) /\ Len(e) = s /\ \A k \in 1 .. s : e[k] = t[Len(t) - s + k]
    BY <2>1, PartOf
  <2> QED
    BY <2>2, <2>3, <2>4
<1>10. SubSeq(b, 1, d.prefix) \o d.middle \o SubSeq(b, Len(b) - d.suffix + 1, Len(b)) = (h \o c) \o e
  BY <1>4, <1>7, <1>8
<1> HIDE DEF h, c, e
<1>11. (h \o c) \o e = t
  <2>1. p \in Nat /\ s \in Nat /\ Len(t) \in Nat /\ p <= Len(t) - s
    BY <1>1, <1>4, <1>7
  <2>2. Len(t) = Len(h) + Len(c) + Len(e) /\ Len(h) = p /\ Len(e) = s /\ Len(h) + Len(c) = Len(t) - s
    BY ONLY <1>9, <2>1
  <2>3. \A k \in 1 .. Len(e) : e[k] = t[Len(h) + Len(c) + k]
    BY ONLY <1>9, <2>2
  <2>4. \A k \in 1 .. Len(h) : h[k] = t[k]
    BY ONLY <1>9, <2>2
  <2>5. \A k \in 1 .. Len(c) : c[k] = t[Len(h) + k]
    BY ONLY <1>9, <2>2, <2>1
  <2>6. h \in Seq(Byte) /\ c \in Seq(Byte) /\ e \in Seq(Byte) /\ t \in Seq(Byte)
    BY <1>9
  <2>7. Len(t) = Len(h) + Len(c) + Len(e)
    BY <2>2
  <2>8. MadeOf(t, h, c, e)
    BY ONLY <2>3, <2>4, <2>5, <2>7 DEF MadeOf
  <2> QED
    BY ONLY <2>6, <2>8, ThreeParts, Zenon
<1>12. d.prefix + d.suffix <= Len(b)
  BY <1>1, <1>4, <1>7, <1>8
<1> QED
  BY <1>10, <1>11, <1>12 DEF ApplyDelta, d

-----------------------------------------------------------------------------
(* An entry is its object, or a delta on one before it, not as deep. *)
SourceOf(p, k, c) ==
  /\ c \in 1 .. (k - 1) /\ p[k].base = p[c].id /\ p[k].depth = p[c].depth + 1 /\ p[k].depth <= MaxDeltaDepth
  /\ p[k].payload = CreateDelta(Contents[p[c].id], Contents[p[k].id])
Sound(p, k) ==
  /\ p[k].id \in Objects /\ p[k].depth \in 0 .. (k - 1)
  /\ \/ p[k].base = Whole /\ p[k].depth = 0 /\ p[k].payload = Contents[p[k].id]
     \/ \E c \in 1 .. (k - 1) : SourceOf(p, k, c)
SoundPack(p) == \A k \in DOMAIN p : Sound(p, k)

(* One layer of a reading, given what reading one layer less deep gives. *)
Result(p, below, k) ==
  IF p[k].base = Whole THEN {p[k].payload}
  ELSE UNION {UNION {ApplyDelta(b, p[k].payload, Len(Contents[p[k].id])) : b \in below[c]} :
         c \in {c \in PlaceOf(p, p[k].base) : c < k /\ p[k].depth = p[c].depth + 1}}
Layer(p, below, left) ==
  [k \in DOMAIN p |-> IF left > 0 /\ WellFormed(p[k]) /\ Result(p, below, k) = {Contents[p[k].id]}
                      THEN Result(p, below, k) ELSE {}]
Given(p, left, k) == IF p[k].depth < left THEN {Contents[p[k].id]} ELSE {}

LEMMA ContentsAre == /\ Contents \in Seq(Seq(Byte)) /\ Objects = 1 .. Len(Contents) /\ MaxDeltaDepth \in Nat
                     /\ \A o \in Objects : Contents[o] \in Seq(Byte) /\ o # Whole
BY PackAssumption DEF Byte, Objects, Whole

LEMMA ResultIs ==
  ASSUME NEW n \in Nat, NEW p, DOMAIN p = 1 .. n, SoundPack(p), NEW left \in Nat \ {0}, NEW k \in DOMAIN p,
         NEW below, \A c \in DOMAIN p : below[c] = Given(p, left - 1, c)
  PROVE  /\ WellFormed(p[k])
         /\ Result(p, below, k) = IF p[k].depth < left THEN {Contents[p[k].id]} ELSE {}
<1> DEFINE e == p[k]
           x == Len(Contents[e.id])
           Places == {c \in PlaceOf(p, e.base) : c < k /\ e.depth = p[c].depth + 1}
           Bytes(c) == UNION {ApplyDelta(b, e.payload, x) : b \in below[c]}
<1>1. Sound(p, k) /\ k \in 1 .. n
  BY DEF SoundPack
<1>2. e.id \in Objects /\ Contents[e.id] \in Seq(Byte) /\ e.depth \in Nat
  BY <1>1, ContentsAre DEF Sound
<1>3. Result(p, below, k) = IF e.base = Whole THEN {e.payload} ELSE UNION {Bytes(c) : c \in Places}
  BY DEF Result
<1>4. CASE e.base = Whole
  <2>1. \A c \in 1 .. (k - 1) : c \in DOMAIN p
    BY <1>1
  <2>2. \A c \in 1 .. (k - 1) : p[c].id # Whole
    BY <2>1, ContentsAre DEF SoundPack, Sound
  <2>3. ~ \E c \in 1 .. (k - 1) : SourceOf(p, k, c)
    BY <1>4, <2>2 DEF SourceOf
  <2>4. e.depth = 0 /\ e.payload = Contents[e.id]
    BY <1>1, <1>4, <2>3 DEF Sound
  <2> QED
    BY <1>3, <1>4, <2>4 DEF WellFormed
<1>5. CASE e.base # Whole
  <2>1. PICK c \in 1 .. (k - 1) : SourceOf(p, k, c)
    BY <1>1, <1>5 DEF Sound
  <2>2. c \in DOMAIN p /\ p[c].id \in Objects /\ p[c].depth \in Nat /\ e.base = p[c].id
    BY <1>1, <2>1 DEF SoundPack, Sound, SourceOf
  <2>3. c \in Places
    BY <1>1, <2>1, <2>2 DEF PlaceOf, SourceOf
  <2>4. WellFormed(e)
    <3>1. e.depth = p[c].depth + 1 /\ e.depth <= MaxDeltaDepth /\ p[c].depth \in Nat
      BY <2>1, <2>2 DEF SourceOf
    <3>2. e.depth \in 1 .. MaxDeltaDepth
      BY <3>1, ContentsAre
    <3> QED
      BY <1>5, <3>2 DEF WellFormed
  <2>5. e.payload = CreateDelta(Contents[e.base], Contents[e.id])
    BY <2>1, <2>2 DEF SourceOf
  <2>6. ASSUME NEW d \in Places
        PROVE  Bytes(d) = IF e.depth < left THEN {Contents[e.id]} ELSE {}
    <3>1. d \in DOMAIN p /\ p[d].id = e.base /\ e.depth = p[d].depth + 1 /\ p[d].depth \in Nat
      BY <1>1 DEF PlaceOf, SoundPack, Sound
    <3>2. below[d] = IF p[d].depth < left - 1 THEN {Contents[e.base]} ELSE {}
      BY <3>1 DEF Given
    <3>3. ApplyDelta(Contents[e.base], e.payload, x) = {Contents[e.id]}
      <4>1. Contents[e.base] \in Seq(Byte)
        BY <2>2, ContentsAre
      <4> QED
        BY <1>2, <2>5, <4>1, DeltaGivesBack
    <3>4. p[d].depth < left - 1 <=> e.depth < left
      BY <3>1
    <3>5. CASE e.depth < left
      BY <3>2, <3>3, <3>4, <3>5
    <3>6. CASE ~(e.depth < left)
      BY <3>2, <3>4, <3>6
    <3> QED
      BY <3>5, <3>6
  <2> HIDE DEF Places, Bytes
  <2>7. Result(p, below, k) = UNION {Bytes(d) : d \in Places}
    BY <1>3, <1>5
  <2>8. Result(p, below, k) = IF e.depth < left THEN {Contents[e.id]} ELSE {}
    BY <2>3, <2>6, <2>7
  <2> QED
    BY <2>4, <2>8
<1> QED
  BY <1>4, <1>5

(* A reading of budget b gives the bytes of the objects whose depth it covers,
   and fails for the others: the only function that reads so. *)
LEMMA RebuiltIs ==
  ASSUME NEW n \in Nat, NEW p, DOMAIN p = 1 .. n, SoundPack(p), NEW budget \in Nat, NEW i \in DOMAIN p
  PROVE  Rebuilt(p, budget, i) = Given(p, budget + 1, i)
<1> DEFINE Body(f) == [left \in 0 .. (budget + 1) |-> Layer(p, f[left - 1], left)]
           Read == CHOOSE Read : Read = Body(Read)
           G == [left \in 0 .. (budget + 1) |-> [k \in DOMAIN p |-> Given(p, left, k)]]
<1>1. Rebuilt(p, budget, i) = Read[budget + 1][i]
  BY DEF Rebuilt, Layer, Result
<1>2. \A k \in DOMAIN p : p[k].depth \in Nat
  BY DEF SoundPack, Sound
<1>3. ASSUME NEW left \in 0 .. (budget + 1), NEW f, left > 0 => \A c \in DOMAIN p : f[c] = Given(p, left - 1, c)
      PROVE  Layer(p, f, left) = [k \in DOMAIN p |-> Given(p, left, k)]
  <2>1. CASE left = 0
    BY <1>2, <2>1 DEF Layer, Given
  <2>2. CASE left > 0
    <3>1. left \in Nat \ {0} /\ \A c \in DOMAIN p : f[c] = Given(p, left - 1, c)
      BY <1>3, <2>2
    <3>2. \A k \in DOMAIN p : /\ WellFormed(p[k])
                              /\ Result(p, f, k) = IF p[k].depth < left THEN {Contents[p[k].id]} ELSE {}
      BY <3>1, ResultIs
    <3> QED
      BY <2>2, <3>2 DEF Layer, Given
  <2> QED
    BY <2>1, <2>2
<1>4. G = Body(G)
  <2>1. ASSUME NEW left \in 0 .. (budget + 1)
        PROVE  Layer(p, G[left - 1], left) = [k \in DOMAIN p |-> Given(p, left, k)]
    <3>1. left > 0 => \A c \in DOMAIN p : G[left - 1][c] = Given(p, left - 1, c)
      OBVIOUS
    <3> HIDE DEF G
    <3> QED
      BY <3>1, <1>3
  <2> QED
    BY <2>1
<1>5. Read = Body(Read)
  <2> HIDE DEF G, Body
  <2> QED
    BY <1>4
<1>6. \A left \in 0 .. (budget + 1) : Read[left] = [k \in DOMAIN p |-> Given(p, left, k)]
  <2> DEFINE Right(l) == Read[l] = [k \in DOMAIN p |-> Given(p, l, k)]
             Wrong == {left \in 0 .. (budget + 1) : ~Right(left)}
  <2> HIDE DEF Read
  <2>1. \A l \in 0 .. (budget + 1) : Read[l] = Layer(p, Read[l - 1], l)
    BY <1>5
  <2>2. \A l \in 0 .. (budget + 1) : (l > 0 => Right(l - 1)) => Right(l)
    <3>1. SUFFICES ASSUME NEW l \in 0 .. (budget + 1), l > 0 => Right(l - 1) PROVE Right(l)
      OBVIOUS
    <3>2. l > 0 => \A c \in DOMAIN p : Read[l - 1][c] = Given(p, l - 1, c)
      BY <3>1
    <3> QED
      BY <1>3, <2>1, <3>2
  <2> HIDE DEF Right
  <2>3. CASE Wrong = {}
    BY <2>3 DEF Right
  <2>4. CASE Wrong # {}
    <3>1. Wrong \in SUBSET Nat
      OBVIOUS
    <3> HIDE DEF Wrong
    <3>2. PICK l \in Wrong : \A y \in Wrong : l <= y
      BY <2>4, <3>1, LeastOf
    <3> USE DEF Wrong
    <3>3. l > 0 => l - 1 \in 0 .. (budget + 1) /\ l - 1 \notin Wrong
      BY <3>2
    <3> QED
      BY <2>2, <3>2, <3>3
  <2> QED
    BY <2>3, <2>4
<1>7. budget + 1 \in 0 .. (budget + 1)
  OBVIOUS
<1> HIDE DEF Read
<1>8. Read[budget + 1][i] = Given(p, budget + 1, i)
  BY <1>6, <1>7
<1> QED
  BY <1>1, <1>8

-----------------------------------------------------------------------------
Payloads == Seq(Byte) \cup {CreateDelta(Contents[a], Contents[b]) : a \in Objects, b \in Objects}
PackEntries == [id : Objects, base : Nat, depth : Nat, payload : Payloads]
PackSources == [id : Objects, affinity : Affinities]

(* What is packed is what is retained, and every entry, prepared or packed, can
   be read from the entries before it. *)
PackInv ==
  /\ retained \subseteq Objects /\ generation \in 0 .. MaxPacks
  /\ sources \in Seq(PackSources) /\ entries \in Seq(PackEntries) /\ pack \in Seq(PackEntries)
  /\ Len(entries) <= Len(sources) /\ \A i \in DOMAIN entries : entries[i].id = sources[i].id
  /\ SoundPack(entries) /\ SoundPack(pack)
  /\ sources # <<>> => {sources[i].id : i \in DOMAIN sources} = retained /\ generation < MaxPacks
  /\ pack # <<>> => \A id \in retained : \E i \in DOMAIN pack : pack[i].id = id

LEMMA PackStarts == PackInit => PackInv
<1> SUFFICES ASSUME PackInit PROVE PackInv
  OBVIOUS
<1>1. MaxPacks \in Nat
  BY PackAssumption
<1>2. <<>> \in Seq(PackSources) /\ <<>> \in Seq(PackEntries) /\ Len(<<>>) = 0 /\ DOMAIN <<>> = {}
  OBVIOUS
<1> QED
  BY <1>1, <1>2 DEF PackInit, PackInv, SoundPack

LEMMA GatherKeeps == ASSUME PackInv, Gather PROVE PackInv'
<1>1. /\ sources' \in SourcesOf(retained) /\ entries' = <<>> /\ generation < MaxPacks
      /\ retained' = retained /\ pack' = pack /\ generation' = generation
  BY DEF Gather
<1>2. retained \subseteq 1 .. Len(Contents) /\ Len(Contents) \in Nat
  BY ContentsAre DEF PackInv
<1>3. IsFiniteSet(retained) /\ Cardinality(retained) \in Nat
  <2>1. IsFiniteSet(1 .. Len(Contents))
    BY <1>2, FS_Interval
  <2>2. IsFiniteSet(retained)
    BY <1>2, <2>1, FS_Subset
  <2> QED
    BY <2>2, FS_CardinalityType
<1>4. /\ sources' \in [1 .. Cardinality(retained) -> [id : retained, affinity : Affinities]]
      /\ {sources'[i].id : i \in DOMAIN sources'} = retained
  BY <1>1 DEF SourcesOf
<1>5. sources' \in Seq(PackSources) /\ Len(sources') \in Nat
  <2>1. [id : retained, affinity : Affinities] \subseteq PackSources
    BY DEF PackInv, PackSources
  <2>2. \A i \in 1 .. Cardinality(retained) : sources'[i] \in PackSources
    BY <1>4, <2>1
  <2> QED
    BY <1>3, <1>4, <2>2
<1>6. /\ entries' \in Seq(PackEntries) /\ Len(entries') = 0 /\ DOMAIN entries' = {}
  BY <1>1
<1>7. SoundPack(entries') /\ SoundPack(pack')
  BY <1>1, <1>6 DEF PackInv, SoundPack
<1> QED
  BY <1>1, <1>4, <1>5, <1>6, <1>7 DEF PackInv

LEMMA LargerOfTwo == ASSUME NEW a \in Int, NEW b \in Int PROVE Max({a, b}) >= a /\ Max({a, b}) \in Int
<1>1. \E x \in {a, b} : \A y \in {a, b} : x >= y
  OBVIOUS
<1> QED
  BY <1>1 DEF Max

(* An entry prepared after sound ones is sound: whole, or on one of those. *)
LEMMA PreparedIsSound ==
  ASSUME PackInv, PrepareEntry
  PROVE  \E e \in PackEntries : /\ entries' = Append(entries, e) /\ e.id = sources[Len(entries) + 1].id
                                /\ Sound(Append(entries, e), Len(entries) + 1)
<1> DEFINE i == Len(entries) + 1
           id == sources[i].id
<1>1. /\ Len(entries) \in Nat /\ i \in DOMAIN sources /\ id \in Objects /\ DOMAIN entries = 1 .. Len(entries)
  BY DEF PackInv, PrepareEntry, PackSources
<1>2. CASE entries' = Append(entries, WholeEntry(id))
  <2> DEFINE e == WholeEntry(id)
             q == Append(entries, e)
  <2>1. e = [id |-> id, base |-> 0, depth |-> 0, payload |-> Contents[id]]
    BY DEF WholeEntry, Whole
  <2>2. e \in PackEntries
    BY <1>1, <2>1, ContentsAre DEF PackEntries, Payloads
  <2>3. q[i] = e
    BY <1>1, <2>2 DEF PackInv
  <2> HIDE DEF q, e, id
  <2>4. Sound(q, i)
    BY <1>1, <2>1, <2>3 DEF Sound, Whole
  <2> QED
    BY <1>2, <2>1, <2>2, <2>4 DEF q, e, id
<1>3. ASSUME NEW c \in Candidates(i), entries' = Append(entries, DeltaEntry(id, entries[c]))
      PROVE  \E e \in PackEntries : entries' = Append(entries, e) /\ e.id = id /\ Sound(Append(entries, e), i)
  <2> DEFINE e == DeltaEntry(id, entries[c])
             q == Append(entries, e)
  <2>1. c \in Max({1, i - CandidateWindow}) .. (i - 1) /\ MayBeBase(c, i)
    BY <1>3 DEF Candidates
  <2>2. c \in 1 .. (i - 1) /\ c \in DOMAIN entries
    <3>1. i - CandidateWindow \in Int
      BY <1>1, PackAssumption
    <3>2. Max({1, i - CandidateWindow}) >= 1 /\ Max({1, i - CandidateWindow}) \in Int
      BY <3>1, LargerOfTwo
    <3> QED
      BY <1>1, <2>1, <3>2
  <2>3. entries[c].id \in Objects /\ entries[c].depth \in 0 .. (c - 1) /\ entries[c].depth < MaxDeltaDepth
    BY <2>1, <2>2 DEF PackInv, SoundPack, Sound, MayBeBase
  <2>4. e = [id |-> id, base |-> entries[c].id, depth |-> entries[c].depth + 1,
             payload |-> CreateDelta(Contents[entries[c].id], Contents[id])]
    BY DEF DeltaEntry
  <2>5. e \in PackEntries
    <3>1. CreateDelta(Contents[entries[c].id], Contents[id]) \in Payloads
      BY <1>1, <2>3 DEF Payloads
    <3>2. entries[c].id \in Nat /\ entries[c].depth + 1 \in Nat
      BY <2>2, <2>3, ContentsAre
    <3> QED
      BY <1>1, <2>4, <3>1, <3>2 DEF PackEntries
  <2>6. q[i] = e /\ q[c] = entries[c]
    BY <1>1, <2>2, <2>5 DEF PackInv
  <2> HIDE DEF q, e, id
  <2>7. SourceOf(q, i, c)
    BY <1>1, <2>2, <2>3, <2>4, <2>6, ContentsAre DEF SourceOf
  <2>8. e.id \in Objects /\ e.depth \in 0 .. (i - 1)
    BY <1>1, <2>2, <2>3, <2>4
  <2>9. Sound(q, i)
    BY <2>2, <2>6, <2>7, <2>8 DEF Sound
  <2> QED
    BY <1>3, <2>4, <2>5, <2>9 DEF q, e, id
<1> QED
  BY <1>2, <1>3 DEF PrepareEntry

LEMMA PrepareKeeps == ASSUME PackInv, PrepareEntry PROVE PackInv'
<1>1. PICK e \in PackEntries : /\ entries' = Append(entries, e) /\ e.id = sources[Len(entries) + 1].id
                               /\ Sound(Append(entries, e), Len(entries) + 1)
  BY PreparedIsSound
<1>2. /\ sources' = sources /\ pack' = pack /\ retained' = retained /\ generation' = generation
      /\ Len(entries) + 1 <= Len(sources)
  BY DEF PrepareEntry
<1>3. /\ entries' \in Seq(PackEntries) /\ Len(entries') = Len(entries) + 1 /\ DOMAIN entries' = 1 .. (Len(entries) + 1)
      /\ entries'[Len(entries) + 1] = e /\ \A k \in 1 .. Len(entries) : entries'[k] = entries[k]
      /\ DOMAIN entries = 1 .. Len(entries) /\ Len(entries) \in Nat
  BY <1>1 DEF PackInv
<1>4. SoundPack(entries')
  <2>1. ASSUME NEW k \in 1 .. Len(entries) PROVE Sound(entries', k)
    <3>1. Sound(entries, k)
      BY <1>3 DEF PackInv, SoundPack
    <3>2. \A c \in 1 .. k : entries'[c] = entries[c]
      BY <1>3
    <3>3. \A c \in 1 .. (k - 1) : SourceOf(entries, k, c) => SourceOf(entries', k, c)
      BY <3>2 DEF SourceOf
    <3> QED
      BY <3>1, <3>2, <3>3 DEF Sound
  <2>2. Sound(entries', Len(entries) + 1)
    BY <1>1
  <2> QED
    BY <1>3, <2>1, <2>2 DEF SoundPack
<1>5. \A i \in DOMAIN entries' : entries'[i].id = sources'[i].id
  BY <1>1, <1>2, <1>3 DEF PackInv
<1>6. SoundPack(pack')
  BY <1>2 DEF PackInv
<1> QED
  BY <1>2, <1>3, <1>4, <1>5, <1>6 DEF PackInv

LEMMA ActivateKeeps == ASSUME PackInv, Activate PROVE PackInv'
<1>1. /\ pack' = entries /\ generation' = generation + 1 /\ sources' = <<>> /\ entries' = <<>> /\ retained' = retained
      /\ sources # <<>> /\ Len(entries) = Len(sources)
  BY DEF Activate, Prepared
<1>2. \A id \in retained : \E i \in DOMAIN entries : entries[i].id = id
  <2>1. \A id \in retained : \E i \in DOMAIN sources : sources[i].id = id
    BY <1>1 DEF PackInv
  <2>2. DOMAIN sources = DOMAIN entries
    BY <1>1 DEF PackInv
  <2> QED
    BY <2>1, <2>2 DEF PackInv
<1>3. generation' \in 0 .. MaxPacks
  BY <1>1, PackAssumption DEF PackInv
<1>4. /\ <<>> \in Seq(PackSources) /\ <<>> \in Seq(PackEntries) /\ Len(<<>>) = 0 /\ DOMAIN <<>> = {}
  OBVIOUS
<1>5. SoundPack(entries') /\ SoundPack(pack')
  BY <1>1, <1>4 DEF PackInv, SoundPack
<1> QED
  BY <1>1, <1>2, <1>3, <1>4, <1>5 DEF PackInv

LEMMA SelectKeeps == ASSUME PackInv, Select PROVE PackInv'
BY DEF PackInv, Select

LEMMA PackKeeps == ASSUME PackInv, [PackNext]_packVars PROVE PackInv'
<1>1. CASE UNCHANGED packVars
  BY <1>1 DEF PackInv, packVars
<1> QED
  BY <1>1, GatherKeeps, PrepareKeeps, ActivateKeeps, SelectKeeps DEF PackNext

(* An entry of a sound pack is no deeper than its place, nor than a delta may be. *)
LEMMA DepthsAre ==
  ASSUME NEW n \in Nat, NEW p, DOMAIN p = 1 .. n, SoundPack(p), NEW i \in DOMAIN p
  PROVE  p[i].depth \in 0 .. (i - 1) /\ p[i].depth <= MaxDeltaDepth
BY ContentsAre DEF SoundPack, Sound, SourceOf

LEMMA PacksAreRead == PackInv => PacksReadBack
<1> SUFFICES ASSUME PackInv PROVE PacksReadBack
  OBVIOUS
<1>1. ASSUME Prepared PROVE Verified(entries)
  <2>1. DOMAIN entries = 1 .. Len(entries) /\ Len(entries) \in Nat /\ Len(entries) > 0 /\ SoundPack(entries)
    BY <1>1 DEF PackInv, Prepared
  <2>2. ASSUME NEW i \in DOMAIN entries PROVE Rebuilt(entries, Len(entries), i) # {}
    <3>1. Rebuilt(entries, Len(entries), i) = Given(entries, Len(entries) + 1, i)
      BY <2>1, RebuiltIs
    <3>2. entries[i].depth \in 0 .. (i - 1)
      BY <2>1, DepthsAre
    <3>3. entries[i].depth < Len(entries) + 1
      BY <2>1, <3>2
    <3> QED
      BY <3>1, <3>3 DEF Given
  <2> QED
    BY <2>1, <2>2 DEF Verified
<1>2. ASSUME pack # <<>>, NEW id \in retained PROVE ReadsAlone(pack, id)
  <2>1. DOMAIN pack = 1 .. Len(pack) /\ Len(pack) \in Nat /\ SoundPack(pack)
    BY DEF PackInv
  <2>2. PICK i \in DOMAIN pack : pack[i].id = id
    BY <1>2 DEF PackInv
  <2>3. Rebuilt(pack, MaxDeltaDepth, i) = Given(pack, MaxDeltaDepth + 1, i)
    BY <2>1, RebuiltIs, ContentsAre
  <2>4. pack[i].depth \in Nat /\ pack[i].depth <= MaxDeltaDepth
    BY <2>1, DepthsAre
  <2>5. pack[i].depth < MaxDeltaDepth + 1
    BY <2>4, ContentsAre
  <2>6. Rebuilt(pack, MaxDeltaDepth, i) = {Contents[id]}
    BY <2>2, <2>3, <2>5 DEF Given
  <2> QED
    BY <2>2, <2>6 DEF ReadsAlone, PlaceOf
<1> QED
  BY <1>1, <1>2 DEF PacksReadBack

(* Whatever is packed together, repacked or left behind by a purge, the verifier
   accepts what was prepared and every object retained is read back from the
   pack in use, for every contents, depth limit and window. *)
THEOREM PacksAreReadBack == PackSpec => []PacksReadBack
<1>1. PackSpec => []PackInv
  BY PackStarts, PackKeeps, PTL DEF PackSpec
<1> QED
  BY <1>1, PacksAreRead, PTL

(* An entry is prepared for a source, in its place. *)
THEOREM PackTypesHold == PackSpec => []PackTypeOK
<1>1. PackSpec => []PackInv
  BY PackStarts, PackKeeps, PTL DEF PackSpec
<1>2. PackInv => PackTypeOK
  BY DEF PackInv, PackTypeOK
<1> QED
  BY <1>1, <1>2, PTL
=============================================================================
