---------------------------- MODULE WriterLease ----------------------------
(***************************************************************************)
(* Who may write a library.  A process that wants to write either forwards *)
(* the work to a running daemon or binds the writer socket of the library  *)
(* (the lease) and writes itself; a daemon binds the lease first and its   *)
(* control socket after it.  A socket outlives a killed process as a name  *)
(* nobody listens on, which the next process finds stale, removes and      *)
(* binds again, all under an advisory lock that dies with its holder.      *)
(* Releasing a socket takes no lock (apps/wikisyncd/src/lib.rs).           *)
(***************************************************************************)
EXTENDS Naturals, FiniteSets
CONSTANTS Procs, Daemons, Inodes, None
ASSUME LeaseAssumption == /\ Daemons \subseteq Procs
                          /\ None \notin Procs \cup Inodes \cup [inode : Inodes, owner : Procs]

Keys == {"writer", "daemon"}

VARIABLES
  pc,       \* what each process is doing
  key,      \* the socket it is binding or releasing
  seen,     \* the inode it found stale
  guard,    \* the inode it remembers of each socket it bound
  listening,\* the sockets that are listened on: <<process, key>>
  path,     \* the socket each name stands for: its inode and who bound it
  lock,     \* who holds the IPC lock
  lost      \* holders whose lease no longer shows (a history variable)
leaseVars == <<pc, key, seen, guard, listening, path, lock, lost>>

Binding == {"lock", "inspect", "clear", "bind"}
Awake == {"startup", "serving", "writing"}
LeaseTypeOK ==
  /\ pc \in [Procs -> {"off", "release", "checked"} \cup Binding \cup Awake]
  /\ key \in [Procs -> Keys]
  /\ seen \in [Procs -> Inodes \cup {None}]
  /\ guard \in [Procs -> [Keys -> Inodes \cup {None}]]
  /\ listening \subseteq Procs \X Keys
  /\ path \in [Keys -> [inode : Inodes, owner : Procs] \cup {None}]
  /\ lock \in Procs \cup {None}
  /\ lost \subseteq Procs

LeaseInit ==
  /\ pc = [p \in Procs |-> "off"]
  /\ key = [p \in Procs |-> "writer"]
  /\ seen = [p \in Procs |-> None]
  /\ guard = [p \in Procs |-> [k \in Keys |-> None]]
  /\ listening = {}
  /\ path = [k \in Keys |-> None]
  /\ lock = None
  /\ lost = {}

Active(k) == path[k] # None /\ <<path[k].owner, k>> \in listening

(* From the bind of the lease to its release. *)
Writers == {p \in Procs : guard[p]["writer"] # None /\ pc[p] \notin {"release", "checked"}}
             \cup {p \in Procs : guard[p]["daemon"] # None}

Go(p, there) == pc' = [pc EXCEPT ![p] = there]

(* A writer first asks for a daemon; while one listens the work goes there. *)
Discover(p) ==
  /\ pc[p] = "off" /\ (p \notin Daemons => ~Active("daemon"))
  /\ Go(p, "lock") /\ key' = [key EXCEPT ![p] = "writer"]
  /\ UNCHANGED <<seen, guard, listening, path, lock, lost>>

AcquireLockShared(p) ==
  /\ pc[p] = "lock"
  /\ Go(p, "inspect") /\ lock' = p
  /\ UNCHANGED <<key, seen, guard, listening, path, lost>>
AcquireLock(p) ==
  /\ pc[p] = "lock" /\ lock = None
  /\ Go(p, "inspect") /\ lock' = p
  /\ UNCHANGED <<key, seen, guard, listening, path, lost>>

Unlock(p) == lock' = IF lock = p THEN None ELSE lock

(* Giving up: a daemon that cannot have its control socket drops the lease. *)
GiveUp(p) ==
  IF key[p] = "daemon"
    THEN Go(p, "release") /\ key' = [key EXCEPT ![p] = "writer"]
                          /\ listening' = listening \ {<<p, "writer">>}
    ELSE Go(p, "off") /\ UNCHANGED <<key, listening>>

Inspect(p) ==
  /\ pc[p] = "inspect"
  /\ \/ /\ path[key[p]] = None
        /\ Go(p, "bind") /\ UNCHANGED <<key, seen, listening, lock>>
     \/ /\ Active(key[p])
        /\ GiveUp(p) /\ Unlock(p) /\ UNCHANGED seen
     \/ /\ path[key[p]] # None /\ ~Active(key[p])
        /\ Go(p, "clear") /\ seen' = [seen EXCEPT ![p] = path[key[p]].inode]
        /\ UNCHANGED <<key, listening, lock>>
  /\ UNCHANGED <<guard, path, lost>>

RemoveStale(p) ==
  /\ pc[p] = "clear"
  /\ IF path[key[p]] # None /\ path[key[p]].inode = seen[p]
       THEN /\ path' = [path EXCEPT ![key[p]] = None]
            /\ Go(p, "bind") /\ UNCHANGED <<key, listening, lock>>
       ELSE GiveUp(p) /\ Unlock(p) /\ UNCHANGED path
  /\ seen' = [seen EXCEPT ![p] = None]
  /\ UNCHANGED <<guard, lost>>

(* An inode is in use while a name or an open socket refers to it; the
   number a guard remembers keeps nothing alive. *)
InUse(i) ==
  \/ \E k \in Keys : path[k] # None /\ path[k].inode = i
  \/ \E p \in Procs, k \in Keys : <<p, k>> \in listening /\ guard[p][k] = i

Bind(p) ==
  /\ pc[p] = "bind"
  /\ IF path[key[p]] = None
       THEN \E i \in Inodes :
              /\ ~InUse(i)
              /\ path' = [path EXCEPT ![key[p]] = [inode |-> i, owner |-> p]]
              /\ guard' = [guard EXCEPT ![p][key[p]] = i]
              /\ listening' = listening \cup {<<p, key[p]>>}
              /\ Go(p, IF key[p] = "daemon" THEN "serving"
                       ELSE IF p \in Daemons THEN "startup" ELSE "writing")
              /\ UNCHANGED key
       ELSE GiveUp(p) /\ UNCHANGED <<path, guard>>
  /\ Unlock(p)
  /\ UNCHANGED <<seen, lost>>

(* Recovery under the lease, before the control socket exists. *)
Startup(p) ==
  /\ pc[p] = "startup"
  /\ \/ Go(p, "lock") /\ key' = [key EXCEPT ![p] = "daemon"] /\ UNCHANGED listening
     \/ /\ Go(p, "release") /\ key' = [key EXCEPT ![p] = "writer"]
        /\ listening' = listening \ {<<p, "writer">>}
  /\ UNCHANGED <<seen, guard, path, lock, lost>>

(* The fields of a daemon are dropped in their order: the listener and its
   guard, then the lease. *)
StopLeaseFirst(p) ==
  /\ pc[p] \in {"serving", "writing"}
  /\ key' = [key EXCEPT ![p] = "writer"]
  /\ Go(p, "release")
  /\ listening' = listening \ {<<p, "writer">>}
  /\ UNCHANGED <<seen, guard, path, lock, lost>>
StopServing(p) ==
  /\ pc[p] \in {"serving", "writing"}
  /\ key' = [key EXCEPT ![p] = IF pc[p] = "serving" THEN "daemon" ELSE "writer"]
  /\ Go(p, "release")
  /\ listening' = listening \ {<<p, key'[p]>>}
  /\ UNCHANGED <<seen, guard, path, lock, lost>>

(* What follows the release of a socket: the lease after the control socket. *)
Dropped(p) ==
  /\ guard' = [guard EXCEPT ![p][key[p]] = None]
  /\ IF key[p] = "daemon"
       THEN Go(p, "release") /\ key' = [key EXCEPT ![p] = "writer"]
                             /\ listening' = listening \ {<<p, "writer">>}
       ELSE Go(p, "off") /\ UNCHANGED <<key, listening>>

CheckGuard(p) ==
  /\ pc[p] = "release"
  /\ IF path[key[p]] # None /\ path[key[p]].inode = guard[p][key[p]]
       THEN Go(p, "checked") /\ UNCHANGED <<key, guard, listening>>
       ELSE Dropped(p)
  /\ UNCHANGED <<seen, path, lock>>
  /\ lost' = IF key[p] = "writer" /\ pc'[p] = "off" THEN lost \ {p} ELSE lost

(* Whatever the name stands for now. *)
UnlinkName(p) ==
  /\ pc[p] = "checked"
  /\ path' = [path EXCEPT ![key[p]] = None]
  /\ Dropped(p)
  /\ lost' = (lost \ {p}) \cup
       {q \in Procs \ {p} : path[key[p]] # None /\ path[key[p]].owner = q
                              /\ <<q, key[p]>> \in listening}
  /\ UNCHANGED <<seen, lock>>

(* accept fails for a reason the monitor does not expect, as when the process
   is out of file descriptors: the monitor ends and closes the socket. *)
MonitorEnds(p) ==
  /\ pc[p] \in Awake /\ <<p, "writer">> \in listening
  /\ listening' = listening \ {<<p, "writer">>}
  /\ lost' = lost \cup {p}
  /\ UNCHANGED <<pc, key, seen, guard, path, lock>>

Crash(p) ==
  /\ pc[p] # "off"
  /\ Go(p, "off") /\ key' = [key EXCEPT ![p] = "writer"]
  /\ seen' = [seen EXCEPT ![p] = None]
  /\ guard' = [guard EXCEPT ![p] = [k \in Keys |-> None]]
  /\ listening' = {s \in listening : s[1] # p}
  /\ Unlock(p) /\ lost' = lost \ {p}
  /\ UNCHANGED path

LeaseNext ==
  \E p \in Procs :
    \/ Discover(p) \/ AcquireLock(p) \/ Inspect(p) \/ RemoveStale(p) \/ Bind(p)
    \/ Startup(p) \/ StopServing(p) \/ CheckGuard(p) \/ UnlinkName(p)
    \/ MonitorEnds(p) \/ Crash(p)
LeaseSpec == LeaseInit /\ [][LeaseNext]_leaseVars

(* Two processes never hold the lease of one library, whatever crashed and
   however the numbers of inodes are used again, as long as no lease has been
   lost to the one gap between the check of a guard and its unlink, or to the
   end of a monitor. *)
OneWriterUnlessLost ==
  \A p, q \in Writers : p # q => {p, q} \cap lost # {}

(* A client that finds the control socket listened on talks to the process
   that holds the lease: a daemon gives the lease up last. *)
ReachedDaemonOwnsWriter ==
  Active("daemon") => LET d == path["daemon"].owner IN
                        guard[d]["writer"] # None /\ (d \in lost \/ <<d, "writer">> \in listening)

(* One process writes, and it is the one a client reaches. *)
OneReachedWriter == OneWriterUnlessLost /\ ReachedDaemonOwnsWriter
=============================================================================
