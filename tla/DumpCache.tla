----------------------------- MODULE DumpCache -----------------------------
(***************************************************************************)
(* One artifact of an authenticated dump in the cache directory: fetched   *)
(* into a locked part file that a later call resumes, checked against the  *)
(* digest of the trusted index, and published by a hard link               *)
(* (crates/wikisync-mediawiki/src/acquisition.rs).                         *)
(*                                                                         *)
(* Files are inodes with a content and the content a power loss leaves;    *)
(* names point at them.  A byte is the edition of the artifact it belongs  *)
(* to, or is wrong.  Calls may overlap, be killed at any step, and be      *)
(* answered with anything.  Overlapping calls trust the same index.        *)
(***************************************************************************)
EXTENDS Naturals, Sequences, FiniteSets
CONSTANTS
  Caller,       \* calls that may overlap
  Length,       \* length of each edition that is published under the name
  MaxFiles, MaxKills, MaxPowerLosses   \* bounds
ASSUME CacheAssumption ==
  /\ Length \in Seq(Nat \ {0}) /\ Length # <<>>
  /\ {MaxFiles, MaxKills, MaxPowerLosses} \subseteq Nat

Edition == 1..Len(Length)
Wrong == 0
Byte == Edition \cup {Wrong}
Contents == UNION {[1..n -> Byte] : n \in 0..Length[1]}
Whole(e) == [i \in 1..Length[e] |-> e]
NoFile == 0
File == 1..MaxFiles

VARIABLES
  trusted,   \* the edition the current index names
  content, flushed,   \* of each file: now, and what is on the disk for certain
  name, named,       \* the final and the part name: now, and on the disk
  locked,    \* the files under an exclusive lock
  call,      \* each call: its step, its open file, and what it has hashed
  files, kills, outages
cacheVars == <<trusted, content, flushed, name, named, locked, call, files, kills, outages>>
disk == <<content, flushed, name, named, files>>

Steps == {"idle", "open", "lock", "request", "body", "digest", "sync", "link", "unlink", "syncdir", "verified"}
CacheTypeOK ==
  /\ trusted \in Edition
  /\ content \in [File -> Contents] /\ flushed \in [File -> Contents]
  /\ {name, named} \subseteq [final : 0..MaxFiles, part : 0..MaxFiles]
  /\ locked \subseteq File
  /\ call \in [Caller -> [step : Steps, file : 0..MaxFiles, hashed : Contents]]
  /\ files \in 0..MaxFiles /\ kills \in 0..MaxKills /\ outages \in 0..MaxPowerLosses

Rest == [step |-> "idle", file |-> NoFile, hashed |-> <<>>]
CacheInit ==
  /\ trusted = 1
  /\ content = [f \in File |-> <<>>] /\ flushed = [f \in File |-> <<>>]
  /\ name = [final |-> NoFile, part |-> NoFile] /\ named = name
  /\ locked = {} /\ call = [c \in Caller |-> Rest]
  /\ files = 0 /\ kills = 0 /\ outages = 0

At(c, step) == call[c].step = step
Holds(c) == call[c].step \notin {"idle", "open", "lock", "verified"}
Goto(c, step) == call' = [call EXCEPT ![c].step = step]
(* Every return drops the open file, and with it the lock. *)
Return(c) ==
  /\ call' = [call EXCEPT ![c] = Rest]
  /\ locked' = IF Holds(c) THEN locked \ {call[c].file} ELSE locked
Bounds == <<trusted, kills, outages>>

(* A new index is trusted: the same name now stands for another edition. *)
TrustNext ==
  /\ trusted < Len(Length) /\ \A c \in Caller : At(c, "idle")
  /\ trusted' = trusted + 1
  /\ UNCHANGED <<disk, locked, call, kills, outages>>

(* A final file is used if it verifies and refused otherwise. *)
Verifies(file) == content[file] = Whole(trusted)
Look(c) ==
  /\ At(c, "idle")
  /\ IF name.final = NoFile THEN Goto(c, "open")
     ELSE Verifies(name.final) /\ Goto(c, "verified")
  /\ UNCHANGED <<disk, locked, Bounds>>
OpenPartial(c) ==
  /\ At(c, "open")
  /\ IF name.part # NoFile
       THEN /\ call' = [call EXCEPT ![c].step = "lock", ![c].file = name.part]
            /\ UNCHANGED disk
       ELSE /\ files < MaxFiles /\ files' = files + 1
            /\ name' = [name EXCEPT !.part = files + 1]
            /\ call' = [call EXCEPT ![c].step = "lock", ![c].file = files + 1]
            /\ UNCHANGED <<content, flushed, named>>
  /\ UNCHANGED <<locked, Bounds>>
(* The lock is on the file that was opened, whatever the name is by now; what it
   holds is hashed under the lock. *)
Lock(c) ==
  LET existing == content[call[c].file] IN
  /\ At(c, "lock")
  /\ IF call[c].file \in locked \/ Len(existing) > Length[trusted]
       THEN Return(c)
       ELSE /\ locked' = locked \cup {call[c].file}
            /\ call' = [call EXCEPT ![c].hashed = existing,
                          ![c].step = IF Len(existing) = Length[trusted] THEN "digest" ELSE "request"]
  /\ UNCHANGED <<disk, Bounds>>

(* The whole body, or the exact range after what is there; anything else the
   source answers ends the call. *)
AcceptResponse(c) ==
  /\ At(c, "request") /\ Goto(c, "body")
  /\ UNCHANGED <<disk, locked, Bounds>>
RejectResponse(c) ==
  /\ At(c, "request") /\ Return(c)
  /\ UNCHANGED <<disk, Bounds>>
WriteChunk(c, byte) ==
  /\ At(c, "body") /\ Len(call[c].hashed) < Length[trusted]
  /\ content' = [content EXCEPT ![call[c].file] = Append(@, byte)]
  /\ call' = [call EXCEPT ![c].hashed = Append(@, byte)]
  /\ UNCHANGED <<flushed, name, named, files, locked, Bounds>>
EndOfBody(c) ==
  /\ At(c, "body") /\ Len(call[c].hashed) = Length[trusted]
  /\ Goto(c, "digest")
  /\ UNCHANGED <<disk, locked, Bounds>>
(* A body that is cut short is kept; one that is too long, or over the budget,
   ends the call without a sync. *)
CutBody(c) ==
  /\ At(c, "body") /\ Return(c)
  /\ \/ flushed' = [flushed EXCEPT ![call[c].file] = content[call[c].file]]
     \/ UNCHANGED flushed
  /\ UNCHANGED <<content, name, named, files, Bounds>>

-----------------------------------------------------------------------------
(* publish_completed_partial *)
Matches(c) == call[c].hashed = Whole(trusted)
CheckDigest(c) ==
  /\ At(c, "digest")
  /\ IF Matches(c)
       THEN Goto(c, "sync") /\ UNCHANGED <<content, flushed, locked>>
       ELSE /\ content' = [content EXCEPT ![call[c].file] = <<>>]
            /\ flushed' = [flushed EXCEPT ![call[c].file] = <<>>]
            /\ Return(c)
  /\ UNCHANGED <<name, named, files, Bounds>>
SyncNothing(c) ==
  /\ At(c, "sync") /\ Goto(c, "link")
  /\ UNCHANGED <<disk, locked, Bounds>>
SyncFile(c) ==
  /\ At(c, "sync") /\ Goto(c, "link")
  /\ flushed' = [flushed EXCEPT ![call[c].file] = content[call[c].file]]
  /\ UNCHANGED <<content, name, named, files, locked, Bounds>>
(* The link is made from the name of the part, not from the open file. *)
Link(c) ==
  /\ At(c, "link")
  /\ IF name.part = NoFile \/ (name.final # NoFile /\ ~Verifies(name.final))
       THEN Return(c) /\ UNCHANGED name
       ELSE /\ Goto(c, "unlink") /\ UNCHANGED locked
            /\ name' = IF name.final = NoFile THEN [name EXCEPT !.final = name.part] ELSE name
  /\ UNCHANGED <<content, flushed, named, files, Bounds>>
Unlink(c) ==
  /\ At(c, "unlink")
  /\ IF name.part = NoFile
       THEN Return(c) /\ UNCHANGED name
       ELSE Goto(c, "syncdir") /\ name' = [name EXCEPT !.part = NoFile] /\ UNCHANGED locked
  /\ UNCHANGED <<content, flushed, named, files, Bounds>>
SyncDirectory(c) ==
  /\ At(c, "syncdir")
  /\ named' = name
  /\ call' = [call EXCEPT ![c] = [Rest EXCEPT !.step = "verified"]]
  /\ locked' = locked \ {call[c].file}
  /\ UNCHANGED <<content, flushed, name, files, Bounds>>

(* The caller is told the file is there, and goes on to the import. *)
Take(c) ==
  /\ At(c, "verified") /\ Return(c)
  /\ UNCHANGED <<disk, Bounds>>

(* Faults: a kill or a timeout of the call; a loss of power, after which each
   name and each file is what was flushed, what it was last, or for a file the
   flushed part and something after it. *)
Kill(c) ==
  /\ kills < MaxKills /\ kills' = kills + 1
  /\ ~At(c, "idle") /\ Return(c)
  /\ UNCHANGED <<disk, trusted, outages>>
Survives(file, after) ==
  \/ after \in {content[file], flushed[file]}
  \/ /\ Len(flushed[file]) <= Len(after) /\ Len(after) <= Len(content[file])
     /\ \A i \in 1..Len(flushed[file]) : after[i] = flushed[file][i]
LosePower ==
  /\ outages < MaxPowerLosses /\ outages' = outages + 1
  /\ \E after \in [File -> Contents] :
       /\ \A f \in File : Survives(f, after[f])
       /\ content' = after /\ flushed' = after
  /\ \E final \in {name.final, named.final}, part \in {name.part, named.part} :
       /\ name' = [final |-> final, part |-> part]
       /\ named' = name'
  /\ locked' = {} /\ call' = [c \in Caller |-> Rest]
  /\ UNCHANGED <<trusted, files, kills>>

CacheNext ==
  \/ TrustNext \/ LosePower
  \/ \E c \in Caller :
       \/ Look(c) \/ OpenPartial(c) \/ Lock(c) \/ AcceptResponse(c) \/ RejectResponse(c)
       \/ EndOfBody(c) \/ CutBody(c) \/ CheckDigest(c) \/ SyncFile(c) \/ Link(c)
       \/ Unlink(c) \/ SyncDirectory(c) \/ Take(c) \/ Kill(c)
       \/ \E byte \in {trusted, Wrong} : WriteChunk(c, byte)
CacheSpec == CacheInit /\ [][CacheNext]_cacheVars

-----------------------------------------------------------------------------
(* What is published is a whole edition, also after a loss of power at any step
   and whatever another call does to the part; and a call that returns the file
   returns the edition it was asked for. *)
PublishedIsWhole ==
  /\ name.final # NoFile => \E e \in Edition : content[name.final] = Whole(e)
  /\ \A c \in Caller : At(c, "verified") =>
       name.final # NoFile /\ Verifies(name.final)
=============================================================================
