------------------------------ MODULE TrustFiles ------------------------------
(***************************************************************************)
(* The signing keys and the trusted-head anchor a user keeps outside the   *)
(* library: generated, exported, refreshed and rotated by the command line *)
(* (apps/wikisync-cli/src/trust.rs) and refreshed by the GUI, one at a     *)
(* time, each killed at any step and the power lost once.  Each directory  *)
(* keeps its operations in order, and all of them once it is synced.       *)
(***************************************************************************)
EXTENDS Naturals, Sequences
CONSTANTS
  SigningKeys,   \* keys, each generated at a path of its own
  MaxHead,       \* how far the manifest chain grows
  MaxTrustOps,   \* operations begun
  MaxCrashes     \* power losses
ASSUME TrustAssumption == MaxHead \in Nat \ {0} /\ {MaxTrustOps, MaxCrashes} \subseteq Nat

VARIABLES
  tip,      \* the head of the manifest chain, which verifies
  keyDir,   \* what the directory of the keys held since it was last synced
  anchorDir,\* and that of the anchors; the last entry is what programs see
  todo,     \* the writes the running operation has still to do
  ops,
  crashes
trustVars == <<tip, keyDir, anchorDir, todo, ops, crashes>>

Absent == [kind |-> "absent"]
Torn == [kind |-> "torn"]
KeyFile(k) == [kind |-> "key", key |-> k]
Anchor(k, h) == [kind |-> "anchor", key |-> k, head |-> h]
Anchors == {Anchor(k, h) : k \in SigningKeys, h \in 1..MaxHead}

(* The anchor in use, the copy a rotation to k leaves, and the copy the GUI
   names after what it replaces. *)
Current == <<"current">>
Recovery(k) == <<"recovery", k>>
Previous(a) == <<"previous", a.key, a.head>>
AnchorPaths == {Current} \cup {Recovery(k) : k \in SigningKeys} \cup {Previous(a) : a \in Anchors}

KeyNow == keyDir[Len(keyDir)]
AnchorNow == anchorDir[Len(anchorDir)].files
(* The anchors that were in use and were not replaced by a plain refresh. *)
InUse == anchorDir[Len(anchorDir)].used

TrustTypeOK ==
  /\ tip \in 1..MaxHead /\ ops \in 0..MaxTrustOps /\ crashes \in 0..MaxCrashes
  /\ \A i \in DOMAIN keyDir : keyDir[i] \in [SigningKeys -> {Absent, Torn} \cup {KeyFile(k) : k \in SigningKeys}]
  /\ \A i \in DOMAIN anchorDir :
       /\ anchorDir[i].files \in [AnchorPaths -> {Absent, Torn} \cup Anchors]
       /\ anchorDir[i].used \subseteq Anchors

TrustInit ==
  /\ tip = 1
  /\ keyDir = << [k \in SigningKeys |-> Absent] >>
  /\ anchorDir = << [files |-> [p \in AnchorPaths |-> Absent], used |-> {}] >>
  /\ todo = <<>> /\ ops = 0 /\ crashes = 0

Key(step, k, s) == [step |-> step, dir |-> "keys", path |-> k, what |-> KeyFile(k), synced |-> s]
AnchorFile(step, p, a, s) == [step |-> step, dir |-> "anchors", path |-> p, what |-> a, synced |-> s]

Run(writes) ==
  /\ todo = <<>> /\ todo' = writes
  /\ ops < MaxTrustOps /\ ops' = ops + 1
  /\ UNCHANGED <<tip, keyDir, anchorDir, crashes>>

(* A create-new file is created, filled and synced, then its directory is; the
   GUI leaves the directory to the system. *)
GenerateKey(k, gui) == KeyNow[k] = Absent /\ Run(<<Key("create", k, ~gui)>>)

(* The key is valid and the library verifies up to the head it signs. *)
ExportAnchor(k) ==
  /\ KeyNow[k] = KeyFile(k) /\ AnchorNow[Current] = Absent
  /\ Run(<<AnchorFile("create", Current, Anchor(k, tip), TRUE)>>)
RefreshAnchor(k) ==
  /\ KeyNow[k] = KeyFile(k) /\ AnchorNow[Current] \in Anchors
  /\ Run(<<AnchorFile("refresh", Current, Anchor(k, tip), TRUE)>>)

(* The GUI keeps what it replaces under a name of its own, and refuses when
   something else has the name. *)
RefreshInGui(k) ==
  LET old == AnchorNow[Current]
      new == AnchorFile("replace", Current, Anchor(k, tip), FALSE)
  IN /\ KeyNow[k] = KeyFile(k) /\ old # Torn
     /\ IF old \in {Absent, Anchor(k, tip)} \/ AnchorNow[Previous(old)] = old
          THEN Run(<<new>>)
          ELSE /\ AnchorNow[Previous(old)] = Absent
               /\ Run(<<AnchorFile("create", Previous(old), old, FALSE), new>>)

(* A rotation starts from an anchor that authenticates the library as it is:
   new key, copy of the old anchor, replacement, in this order. *)
ReplaceFirst(k) ==
  /\ AnchorNow[Current] \in {Anchor(j, tip) : j \in SigningKeys}
  /\ KeyNow[k] = Absent /\ AnchorNow[Recovery(k)] = Absent
  /\ Run(<<Key("create", k, TRUE), AnchorFile("replace", Current, Anchor(k, tip), TRUE),
           AnchorFile("create", Recovery(k), AnchorNow[Current], TRUE)>>)
RotateKey(k) ==
  /\ AnchorNow[Current] \in {Anchor(j, tip) : j \in SigningKeys}
  /\ KeyNow[k] = Absent /\ AnchorNow[Recovery(k)] = Absent
  /\ Run(<<Key("create", k, TRUE), AnchorFile("create", Recovery(k), AnchorNow[Current], TRUE),
           AnchorFile("replace", Current, Anchor(k, tip), TRUE)>>)

(* A file gets a new content: what a power loss may leave of its directory
   grows by one. *)
Write(w, content) ==
  IF w.dir = "keys"
    THEN /\ keyDir' = Append(keyDir, [KeyNow EXCEPT ![w.path] = content])
         /\ UNCHANGED anchorDir
    ELSE /\ LET used == IF w.step = "refresh" THEN InUse \ {AnchorNow[Current]} ELSE InUse
            IN anchorDir' = Append(anchorDir,
                 [files |-> [AnchorNow EXCEPT ![w.path] = content],
                  used |-> IF w.path = Current /\ content \in Anchors
                             THEN used \cup {content} ELSE used])
         /\ UNCHANGED keyDir

Wrote(w) == todo' = IF w.synced THEN <<[w EXCEPT !.step = "sync"]>> \o Tail(todo) ELSE Tail(todo)
Create ==
  /\ todo # <<>> /\ todo[1].step = "create"
  /\ Write(todo[1], Torn)
  /\ todo' = <<[todo[1] EXCEPT !.step = "fill"]>> \o Tail(todo)
  /\ UNCHANGED <<tip, ops, crashes>>
Fill ==
  /\ todo # <<>> /\ todo[1].step = "fill"
  /\ Write(todo[1], todo[1].what)
  /\ Wrote(todo[1])
  /\ UNCHANGED <<tip, ops, crashes>>
(* An error removes the file and ends the operation. *)
FillFails ==
  /\ todo # <<>> /\ todo[1].step = "fill"
  /\ Write(todo[1], Absent)
  /\ todo' = <<>> /\ UNCHANGED <<tip, ops, crashes>>
(* A replacement is written and synced beside the file, then renamed. *)
Replace ==
  /\ todo # <<>> /\ todo[1].step \in {"replace", "refresh"}
  /\ Write(todo[1], todo[1].what)
  /\ Wrote(todo[1])
  /\ UNCHANGED <<tip, ops, crashes>>
Sync ==
  /\ todo # <<>> /\ todo[1].step = "sync"
  /\ IF todo[1].dir = "keys"
       THEN keyDir' = <<KeyNow>> /\ UNCHANGED anchorDir
       ELSE anchorDir' = <<anchorDir[Len(anchorDir)]>> /\ UNCHANGED keyDir
  /\ todo' = Tail(todo) /\ UNCHANGED <<tip, ops, crashes>>

(* The operation is killed, or a step of it fails. *)
StopWriting == todo # <<>> /\ todo' = <<>> /\ UNCHANGED <<tip, keyDir, anchorDir, ops, crashes>>
(* In time the system writes back what was not synced. *)
WriteBack ==
  /\ todo = <<>> /\ Len(keyDir) + Len(anchorDir) > 2
  /\ keyDir' = <<KeyNow>> /\ anchorDir' = <<anchorDir[Len(anchorDir)]>>
  /\ UNCHANGED <<tip, todo, ops, crashes>>
LoseFiles ==
  /\ crashes < MaxCrashes /\ crashes' = crashes + 1
  /\ \E i \in DOMAIN keyDir : keyDir' = <<keyDir[i]>>
  /\ \E i \in DOMAIN anchorDir : anchorDir' = <<anchorDir[i]>>
  /\ todo' = <<>> /\ UNCHANGED <<tip, ops>>
Grow == tip < MaxHead /\ tip' = tip + 1 /\ UNCHANGED <<keyDir, anchorDir, todo, ops, crashes>>

TrustFilesNext ==
  \/ \E k \in SigningKeys :
       \/ \E gui \in BOOLEAN : GenerateKey(k, gui)
       \/ ExportAnchor(k) \/ RefreshAnchor(k) \/ RefreshInGui(k) \/ RotateKey(k)
  \/ Create \/ Fill \/ FillFails \/ Replace \/ Sync
  \/ StopWriting \/ WriteBack \/ LoseFiles \/ Grow
TrustFilesSpec == TrustInit /\ [][TrustFilesNext]_trustVars

(* Whatever is killed and whenever the power fails, an anchor that was in use
   stays whole at its place or at the place of its copy, so the history it
   authenticates can still be checked; and a rotation never installs an anchor
   whose key may be gone. *)
AnchorsRetained ==
  /\ \A a \in InUse : \E p \in AnchorPaths : AnchorNow[p] = a
  /\ \A k \in SigningKeys :
       AnchorNow[Current] \in Anchors /\ AnchorNow[Current].key = k /\ AnchorNow[Recovery(k)] # Absent
         => KeyNow[k] = KeyFile(k)
=============================================================================
