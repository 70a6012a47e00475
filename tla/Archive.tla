------------------------------- MODULE Archive -------------------------------
(***************************************************************************)
(* What the object store promises, without files, rows or packs: an object *)
(* that was captured stays readable until a purge authorizes its absence,  *)
(* and a missing object is always an explained one.  ADR 0002 gives the    *)
(* first half (physical location is not identity, a representation stays   *)
(* valid until its successor is durable), the destructive-purge contract   *)
(* the second.                                                             *)
(***************************************************************************)
CONSTANT Object

VARIABLES held,    \* objects that can be read back
          absent   \* objects whose absence an authorized purge explains

vars == <<held, absent>>

Init ==
  /\ held = {}
  /\ absent = {}

\* Capture, or capture again after a purge.
Capture(o) ==
  /\ held' = held \cup {o}
  /\ absent' = absent \ {o}

\* One purge makes its whole inventory absent at once, and nothing else.
AuthorizeAbsence(S) ==
  /\ S \subseteq held
  /\ held' = held \ S
  /\ absent' = absent \cup S

Next ==
  \/ \E o \in Object : Capture(o)
  \/ \E S \in SUBSET Object : AuthorizeAbsence(S)

Spec == Init /\ [][Next]_vars
=============================================================================
