------------------------- MODULE MCCollectionEdits -------------------------
(* One collection of at most two pages, edited in the desktop application. *)
EXTENDS CollectionEdits
=============================================================================
