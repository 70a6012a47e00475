----------------------------- MODULE MCLibrary -----------------------------
(* The operations on a library that share no state, each explored on its own:
   a purge from selection to its report and the audit of every state of it, a
   dump import, a whole edition, what these fetch through (the client and the
   cache of dumps), the files of the manifest chain, and the keys and anchors
   beside the library. *)
EXTENDS Audit, DumpImport, WholeEdition, SourceClient, DumpCache, TrustFiles, ManifestFiles

TwoParts == <<1, 2>>
OneArticle == <<"a">>
TwoArticles == <<"a", "b">>
ContentOf == [page \in Pages |-> IF page = "p" THEN "x" ELSE "y"]
TwoEditions == <<2, 1>>

(* Two revisions of two pages, and a collection that starts with the first. *)
PagesOfRevisions == <<1, 2>>
FirstPage == <<{1}>>

VARIABLE part
LibraryInit ==
  /\ part \in {"purge", "dump", "edition", "client", "cache", "trust", "manifests"}
  /\ LifeInit /\ DumpInit /\ EditionInit /\ ClientInit /\ CacheInit /\ TrustInit /\ ManifestInit
LibraryNext ==
  /\ UNCHANGED part
  /\ \/ part = "purge" /\ LifeNext /\ UNCHANGED <<dumpVars, editionVars, clientVars, cacheVars, trustVars, manifestVars>>
     \/ part = "dump" /\ DumpNext /\ UNCHANGED <<lifeVars, editionVars, clientVars, cacheVars, trustVars, manifestVars>>
     \/ part = "edition" /\ EditionNext /\ UNCHANGED <<lifeVars, dumpVars, clientVars, cacheVars, trustVars, manifestVars>>
     \/ part = "client" /\ ClientNext /\ UNCHANGED <<lifeVars, dumpVars, editionVars, cacheVars, trustVars, manifestVars>>
     \/ part = "cache" /\ CacheNext /\ UNCHANGED <<lifeVars, dumpVars, editionVars, clientVars, trustVars, manifestVars>>
     \/ part = "trust" /\ TrustFilesNext /\ UNCHANGED <<lifeVars, dumpVars, editionVars, clientVars, cacheVars, manifestVars>>
     \/ part = "manifests" /\ ManifestNext
        /\ UNCHANGED <<lifeVars, dumpVars, editionVars, clientVars, cacheVars, trustVars>>
LibrarySpec ==
  LibraryInit /\ [][LibraryNext]_<<part, lifeVars, dumpVars, editionVars, clientVars, cacheVars, trustVars, manifestVars>>

(* The state of each part has its type. *)
LibraryTypeOK ==
  /\ LifeTypeOK /\ DumpTypeOK /\ EditionTypeOK /\ ClientTypeOK /\ CacheTypeOK /\ TrustTypeOK
  /\ ManifestTypeOK
=============================================================================
