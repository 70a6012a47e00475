----------------------------- MODULE Thumbnails -----------------------------
(* What bytes pass as a thumbnail (wikisync-content, thumbnail.rs).  A file is
   the sequence of its parts: the chunks of a PNG after its signature, or the
   segments of a JPEG after its first marker, "coded" standing for the
   entropy-coded bytes of a scan with their stuffing and restart markers, and
   "cut" for a part that runs past the end of the file.  What the decoder of a
   file that passed the inspection says is part of the file. *)
EXTENDS Naturals, Sequences, SequencesExt

PngPart == {"header", "animation", "data", "end", "cut"}
JpegPart == {"segment", "frame", "scan", "coded", "reserved", "end", "cut"}

(* One chunk more: a header comes first and once; nothing follows the end. *)
PngStep(found, chunk) ==
  [at |-> found.at + 1,
   size |-> found.size \/ chunk = "header",
   verdict |->
     IF \/ found.verdict # "reading" \/ chunk \in {"cut", "animation"}
        \/ chunk = "header" /\ found.at # 0
        \/ chunk = "end" /\ ~found.size
     THEN "malformed" ELSE IF chunk = "end" THEN "whole" ELSE "reading"]
InspectPng(parts) == FoldLeft(PngStep, [at |-> 0, size |-> FALSE, verdict |-> "reading"], parts).verdict = "whole"

(* One segment more: one frame, at least one scan, coded bytes in scans only. *)
JpegStep(found, segment) ==
  [size |-> found.size \/ segment = "frame",
   scanned |-> found.scanned \/ segment = "scan",
   coding |-> segment \in {"scan", "coded"},
   verdict |->
     IF \/ found.verdict # "reading" \/ segment \in {"cut", "reserved"}
        \/ segment = "frame" /\ found.size
        \/ segment = "coded" /\ ~found.coding
        \/ segment = "end" /\ ~(found.scanned /\ found.size)
     THEN "malformed" ELSE IF segment = "end" THEN "whole" ELSE "reading"]
InspectJpeg(parts) ==
  FoldLeft(JpegStep, [size |-> FALSE, scanned |-> FALSE, coding |-> FALSE, verdict |-> "reading"], parts).verdict
    = "whole"

(* A file is accepted as the kind that was declared, not larger than an edge,
   when it decodes into the size it was inspected to have. *)
WithinEdge(file, edge) == file.edge \in 1 .. edge
Decodes(file) == file.decodes
SignatureMatches(file, declared) == file.kind = declared
ValidThumbnail(file, declared, edge) ==
  /\ SignatureMatches(file, declared)
  /\ IF declared = "png" THEN InspectPng(file.parts) ELSE InspectJpeg(file.parts)
  /\ WithinEdge(file, edge) /\ Decodes(file)

(* What the inspection is to accept: one image, whole, that does not move, and
   nothing beside it. *)
Once(parts, part) == \E i \in DOMAIN parts : \A j \in DOMAIN parts : parts[j] = part <=> j = i
OneStillImage(kind, parts) ==
  /\ parts # <<>> /\ parts[Len(parts)] = "end" /\ Once(parts, "end")
  /\ IF kind = "png"
     THEN parts[1] = "header" /\ \A i \in 2 .. Len(parts) - 1 : parts[i] = "data"
     ELSE /\ Once(parts, "frame") /\ \E i \in DOMAIN parts : parts[i] = "scan"
          /\ \A i \in DOMAIN parts :
               /\ parts[i] \notin {"cut", "reserved"}
               /\ parts[i] = "coded" => i > 1 /\ parts[i - 1] \in {"scan", "coded"}
=============================================================================
