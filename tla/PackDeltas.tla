----------------------------- MODULE PackDeltas -----------------------------
(***************************************************************************)
(* What is inside a pack (prepare_pack_entries, reconstruct_pack_object    *)
(* and verify_pack_files of the store): objects whole or as deltas on an   *)
(* object before them, written from loose objects, rewritten by a repack   *)
(* and again without the objects of a purge.  An object is its number in   *)
(* Contents; a payload is not compressed, so what a delta saves is open.   *)
(***************************************************************************)
EXTENDS Integers, Sequences, FiniteSets, FiniteSetsExt

CONSTANTS Contents, MaxDeltaDepth, CandidateWindow, FullEntryInterval, SizeRatio,
          Affinities, MaxPacks
ASSUME PackAssumption ==
  /\ MaxDeltaDepth \in Nat /\ CandidateWindow \in Nat /\ SizeRatio \in Nat
  /\ FullEntryInterval \in Nat \ {0} /\ Affinities \subseteq Nat /\ MaxPacks \in Nat
  /\ Contents \in Seq(Seq(0..255)) /\ \A i, j \in DOMAIN Contents : Contents[i] = Contents[j] => i = j

Objects == DOMAIN Contents
Whole == 0 \* the base of an entry that has none

VARIABLES
  retained,  \* the objects the pack must hold: those packed, less those purged
  sources,   \* what is being packed, in the order of PackSource::sort_key
  entries,   \* the entries prepared so far
  pack,      \* the entries of the pack in use, at their offsets
  generation \* how many packs were activated, up to MaxPacks
packVars == <<retained, sources, entries, pack, generation>>

(* Bytes that base and target share at either end, never counted twice. *)
CreateDelta(base, target) ==
  LET shorter == Min({Len(base), Len(target)})
      prefix == Max({k \in 0..shorter : SubSeq(base, 1, k) = SubSeq(target, 1, k)})
      suffix == Max({k \in 0..(shorter - prefix) :
                       /\ SubSeq(base, Len(base) - k + 1, Len(base))
                            = SubSeq(target, Len(target) - k + 1, Len(target))})
  IN [prefix |-> prefix, suffix |-> suffix,
      middle |-> SubSeq(target, prefix + 1, Len(target) - suffix)]
(* A result is the set of the bytes read: empty where reading fails. *)
ApplyDelta(base, delta, expected) ==
  LET output == SubSeq(base, 1, delta.prefix) \o delta.middle
                  \o SubSeq(base, Len(base) - delta.suffix + 1, Len(base))
  IN IF delta.prefix + delta.suffix <= Len(base) /\ Len(output) = expected
     THEN {output} ELSE {}

SimilarSizes(left, right) == Max({left, right}) <= SizeRatio * Min({left, right})
StartsAffinityGroup(i) == i = 1 \/ sources[i - 1].affinity # sources[i].affinity
(* Mutant: a base may already be as deep as a delta may be. *)
MayBeDeepBase(c, i) ==
  /\ sources[c].affinity = sources[i].affinity
  /\ entries[c].depth <= MaxDeltaDepth
  /\ SimilarSizes(Len(Contents[sources[c].id]), Len(Contents[sources[i].id]))
MayBeBase(c, i) ==
  /\ sources[c].affinity = sources[i].affinity
  /\ entries[c].depth < MaxDeltaDepth
  /\ SimilarSizes(Len(Contents[sources[c].id]), Len(Contents[sources[i].id]))
(* The places of the objects the i-th may be a delta on. *)
Candidates(i) ==
  IF StartsAffinityGroup(i) \/ (i - 1) % FullEntryInterval = 0 THEN {}
  ELSE {c \in Max({1, i - CandidateWindow})..(i - 1) : MayBeBase(c, i)}

WholeEntry(id) == [id |-> id, base |-> Whole, depth |-> 0, payload |-> Contents[id]]
DeltaEntry(id, b) ==
  [id |-> id, base |-> b.id, depth |-> b.depth + 1,
   payload |-> CreateDelta(Contents[b.id], Contents[id])]

WellFormed(entry) == IF entry.base = Whole THEN entry.depth = 0 ELSE entry.depth \in 1..MaxDeltaDepth
PlaceOf(p, id) == {i \in DOMAIN p : p[i].id = id}
(* reconstruct_pack_object: the object at place i, its base first. *)
Rebuilt(p, budget, i) ==
  LET Read[left \in 0..(budget + 1)] ==
        LET below == Read[left - 1]
            Result(k) ==
              IF p[k].base = Whole THEN {p[k].payload}
              ELSE UNION {UNION {ApplyDelta(b, p[k].payload, Len(Contents[p[k].id])) : b \in below[c]} :
                     c \in {c \in PlaceOf(p, p[k].base) : c < k /\ p[k].depth = p[c].depth + 1}}
        IN [k \in DOMAIN p |->
              IF left > 0 /\ WellFormed(p[k]) /\ Result(k) = {Contents[p[k].id]} THEN Result(k) ELSE {}]
  IN Read[budget + 1][i]
(* read_pack_location starts with an empty cache: the bases of an object are
   read one inside the other, MaxDeltaDepth deep at most. *)
ReadsAlone(p, id) == \E i \in PlaceOf(p, id) : Rebuilt(p, MaxDeltaDepth, i) = {Contents[id]}
(* verify_pack_files goes through a pack by offset with one cache, so that only
   the depths entries state bound their bases. *)
Verified(p) == Len(p) > 0 /\ \A i \in DOMAIN p : Rebuilt(p, Len(p), i) # {}

PackInit ==
  /\ retained = Objects /\ sources = <<>> /\ entries = <<>> /\ pack = <<>> /\ generation = 0

SizeClass(n) == CHOOSE k \in 0..n : 2^k <= Max({n, 1}) /\ Max({n, 1}) < 2^(k + 1)
(* sort_by_key: objects of one affinity (kind and page) are together, in size
   classes; the order within a class, and the page of an object that several
   pages refer to, may differ each time. *)
InOrder(left, right) ==
  \/ left.affinity < right.affinity
  \/ /\ left.affinity = right.affinity
     /\ SizeClass(Len(Contents[left.id])) <= SizeClass(Len(Contents[right.id]))
SourcesOf(ids) ==
  {s \in [1..Cardinality(ids) -> [id : ids, affinity : Affinities]] :
     /\ {s[i].id : i \in DOMAIN s} = ids
     /\ \A i \in 2..Len(s) : InOrder(s[i - 1], s[i])}
Gather ==
  /\ sources = <<>> /\ generation < MaxPacks
  /\ sources' \in SourcesOf(retained)
  /\ entries' = <<>>
  /\ UNCHANGED <<retained, pack, generation>>
(* One source: whole, or a delta on the candidate that compresses best. *)
PrepareEntry ==
  LET i == Len(entries) + 1 IN
  /\ sources # <<>> /\ i <= Len(sources)
  /\ \/ entries' = Append(entries, WholeEntry(sources[i].id))
     \/ \E c \in Candidates(i) : entries' = Append(entries, DeltaEntry(sources[i].id, entries[c]))
  /\ UNCHANGED <<retained, sources, pack, generation>>
Prepared == sources # <<>> /\ Len(entries) = Len(sources)
Activate ==
  /\ Prepared /\ Verified(entries)
  /\ pack' = entries /\ generation' = generation + 1
  /\ sources' = <<>> /\ entries' = <<>>
  /\ UNCHANGED retained
(* A purge takes some of a pack's objects; others that were deltas on them stay. *)
Select ==
  /\ pack # <<>> /\ sources = <<>>
  /\ \E gone \in SUBSET retained \ {{}, retained} : retained' = retained \ gone
  /\ UNCHANGED <<sources, entries, pack, generation>>

PackNext == Gather \/ PrepareEntry \/ Activate \/ Select
PackSpec == PackInit /\ [][PackNext]_packVars

PackTypeOK ==
  /\ retained \subseteq Objects /\ generation \in 0..MaxPacks
  /\ Len(entries) <= Len(sources)
  /\ \A i \in DOMAIN entries : entries[i].id = sources[i].id

(* What is prepared is accepted by the verifier, and then every object of it
   reads back alone and without help of a cache, whatever was packed together,
   rewritten or left behind by a purge. *)
PacksReadBack ==
  /\ Prepared => Verified(entries)
  /\ \A id \in (IF pack = <<>> THEN {} ELSE retained) : ReadsAlone(pack, id)
=============================================================================
