------------------------------ MODULE Grouping ------------------------------
(***************************************************************************)
(* How the library is cut into clusters (internal/group): photos of a      *)
(* device are split where the clock leaves a gap, each piece is split by   *)
(* likeness, and with cross-device merging the clocks of the cameras are   *)
(* aligned first.                                                          *)
(*                                                                         *)
(* An album a is what the rows say of the photos: a.device, a.taken (None  *)
(* is SQL NULL) and a.like, the cosine of the embeddings of a pair, in a   *)
(* few levels.  cfg holds the three clustering settings.  The order of a   *)
(* device key among numbers is the order of the strings; Unknown is the    *)
(* key "Unknown", Merged the key "*merged*".                               *)
(***************************************************************************)
EXTENDS Integers, FiniteSets, Sequences, SequencesExt

CONSTANTS
  NumPhotos,         \* row ids
  Devices,           \* keys that the metadata stage writes
  Unknown, Merged,
  MaxSkewSec,        \* maxSkewSec
  AnchorSimilarity,  \* anchorSimilarity
  MinAnchors,        \* minAnchors
  None

Photo == 1 .. NumPhotos

ASSUME GroupingAssumption ==
  /\ NumPhotos \in Nat
  /\ Devices \subseteq Int /\ IsFiniteSet(Devices) /\ Devices # {}
  /\ Unknown \in Int /\ Merged \in Int \ Devices /\ Merged # Unknown
  /\ MaxSkewSec \in Nat /\ AnchorSimilarity \in Nat /\ MinAnchors \in Nat \ {0}
  /\ None \notin Int

Albums ==
  [device : [Photo -> Devices \cup {None}], taken : [Photo -> Int \cup {None}],
   like : [{p \in Photo \X Photo : p[1] < p[2]} -> Int]]

cosine(a, f, g) == a.like[IF f < g THEN <<f, g>> ELSE <<g, f>>]

DeviceOf(a, f) == IF a.device[f] = None THEN Unknown ELSE a.device[f]

\* The elements of S in the order R: each stands behind as many as come before it.
Sorted(S, R) ==
  [i \in 1 .. Cardinality(S) |-> CHOOSE x \in S : Cardinality({y \in S : <<y, x>> \in R}) = i - 1]

\* The sequences F[x], one after the other in the order of the numbers x.
Concat(F) == FoldLeft(LAMBDA acc, seq : acc \o seq, <<>>, F)

\* NULL times last, ties by id.
earlier(S, time) ==
  {p \in S \X S :
     LET s == time[p[1]]
         t == time[p[2]]
     IN  \/ s # None /\ t = None
         \/ s # None /\ t # None /\ (s < t \/ (s = t /\ p[1] < p[2]))
         \/ s = None /\ t = None /\ p[1] < p[2]}

sortRunFiles(S, time) == Sorted(S, earlier(S, time))

-----------------------------------------------------------------------------
(* Cluster and clusterIDs: single-link clustering of one bucket            *)

\* union; the parent links and their compression stand for a partition.
union(groups, f, g) ==
  LET hit == {G \in groups : f \in G \/ g \in G}
  IN  (groups \ hit) \cup {UNION hit}

Cluster(a, ids, threshold) ==
  FoldSet(LAMBDA p, groups :
            IF p[1] < p[2] /\ cosine(a, p[1], p[2]) > threshold
            THEN union(groups, p[1], p[2]) ELSE groups,
          {{f} : f \in ids}, ids \X ids)

\* Photos of a bucket without an embedding stay together.
clusterIDs(a, ids, embeds, threshold) ==
  LET noEmb == ids \ embeds
      groups == Cluster(a, ids \cap embeds, threshold) \cup ({noEmb} \ {{}})
  IN  Sorted(groups, {p \in groups \X groups : Min(p[1]) < Min(p[2])})

-----------------------------------------------------------------------------
(* The gap walk                                                            *)

\* Mutant of gapWalk: the gap is measured from the first photo of the bucket.
gapWalkFromStart(S, time, bucketSec) ==
  FoldLeft(LAMBDA buckets, f :
             IF buckets = <<>> \/ time[f] = None \/ time[Last(Last(buckets))] = None
                \/ time[f] - time[Head(Last(buckets))] > bucketSec
             THEN Append(buckets, <<f>>)
             ELSE [buckets EXCEPT ![Len(buckets)] = Append(@, f)],
           <<>>, sortRunFiles(S, time))

\* A bucket ends where the gap to the photo before exceeds bucketSec; a photo
\* without a time is a bucket of its own.
gapWalk(S, time, bucketSec) ==
  FoldLeft(LAMBDA buckets, f :
             IF buckets = <<>> \/ time[f] = None \/ time[Last(Last(buckets))] = None
                \/ time[f] - time[Last(Last(buckets))] > bucketSec
             THEN Append(buckets, <<f>>)
             ELSE [buckets EXCEPT ![Len(buckets)] = Append(@, f)],
           <<>>, sortRunFiles(S, time))

-----------------------------------------------------------------------------
(* EstimateSkew                                                            *)

\* Mutant of medianInt64: the list is not sorted.
middle(xs) == xs[Len(xs) \div 2 + 1]

\* Division truncates toward zero.
medianInt64(xs) ==
  LET n == Len(xs)
      order == Sorted(1 .. n, earlier(1 .. n, xs))
      sum == xs[order[n \div 2]] + xs[order[n \div 2 + 1]]
  IN  IF n % 2 = 1 THEN xs[order[n \div 2 + 1]]
      ELSE IF sum >= 0 THEN sum \div 2 ELSE -((-sum) \div 2)

\* ref and other are in the order of time; lo never moves back.
pairDeltas(a, ref, other) ==
  LET walk(acc, r) ==
        LET lo == Min({j \in acc.lo .. Len(other) + 1 :
                         j = Len(other) + 1 \/ a.taken[other[j]] >= a.taken[r] - MaxSkewSec})
            delta(o) == IF /\ a.taken[o] <= a.taken[r] + MaxSkewSec
                           /\ cosine(a, r, o) >= AnchorSimilarity
                        THEN <<a.taken[o] - a.taken[r]>> ELSE <<>>
        IN  [lo |-> lo, deltas |-> acc.deltas \o Concat([j \in lo .. Len(other) |-> delta(other[j])])]
  IN  FoldLeft(walk, [lo |-> 1, deltas |-> <<>>], ref).deltas

\* Photos that take part: a device key, a time and an embedding.
Usable(a, files, embeds, d) ==
  {f \in files \cap embeds : a.device[f] = d /\ a.taken[f] # None}

\* The device with most of them; the first in alphabetical order among equals.
Reference(a, files, embeds) ==
  CHOOSE d \in Devices : \A e \in Devices :
    LET n(x) == Cardinality(Usable(a, files, embeds, x))
    IN  n(d) > n(e) \/ (n(d) = n(e) /\ d <= e)

EstimateSkew(a, files, embeds) ==
  LET byDevice(d) == sortRunFiles(Usable(a, files, embeds, d), a.taken)
      ref == Reference(a, files, embeds)
      devs == {d \in Devices : Usable(a, files, embeds, d) # {}}
  IN  [d \in Devices \cup {Unknown} |->
         IF d \notin devs \/ d = ref THEN 0
         ELSE LET deltas == pairDeltas(a, byDevice(ref), byDevice(d))
              IN  IF Len(deltas) < MinAnchors THEN 0 ELSE medianInt64(deltas)]

-----------------------------------------------------------------------------
(* RebuildAll: the list of ClusterDefs handed to WriteClusters             *)

ClusterDef(device, bucket, members) == [device |-> device, bucket |-> bucket, members |-> members]

\* The code takes devices in the order in which they first appear; only ids
\* depend on it.
devices(a, files) == {DeviceOf(a, f) : f \in files}

rebuildAllPerDevice(a, files, embeds, cfg) ==
  LET emit(d, bucket) ==
        LET groups == clusterIDs(a, ToSet(bucket), embeds, cfg.threshold)
        IN  [i \in DOMAIN groups |-> ClusterDef(d, a.taken[Head(bucket)], groups[i])]
      timeline(d) ==
        LET buckets == gapWalk({f \in files : DeviceOf(a, f) = d}, a.taken, cfg.bucket)
        IN  Concat([i \in DOMAIN buckets |-> emit(d, buckets[i])])
  IN  Concat([d \in devices(a, files) |-> timeline(d)])

\* The aligned clocks of the photos that may be merged.
canonical(a, files, embeds) ==
  LET skew == EstimateSkew(a, files, embeds)
  IN  [f \in Photo |-> IF f \in files \cap embeds /\ a.taken[f] # None
                       THEN a.taken[f] - skew[DeviceOf(a, f)] ELSE None]

rebuildAllCrossDevice(a, files, embeds, cfg) ==
  LET clock == canonical(a, files, embeds)
      key(G) == IF Cardinality({DeviceOf(a, f) : f \in G}) = 1
                THEN DeviceOf(a, CHOOSE f \in G : TRUE) ELSE Merged
      emit(bucket) ==
        LET groups == clusterIDs(a, ToSet(bucket), embeds, cfg.threshold)
        IN  [i \in DOMAIN groups |-> ClusterDef(key(groups[i]), clock[Head(bucket)], groups[i])]
      merged ==
        LET buckets == gapWalk({f \in files \cap embeds : a.taken[f] # None}, clock, cfg.bucket)
        IN  Concat([i \in DOMAIN buckets |-> emit(buckets[i])])
      noEmb(d) ==
        LET buckets == gapWalk({f \in files \ embeds : DeviceOf(a, f) = d /\ a.taken[f] # None},
                               a.taken, cfg.bucket)
        IN  [i \in DOMAIN buckets |->
               ClusterDef(d, a.taken[Head(buckets[i])], ToSet(buckets[i]))]
      noTime(d) ==
        Concat([f \in {f \in files : DeviceOf(a, f) = d /\ a.taken[f] = None} |->
                  <<ClusterDef(d, None, {f})>>])
  IN  merged \o Concat([d \in devices(a, files) |-> noEmb(d)])
             \o Concat([d \in devices(a, files) |-> noTime(d)])

RebuildAll(a, files, embeds, cfg) ==
  IF cfg.cross /\ embeds # {} THEN rebuildAllCrossDevice(a, files, embeds, cfg)
  ELSE rebuildAllPerDevice(a, files, embeds, cfg)
=============================================================================
