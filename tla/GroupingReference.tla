------------------------- MODULE GroupingReference --------------------------
(***************************************************************************)
(* What the grouping of module Grouping promises, without its algorithms:  *)
(* no sorting, no walk, no union-find.                                     *)
(***************************************************************************)
EXTENDS Grouping

\* x and y cannot be separated: every way to divide S between them cuts a link.
Connected(S, Link(_, _), x, y) ==
  \A T \in SUBSET S : x \in T /\ y \notin T => \E u \in T, v \in S \ T : Link(u, v)

\* The clocks are aligned, and an embedding is what lets cameras be merged.
Merging(embeds, cfg) == cfg.cross /\ embeds # {}

Clock(a, files, embeds, cfg, f) ==
  IF a.taken[f] = None THEN None
  ELSE IF Merging(embeds, cfg) /\ f \in embeds
       THEN a.taken[f] - EstimateSkew(a, files, embeds)[DeviceOf(a, f)]
       ELSE a.taken[f]

\* Photos that are compared by time at all.
Comparable(a, embeds, cfg, f, g) ==
  /\ a.taken[f] # None /\ a.taken[g] # None
  /\ IF Merging(embeds, cfg)
     THEN \/ f \in embeds /\ g \in embeds
          \/ f \notin embeds /\ g \notin embeds /\ DeviceOf(a, f) = DeviceOf(a, g)
     ELSE DeviceOf(a, f) = DeviceOf(a, g)

\* The photos reachable from f in steps of at most the bucket size.
Burst(a, files, embeds, cfg, f) ==
  LET clock == [g \in files |-> Clock(a, files, embeds, cfg, g)]
      near(g, h) == clock[g] - clock[h] \in -cfg.bucket .. cfg.bucket
      lane == {g \in files : Comparable(a, embeds, cfg, f, g)}
  IN  {f} \cup {g \in lane : Connected(lane, near, f, g)}

\* The photos of the burst that look like f, step by step.
SceneOf(a, files, embeds, cfg, f) ==
  LET burst == Burst(a, files, embeds, cfg, f)
      alike(g, h) == IF g \in embeds /\ h \in embeds
                     THEN g # h /\ cosine(a, g, h) > cfg.threshold
                     ELSE g \notin embeds /\ h \notin embeds
  IN  {f} \cup {g \in burst : Connected(burst, alike, f, g)}

\* The clusters are the scenes, each once, under the time its burst begins and
\* under the device of its photos, or the merged key when they have several.
GroupsAreScenes(groups, a, files, embeds, cfg) ==
  /\ {groups[i].members : i \in DOMAIN groups} = {SceneOf(a, files, embeds, cfg, f) : f \in files}
  /\ \A i \in DOMAIN groups :
       LET G == groups[i].members
           burst == Burst(a, files, embeds, cfg, CHOOSE f \in G : TRUE)
           starts == {Clock(a, files, embeds, cfg, f) : f \in burst}
           keys == {DeviceOf(a, f) : f \in G}
       IN  /\ \A j \in DOMAIN groups : groups[j].members = G => i = j
           /\ groups[i].bucket = IF starts = {None} THEN None ELSE Min(starts)
           /\ groups[i].device = IF Cardinality(keys) = 1 THEN CHOOSE d \in keys : TRUE ELSE Merged

Offset(a, p) == a.taken[p[2]] - a.taken[p[1]]

\* The anchors between the reference device and d.
Anchors(a, files, embeds, d) ==
  {p \in Usable(a, files, embeds, Reference(a, files, embeds)) \X Usable(a, files, embeds, d) :
     cosine(a, p[1], p[2]) >= AnchorSimilarity /\ Offset(a, p) \in -MaxSkewSec .. MaxSkewSec}

\* An offset most anchors agree on is the one that is used, whatever the others
\* say; the skew never leaves the range of the anchors; too few of them change
\* nothing, and the reference device keeps its clock.
SkewIsFair(a, files, embeds) ==
  LET skew == EstimateSkew(a, files, embeds)
      ref == Reference(a, files, embeds)
  IN  /\ skew[ref] = 0
      /\ \A d \in Devices \ {ref} :
           LET anchors == Anchors(a, files, embeds, d)
               offsets == {Offset(a, p) : p \in anchors}
               votes(x) == Cardinality({p \in anchors : Offset(a, p) = x})
           IN  IF Cardinality(anchors) < MinAnchors THEN skew[d] = 0
               ELSE /\ \A x \in offsets : 2 * votes(x) > Cardinality(anchors) => skew[d] = x
                    /\ skew[d] \in Min(offsets) .. Max(offsets)
=============================================================================
