-------------------------- MODULE SelectionProofs --------------------------
(* Theorems about the selection of barrier points: its variables stay in    *)
(* their domains, the combined vectors can be taken apart, the alternatives *)
(* are what they are meant to be, the files are of one execution, and the   *)
(* multipliers rebuild the instructions of the whole from the selected      *)
(* phases.                                                                  *)
EXTENDS Selection, NumberFacts, SequenceTheorems

----------------------------------------------------------------------------
(* The stages up to the combined vectors.                                  *)

\* Nothing has been combined, or all of it has, from the regions.
NoVectors == ins_per_phase = <<>> /\ BP = <<>>
BlocksOf(line, shift) ==
  {<<b + shift, line.bbv[b], 1>> : b \in DOMAIN line.bbv}
Vectors ==
  LET lines == SkipFirst
  IN  /\ ins_per_phase = [i \in DOMAIN lines |-> lines[i].ins]
      /\ BP = [i \in DOMAIN lines |->
                 Weighted(lines[i]) \cup BlocksOf(lines[i], Bbmax(lines))]

\* What is known of the stages, the regions and the vectors.
Stages == Kinds \cup {"vectors", "combine", "cluster", "select",
                      "finished", "error", "raised"}
VectorInv ==
  /\ \E n \in 1..MaxRegions : regions \in [0..(n - 1) -> Profiles]
  /\ vectors \in BOOLEAN
  /\ pc \in Stages
  /\ pc \in {"vectors", "combine"} => NoVectors
  /\ NoVectors \/ Vectors

LEMMA VectorInit == Init => VectorInv
BY DEF Init, VectorInv, Stages, NoVectors

\* Only CreateVectors and Combine touch the vectors.
LEMMA VectorStep == VectorInv /\ [Next]_vars => VectorInv'
<1> SUFFICES ASSUME VectorInv, [Next]_vars PROVE VectorInv'
  OBVIOUS
<1>1. CASE CreateVectors
  BY <1>1 DEF CreateVectors, VectorInv, Stages, Then, combined, clustered,
              NoVectors
<1>2. CASE Combine
  <2>1. regions' = regions /\ vectors' = vectors /\ pc' = "cluster"
    BY <1>2 DEF Combine, Then
  <2>2. SkipFirst' = SkipFirst
    BY <2>1 DEF SkipFirst
  <2>3. Vectors'
    BY <1>2, <2>2 DEF Combine, Vectors, BlocksOf
  <2> QED
    BY <2>1, <2>3 DEF VectorInv, Stages
<1>3. ASSUME /\ regions' = regions /\ vectors' = vectors
             /\ ins_per_phase' = ins_per_phase /\ BP' = BP
             /\ \/ pc' = pc
                \/ pc' \in Stages \ {"vectors", "combine"}
      PROVE  VectorInv'
  <2>1. SkipFirst' = SkipFirst
    BY <1>3 DEF SkipFirst
  <2>2. NoVectors' = NoVectors /\ Vectors' = Vectors
    BY <1>3, <2>1 DEF NoVectors, Vectors
  <2> QED
    BY <1>3, <2>2 DEF VectorInv
<1>4. ASSUME NEW s \in Kinds, WriteSelected(s) \/ WriteFails(s)
      PROVE  VectorInv'
  BY <1>3, <1>4 DEF WriteSelected, WriteFails, Then, After, combined,
                    Stages, Kinds
<1>5. CASE Fails("vectors") \/ Fails("combine")
  BY <1>3, <1>5 DEF Fails, Then, combined, Stages
<1>6. CASE Cluster
  BY <1>3, <1>6 DEF Cluster, Then, combined, Stages
<1>7. CASE ClusterRaises
  BY <1>3, <1>7 DEF ClusterRaises, Then, combined, Stages
<1>8. CASE Select
  BY <1>3, <1>8 DEF Select, combined, Stages, Kinds
<1>9. CASE UNCHANGED vars
  BY <1>3, <1>9 DEF vars, combined
<1> QED
  BY <1>1, <1>2, <1>4, <1>5, <1>6, <1>7, <1>8, <1>9 DEF Next, Ended

\* The lines are numbered from 0, and have the instructions of the regions
\* after the first.
LinesAre(m) ==
  /\ m \in Nat /\ Lines = 0..(m - 1) /\ IsFiniteSet(Lines)
  /\ ins_per_phase \in [Lines -> Nat]
  /\ Lines # {} => /\ DOMAIN regions = 0..m
                   /\ Cardinality(DOMAIN regions) = m + 1
                   /\ \A i \in Lines : /\ i + 1 \in DOMAIN regions
                                       /\ regions[i + 1] \in Profiles
                                       /\ ins_per_phase[i] = regions[i + 1].ins

LEMMA LinesKnown ==
  ASSUME VectorInv
  PROVE  \E m : LinesAre(m)
<1>1. PICK n \in 1..MaxRegions : regions \in [0..(n - 1) -> Profiles]
  BY DEF VectorInv
<1>2. /\ n \in Nat \ {0} /\ DOMAIN regions = 0..(n - 1)
      /\ IsFiniteSet(0..(n - 1)) /\ Cardinality(0..(n - 1)) = n
      /\ IsFiniteSet(0..(n - 2)) /\ IsFiniteSet(0..(0 - 1))
  BY <1>1, RegionAssumption, FS_Interval
<1>3. CASE NoVectors
  <2>1. Lines = {} /\ 0..(0 - 1) = {}
    BY <1>3 DEF NoVectors, Lines
  <2>2. ins_per_phase \in [Lines -> Nat]
    BY <1>3, <2>1 DEF NoVectors
  <2>3. LinesAre(0)
    BY <1>2, <2>1, <2>2 DEF LinesAre
  <2> QED
    BY <2>3
<1>4. CASE Vectors
  <2>1. DOMAIN SkipFirst = 0..(n - 2)
    BY <1>2 DEF SkipFirst
  <2>2. \A i \in 0..(n - 2) : /\ SkipFirst[i] = regions[i + 1]
                              /\ i + 1 \in DOMAIN regions
                              /\ regions[i + 1] \in Profiles
    BY <1>1, <1>2 DEF SkipFirst
  <2>3. /\ Lines = 0..(n - 2)
        /\ \A i \in Lines : ins_per_phase[i] = regions[i + 1].ins
        /\ ins_per_phase = [i \in Lines |-> regions[i + 1].ins]
    BY <1>4, <2>1, <2>2 DEF Vectors, Lines
  <2>4. ins_per_phase \in [Lines -> Nat]
    BY <2>2, <2>3, ProfileAssumption
  <2>5. n - 1 \in Nat /\ (n - 1) - 1 = n - 2 /\ (n - 1) + 1 = n
    BY <1>2
  <2>6. LinesAre(n - 1)
    BY <1>2, <2>2, <2>3, <2>4, <2>5 DEF LinesAre
  <2> QED
    BY <2>6
<1> QED
  BY <1>3, <1>4 DEF VectorInv

----------------------------------------------------------------------------
(* The clusters.  Cluster k has the lines i with c[i] = k.                 *)

\* points[k] is a member of cluster k, and map names it for every member.
Stands(map, points, c, n) ==
  /\ points \in [1..n -> Lines]
  /\ map = [i \in Lines |-> points[c[i]]]
  /\ \A k \in 1..n : c[points[k]] = k

\* A function of the numbers up to n is a sequence.
LEMMA Listed ==
  ASSUME NEW n \in Nat, NEW S, NEW f \in [1..n -> S]
  PROVE  f \in Seq(S) /\ Len(f) = n /\ DOMAIN f = 1..n
<1>1. f \in Seq(S)
  BY SeqDef
<1>2. Len(f) \in Nat /\ DOMAIN f = 1..Len(f)
  BY <1>1, LenProperties
<1> QED
  BY <1>1, <1>2

\* The clusters, by the place of their ids in SimPoint's list.
PlaceOf(ids, d) == CHOOSE k \in DOMAIN ids : ids[k] = d
Parts(ids, label) == [i \in Lines |-> PlaceOf(ids, label[i])]

\* What is needed of SimPoint's answer.
Answer(ids, label, sp) ==
  /\ ids \in IdLists
  /\ DOMAIN label = Lines
  /\ sp \in [DOMAIN ids -> Lines]
  /\ Clustering(ids, label, sp)

\* id2index finds the place of each id, as no id is in the list twice.
LEMMA MapStands ==
  ASSUME NEW ids, NEW label, NEW sp, Answer(ids, label, sp)
  PROVE  /\ Len(ids) \in Nat /\ DOMAIN ids = 1..Len(ids)
         /\ Parts(ids, label) \in [Lines -> 1..Len(ids)]
         /\ \A i \in Lines : ids[Parts(ids, label)[i]] = label[i]
         /\ Stands(MapOf(ids, label, sp), sp, Parts(ids, label), Len(ids))
<1> DEFINE c == Parts(ids, label)
           n == Len(ids)
<1>1. ids \in Seq(Nat) /\ IsInjective(ids)
  BY IdAssumption DEF Answer
<1>2. /\ n \in Nat /\ DOMAIN ids = 1..n
      /\ \A j, k \in 1..n : ids[j] = ids[k] => j = k
  BY <1>1, LenProperties DEF IsInjective
<1>3. ASSUME NEW i \in Lines
      PROVE  /\ PlaceOf(ids, label[i]) \in 1..n
             /\ ids[PlaceOf(ids, label[i])] = label[i]
  <2>1. label[i] \in ToSet(ids)
    BY DEF Answer, Clustering
  <2>2. \E k \in DOMAIN ids : ids[k] = label[i]
    BY <2>1 DEF ToSet
  <2> QED
    BY <1>2, <2>2 DEF PlaceOf
<1>4. /\ c \in [Lines -> 1..n]
      /\ \A i \in Lines : c[i] = PlaceOf(ids, label[i]) /\ ids[c[i]] = label[i]
  BY <1>3 DEF Parts
<1>5. MapOf(ids, label, sp) = [i \in Lines |-> sp[c[i]]]
  <2>1. MapOf(ids, label, sp) =
          [i \in DOMAIN label |-> sp[PlaceOf(ids, label[i])]]
    BY DEF MapOf, PlaceOf
  <2> QED
    BY <1>4, <2>1 DEF Answer
<1>6. ASSUME NEW k \in 1..n
      PROVE  c[sp[k]] = k
  <2>1. sp[k] \in Lines /\ label[sp[k]] = ids[k]
    BY <1>2 DEF Answer, Clustering
  <2>2. c[sp[k]] \in 1..n /\ ids[c[sp[k]]] = ids[k]
    BY <1>4, <2>1
  <2> QED
    BY <1>2, <2>2
<1>7. sp \in [1..n -> Lines]
  BY <1>2 DEF Answer
<1> QED
  BY <1>2, <1>4, <1>5, <1>6, <1>7 DEF Stands

\* The map after the first k turns of the loop that rewrites it.
Turned(turn, map, from, to) ==
  turn = [k \in 0..Len(from) |->
            IF k = 0 THEN map
            ELSE [i \in DOMAIN map |-> IF turn[k - 1][i] = from[k]
                                       THEN to[k] ELSE turn[k - 1][i]]]

\* Rewriting the map in place, cluster by cluster, gives the other points:
\* no point that has been put in is taken for one still to be replaced.
LEMMA Remaps ==
  ASSUME NEW n \in Nat, NEW c \in [Lines -> 1..n],
         NEW map, NEW from, Stands(map, from, c, n),
         NEW to \in [1..n -> Lines], \A k \in 1..n : c[to[k]] = k
  PROVE  Stands(Remapped(map, from, to), to, c, n)
<1> DEFINE V == [Lines -> Lines]
           step == [k \in 1..n |-> [m \in V |->
                      [i \in Lines |-> IF m[i] = from[k]
                                       THEN to[k] ELSE m[i]]]]
<1>1. /\ map \in V /\ DOMAIN map = Lines /\ Len(from) = n
      /\ \A k \in 1..n : from[k] \in Lines /\ to[k] \in Lines
      /\ \A i \in Lines : c[i] \in 1..n /\ map[i] = from[c[i]]
      /\ \A k \in 1..n : c[from[k]] = k
  BY Listed DEF Stands
<1>2. step \in [1..n -> [V -> V]]
  BY <1>1
<1>3. \A k \in 1..n : \A m \in V :
        step[k][m] = [i \in Lines |-> IF m[i] = from[k] THEN to[k] ELSE m[i]]
  OBVIOUS
<1>4. map \in V
  BY <1>1
<1> HIDE DEF V, step
<1>5. PICK h : /\ h \in [0..n -> V] /\ h[0] = map
               /\ \A k \in 1..n : h[k] = step[k][h[k - 1]]
  <2>1. IsLoop(n, V, map, step)
    BY <1>2, <1>4 DEF IsLoop
  <2>2. PICK h : Turns(h, n, V, map, step)
    BY <2>1, Iterates
  <2>3. Turns(h, n, V, map, step)
    BY <2>2
  <2> QED
    BY <2>3 DEF Turns
<1>6. ASSUME NEW k \in 1..n
      PROVE  /\ h[k - 1] \in V
             /\ h[k] = [i \in DOMAIN map |-> IF h[k - 1][i] = from[k]
                                             THEN to[k] ELSE h[k - 1][i]]
  <2>1. k - 1 \in 0..n /\ h[k - 1] \in V
    BY <1>5
  <2>2. h[k] = step[k][h[k - 1]]
    BY <1>5
  <2>3. step[k][h[k - 1]] = [i \in Lines |-> IF h[k - 1][i] = from[k]
                                             THEN to[k] ELSE h[k - 1][i]]
    BY <1>3, <2>1
  <2>4. DOMAIN map = Lines
    BY <1>1
  <2> QED
    BY <2>1, <2>2, <2>3, <2>4
<1>7. Turned(h, map, from, to)
  <2>1. ASSUME NEW k \in 0..n
        PROVE  h[k] = IF k = 0 THEN map
                      ELSE [i \in DOMAIN map |-> IF h[k - 1][i] = from[k]
                                                 THEN to[k] ELSE h[k - 1][i]]
    <3>1. k = 0 \/ k \in 1..n
      OBVIOUS
    <3> QED
      BY <1>5, <1>6, <3>1
  <2> QED
    BY <1>1, <1>5, <2>1 DEF Turned
<1> DEFINE turn == CHOOSE t : Turned(t, map, from, to)
<1>8. Turned(turn, map, from, to)
  BY <1>7
<1>9. Remapped(map, from, to) = turn[n]
  BY <1>1 DEF Remapped, Turned
<1> HIDE DEF turn
<1> DEFINE Right(k) ==
             turn[k] = [i \in Lines |-> IF c[i] <= k THEN to[c[i]]
                                        ELSE from[c[i]]]
           T == {k \in 0..n : Right(k)}
<1>10. 0 \in T
  <2>1. turn[0] = map /\ \A i \in Lines : ~(c[i] <= 0)
    BY <1>1, <1>8 DEF Turned
  <2> QED
    BY <2>1 DEF Stands
<1>11. \A k \in 0..(n - 1) : k \in T => k + 1 \in T
  <2> SUFFICES ASSUME NEW k \in 0..(n - 1), k \in T
               PROVE  k + 1 \in T
    OBVIOUS
  <2>1. k + 1 \in 0..n /\ k + 1 \in 1..n /\ (k + 1) - 1 = k
    OBVIOUS
  <2>2. turn[k + 1] = [i \in Lines |-> IF turn[k][i] = from[k + 1]
                                       THEN to[k + 1] ELSE turn[k][i]]
    <3>1. \A j \in 0..n : j # 0 =>
            turn[j] = [i \in Lines |-> IF turn[j - 1][i] = from[j]
                                       THEN to[j] ELSE turn[j - 1][i]]
      <4> HIDE DEF T
      <4> QED
        BY <1>1, <1>8 DEF Turned
    <3>2. k + 1 # 0
      OBVIOUS
    <3> HIDE DEF T
    <3> QED
      BY <2>1, <3>1, <3>2
  <2>3. ASSUME NEW i \in Lines
        PROVE  (IF turn[k][i] = from[k + 1] THEN to[k + 1] ELSE turn[k][i]) =
               (IF c[i] <= k + 1 THEN to[c[i]] ELSE from[c[i]])
    <3>1. turn[k][i] = IF c[i] <= k THEN to[c[i]] ELSE from[c[i]]
      OBVIOUS
    <3>2. c[i] \in 1..n
      BY <1>1
    <3>3. CASE c[i] <= k
      <4>1. turn[k][i] = to[c[i]] /\ c[to[c[i]]] = c[i] /\ c[i] # k + 1
        BY <3>1, <3>2, <3>3
      <4>2. turn[k][i] # from[k + 1]
        BY <1>1, <2>1, <4>1
      <4> QED
        BY <3>2, <3>3, <4>1, <4>2
    <3>4. CASE c[i] = k + 1
      <4>1. turn[k][i] = from[k + 1]
        BY <3>1, <3>4
      <4> QED
        BY <3>4, <4>1
    <3>5. CASE c[i] > k + 1
      <4>1. turn[k][i] = from[c[i]] /\ c[from[c[i]]] = c[i] /\ c[i] # k + 1
        BY <1>1, <3>1, <3>2, <3>5
      <4>2. turn[k][i] # from[k + 1]
        BY <1>1, <2>1, <4>1
      <4> QED
        BY <3>2, <3>5, <4>1, <4>2
    <3> QED
      BY <3>2, <3>3, <3>4, <3>5
  <2>4. Right(k + 1)
    BY <2>2, <2>3
  <2> HIDE DEF Right
  <2> QED
    BY <2>1, <2>4
<1>12. Right(n)
  <2> HIDE DEF Right
  <2>1. n \in T
    <3> HIDE DEF T
    <3>1. \A k \in 0..n : k \in T
      BY <1>10, <1>11, UpTo
    <3> QED
      BY <3>1
  <2> QED
    BY <2>1
<1>13. turn[n] = [i \in Lines |-> to[c[i]]]
  BY <1>1, <1>12
<1> QED
  BY <1>9, <1>13 DEF Stands

----------------------------------------------------------------------------
(* The alternatives.                                                       *)

\* What the two alternatives to the simpoint sp, the closest and the earliest
\* of the lines near it, have in common and how they differ.
Chosen(sp, ec, ee, c, dist) ==
  /\ ec \in Lines /\ ee \in Lines /\ c[ec] = c[sp] /\ c[ee] = c[sp]
  /\ ee <= ec /\ ec <= sp
  /\ dist[ec] <= dist[ee] /\ dist[ec] <= dist[sp]
  /\ \A j \in 0..(ee - 1) : c[j] = c[sp] => dist[j] > dist[sp]

\* Both are found, in the cluster of the simpoint and not after it, and none
\* of the cluster's lines before the earliest is as close as the simpoint.
LEMMA NearPoints ==
  ASSUME VectorInv, NEW n \in Nat, NEW c \in [Lines -> 1..n],
         NEW map, NEW sp, Stands(map, sp, c, n),
         NEW dist \in [Lines -> Distances], NEW k \in 1..n
  PROVE  Chosen(sp[k], Closest(Closer(map, dist, sp[k]), dist),
                Min(Closer(map, dist, sp[k])), c, dist)
<1> DEFINE p == sp[k]
           cluster == ClusterOf(map, p)
           far == {dist[j] : j \in cluster}
           longest == Max(far)
           near == Closer(map, dist, p)
           best == {j \in near : \A i \in near : dist[j] <= dist[i]}
<1>1. PICK m : LinesAre(m)
  BY LinesKnown
<1>2. /\ IsFiniteSet(Lines) /\ Lines \in SUBSET Nat /\ m \in Nat
      /\ Lines = 0..(m - 1)
  BY <1>1 DEF LinesAre
<1>3. p \in Lines /\ p \in Nat /\ c[p] = k
  BY <1>2 DEF Stands
<1>4. \A i \in Lines : dist[i] \in Nat
  BY DistanceAssumption
<1>5. \A j : j \in cluster <=> j \in Lines /\ c[j] = k
  <2>1. \A j : j \in cluster <=> j \in Lines /\ sp[c[j]] = p
    BY DEF ClusterOf, Stands
  <2>2. ASSUME NEW j \in Lines, sp[c[j]] = p
        PROVE  c[j] = k
    <3>1. c[j] \in 1..n
      OBVIOUS
    <3>2. c[sp[c[j]]] = c[j] /\ c[p] = k
      BY <3>1, <1>3 DEF Stands
    <3> QED
      BY <2>2, <3>2
  <2> QED
    BY <2>1, <2>2
<1>6. longest \in Nat
  <2>1. far \in SUBSET Nat /\ far # {}
    BY <1>3, <1>4, <1>5
  <2>2. IsFiniteSet(cluster)
    BY <1>2, <1>5, FS_Subset
  <2>3. IsFiniteSet(far)
    <3> DEFINE f == [j \in cluster |-> dist[j]]
    <3>1. f \in Surjection(cluster, far)
      BY DEF Surjection
    <3> HIDE DEF far, cluster, f
    <3> QED
      BY <2>2, <3>1, FS_Surjection
  <2> HIDE DEF far
  <2> QED
    BY <2>1, <2>3, FiniteMax
<1>7. \A j : j \in near <=> /\ j \in Lines /\ c[j] = k /\ j <= p
                            /\ 20 * dist[j] <= 20 * dist[p] + longest
  BY <1>5 DEF Closer
<1> HIDE DEF near, longest, cluster, far
<1>8. p \in near /\ near \in SUBSET Nat /\ near \in SUBSET Lines
  <2>1. near \in SUBSET Lines
    BY <1>7
  <2>2. near \in SUBSET Nat
    BY <1>2, <2>1
  <2>3. 20 * dist[p] <= 20 * dist[p] + longest /\ p <= p
    BY <1>3, <1>4, <1>6
  <2> QED
    BY <1>3, <1>7, <2>1, <2>2, <2>3
<1>9. Min(near) \in near /\ \A j \in near : Min(near) <= j
  <2>1. near \in SUBSET Nat /\ near # {}
    BY <1>8
  <2> QED
    BY <2>1, FiniteMin
<1>10. Max(best) \in best
  <2>1. {dist[i] : i \in near} \in SUBSET Nat /\ {dist[i] : i \in near} # {}
    BY <1>4, <1>8
  <2>2. PICK d \in {dist[i] : i \in near} :
          \A e \in {dist[i] : i \in near} : d <= e
    BY <2>1, Smallest
  <2>3. best # {} /\ best \in SUBSET Nat
    <3>1. PICK j \in near : d = dist[j]
      OBVIOUS
    <3>2. \A i \in near : dist[j] <= dist[i]
      BY <2>2, <3>1
    <3>3. j \in best
      BY <3>2
    <3> QED
      BY <1>8, <3>3
  <2>4. IsFiniteSet(best)
    BY <1>2, <1>8, FS_Subset
  <2> HIDE DEF best
  <2> QED
    BY <2>3, <2>4, FiniteMax
<1> DEFINE ec == Max(best)
           ee == Min(near)
<1>11. Closest(near, dist) = ec
  BY DEF Closest
<1>12. ec \in near /\ ee \in near /\ \A i \in near : dist[ec] <= dist[i]
  BY <1>9, <1>10
<1>13. ee <= ec
  BY <1>9, <1>12
<1> HIDE DEF ec, ee, best, p
<1>14. ASSUME NEW j \in 0..(ee - 1), c[j] = k
       PROVE  dist[j] > dist[p]
  <2>1. ee \in Lines /\ ee <= p
    BY <1>7, <1>12
  <2>2. j \in Lines /\ j < ee /\ j <= p
    BY <1>2, <1>3, <2>1
  <2>3. j \notin near
    BY <1>2, <1>9, <2>1, <2>2 DEF ee
  <2>4. ~(20 * dist[j] <= 20 * dist[p] + longest)
    BY <1>7, <1>14, <2>2, <2>3
  <2>5. dist[j] \in Nat /\ dist[p] \in Nat
    BY <1>3, <1>4, <2>2
  <2> QED
    BY <1>6, <2>4, <2>5
<1>15. Chosen(p, ec, ee, c, dist)
  BY <1>3, <1>7, <1>8, <1>12, <1>13, <1>14 DEF Chosen
<1> QED
  BY <1>11, <1>15 DEF ee, near, p

\* The clusters, and a point of each for the three kinds of selection.
NoClusters == /\ chosen = [s \in Kinds |-> <<>>]
              /\ BBMap = [s \in Kinds |-> <<>>]
ClustersAre(n, c) ==
  /\ n \in Nat /\ c \in [Lines -> 1..n]
  /\ \A s \in Kinds : Stands(BBMap[s], chosen[s], c, n)
Clusters == /\ \E n, c : ClustersAre(n, c)
            /\ Alternatives
Selecting == {"select", "finished"} \cup Kinds

ClusterInv ==
  /\ VectorInv
  /\ pc \in {"vectors", "combine", "cluster"} => NoClusters
  /\ pc \in Selecting => Clusters
  /\ NoClusters \/ Clusters

\* What Cluster stores are the clusters that SimPoint has found.
LEMMA ClusterStores ==
  ASSUME VectorInv, Cluster
  PROVE  Clusters'
<1>1. Lines' = Lines
  BY DEF Cluster, combined, Lines
<1>2. PICK ids \in IdLists : \E sp \in [DOMAIN ids -> Lines] :
          /\ Clustering(ids, labels', sp)
          /\ LET map == MapOf(ids, labels', sp)
                 near(k) == Closer(map, match', sp[k])
                 ec == [k \in DOMAIN sp |-> Closest(near(k), match')]
                 ee == [k \in DOMAIN sp |-> Min(near(k))]
             IN  /\ chosen' = [SP |-> sp, EC |-> ec, EE |-> ee]
                 /\ BBMap' = [SP |-> map,
                              EC |-> Remapped(map, sp, ec),
                              EE |-> Remapped(map, sp, ee)]
  BY Zenon DEF Cluster
<1>3. PICK sp \in [DOMAIN ids -> Lines] :
          /\ Clustering(ids, labels', sp)
          /\ LET map == MapOf(ids, labels', sp)
                 near(k) == Closer(map, match', sp[k])
                 ec == [k \in DOMAIN sp |-> Closest(near(k), match')]
                 ee == [k \in DOMAIN sp |-> Min(near(k))]
             IN  /\ chosen' = [SP |-> sp, EC |-> ec, EE |-> ee]
                 /\ BBMap' = [SP |-> map,
                              EC |-> Remapped(map, sp, ec),
                              EE |-> Remapped(map, sp, ee)]
  BY <1>2, Zenon
<1> DEFINE map == MapOf(ids, labels', sp)
           near(k) == Closer(map, match', sp[k])
           ec == [k \in DOMAIN sp |-> Closest(near(k), match')]
           ee == [k \in DOMAIN sp |-> Min(near(k))]
           n == Len(ids)
           c == Parts(ids, labels')
<1>4. /\ chosen' = [SP |-> sp, EC |-> ec, EE |-> ee]
      /\ BBMap' = [SP |-> map, EC |-> Remapped(map, sp, ec),
                   EE |-> Remapped(map, sp, ee)]
  BY <1>3, Zenon
<1>5. /\ match' \in [Lines -> Distances]
      /\ labels' \in [Lines -> UNION {ToSet(l) : l \in IdLists}]
  BY DEF Cluster
<1>6. Answer(ids, labels', sp)
  BY <1>3, <1>5 DEF Answer
<1>7. /\ n \in Nat /\ DOMAIN ids = 1..n /\ c \in [Lines -> 1..n]
      /\ \A i \in Lines : ids[c[i]] = labels'[i]
      /\ Stands(map, sp, c, n)
  BY <1>6, MapStands
<1> HIDE DEF map, n, c
<1>8. DOMAIN sp = 1..n /\ \A k \in 1..n : sp[k] \in Lines /\ c[sp[k]] = k
  BY <1>7 DEF Stands
<1>9. ASSUME NEW k \in 1..n
      PROVE  Chosen(sp[k], ec[k], ee[k], c, match')
  BY <1>5, <1>7, <1>8, NearPoints
<1> HIDE DEF ec, ee, near
<1>10. /\ ec \in [1..n -> Lines] /\ \A k \in 1..n : c[ec[k]] = k
       /\ ee \in [1..n -> Lines] /\ \A k \in 1..n : c[ee[k]] = k
  BY <1>8, <1>9 DEF ec, ee, Chosen
<1>11. /\ Stands(Remapped(map, sp, ec), ec, c, n)
       /\ Stands(Remapped(map, sp, ee), ee, c, n)
  BY <1>7, <1>10, Remaps
<1>12. ASSUME NEW s \in Kinds
       PROVE  Stands(BBMap'[s], chosen'[s], c, n)
  BY <1>4, <1>7, <1>11 DEF Kinds
<1>13. \E m, d : (ClustersAre(m, d))'
  <2>1. PICK m, d : m = n /\ d = c
    OBVIOUS
  <2>2. ASSUME NEW s \in Kinds
        PROVE  (Stands(BBMap[s], chosen[s], d, m))'
    BY <1>1, <1>12, <2>1 DEF Stands
  <2>3. (ClustersAre(m, d))'
    BY <1>1, <1>7, <2>1, <2>2 DEF ClustersAre
  <2> QED
    BY <2>3
<1>14. Alternatives'
  <2>1. chosen'.SP = sp /\ chosen'.EC = ec /\ chosen'.EE = ee
    BY <1>4
  <2>2. ASSUME NEW k \in 1..n
        PROVE  /\ labels'[ec[k]] = labels'[sp[k]]
               /\ labels'[ee[k]] = labels'[sp[k]]
               /\ ee[k] <= ec[k] /\ ec[k] <= sp[k]
               /\ match'[ec[k]] <= match'[ee[k]]
               /\ match'[ec[k]] <= match'[sp[k]]
               /\ \A j \in 0..(ee[k] - 1) :
                    labels'[j] = labels'[sp[k]] => match'[j] > match'[sp[k]]
    <3>1. PICK m : LinesAre(m)
      BY LinesKnown
    <3>2. \A i, j \in Lines : labels'[i] = labels'[j] <=> c[i] = c[j]
      <4>1. \A a, b \in 1..n : ids[a] = ids[b] => a = b
        BY <1>6, <1>7, IdAssumption DEF Answer, IsInjective
      <4> QED
        BY <1>7, <4>1
    <3>3. \A j \in 0..(ee[k] - 1) : j \in Lines
      BY <1>10, <3>1 DEF LinesAre
    <3> QED
      BY <1>8, <1>9, <3>2, <3>3 DEF Chosen
  <2> QED
    BY <1>8, <2>1, <2>2 DEF Alternatives
<1> QED
  BY <1>13, <1>14 DEF Clusters

LEMMA ClusterStep == ClusterInv /\ [Next]_vars => ClusterInv'
<1> SUFFICES ASSUME ClusterInv, [Next]_vars PROVE ClusterInv'
  OBVIOUS
<1>1. VectorInv /\ VectorInv'
  BY VectorStep DEF ClusterInv
<1>2. CASE Cluster
  <2>1. Clusters' /\ pc' = "select"
    BY <1>1, <1>2, ClusterStores DEF Cluster, Then
  <2> QED
    BY <1>1, <2>1 DEF ClusterInv
<1>3. CASE Combine \/ CreateVectors
  <2>1. /\ NoClusters /\ UNCHANGED <<chosen, BBMap>>
        /\ pc' \in {"combine", "cluster"}
    BY <1>3 DEF Combine, CreateVectors, Then, clustered, ClusterInv
  <2>2. NoClusters'
    BY <2>1 DEF NoClusters
  <2> QED
    BY <1>1, <2>1, <2>2 DEF ClusterInv, Selecting, Kinds
<1>4. ASSUME UNCHANGED <<combined, clustered>>,
             \/ pc' = pc
             \/ pc \in Selecting /\ pc' \in Stages \ {"vectors", "combine",
                                                      "cluster"}
             \/ pc' \in {"error", "raised"}
      PROVE  ClusterInv'
  <2>1. NoClusters' = NoClusters
    BY <1>4 DEF NoClusters, clustered
  <2>2. \A n, c : (ClustersAre(n, c))' <=> ClustersAre(n, c)
    BY <1>4 DEF ClustersAre, Stands, Lines, combined, clustered
  <2>3. Alternatives' = Alternatives
    BY <1>4 DEF Alternatives, clustered
  <2>4. Clusters' <=> Clusters
    BY <2>2, <2>3 DEF Clusters
  <2> QED
    BY <1>1, <1>4, <2>1, <2>4 DEF ClusterInv, Selecting, Kinds
<1>5. ASSUME NEW s \in Kinds, WriteSelected(s) \/ WriteFails(s)
      PROVE  ClusterInv'
  BY <1>4, <1>5 DEF WriteSelected, WriteFails, Then, After, Selecting, Stages,
                    Kinds
<1>6. CASE Fails("vectors") \/ Fails("combine") \/ ClusterRaises
  BY <1>4, <1>6 DEF Fails, ClusterRaises, Then
<1>7. CASE Select
  BY <1>4, <1>7 DEF Select, Selecting, Stages, Kinds
<1>8. CASE UNCHANGED vars
  BY <1>4, <1>8 DEF vars
<1> QED
  BY <1>2, <1>3, <1>5, <1>6, <1>7, <1>8 DEF Next, Ended

LEMMA ClusterInit == Init => ClusterInv
BY VectorInit DEF Init, ClusterInv, NoClusters, Selecting, Kinds

\* Alternatives: the closest and the earliest alternative belong to the
\* cluster of the simpoint, come no later than it, and neither is preceded
\* by what it should have been, although ids of clusters have gaps
\* (DrAnalysis.py:454-476).
THEOREM AlternativesRight == Spec => []Alternatives
<1>1. ClusterInv => Alternatives
  BY DEF ClusterInv, Clusters, NoClusters, Alternatives, Kinds
<1> QED
  BY <1>1, ClusterInit, ClusterStep, PTL DEF Spec

----------------------------------------------------------------------------
(* The combined vectors.                                                   *)

\* A profile of a region, as the assumption describes it.
LEMMA ProfileIs ==
  ASSUME NEW p \in Profiles
  PROVE  /\ p.ins \in Nat
         /\ IsFiniteSet(DOMAIN p.ldv) /\ IsFiniteSet(DOMAIN p.bbv)
         /\ DOMAIN p.ldv \in SUBSET (Nat \ {0})
         /\ DOMAIN p.bbv \in SUBSET (Nat \ {0})
         /\ p.ldv \in [DOMAIN p.ldv -> Nat]
         /\ p.bbv \in [DOMAIN p.bbv -> Nat]
         /\ SumOf(p.ldv) = Total(p.ldv) /\ Total(p.ldv) \in Nat
<1>1. /\ p.ins \in Nat
      /\ IsFiniteSet(DOMAIN p.ldv) /\ IsFiniteSet(DOMAIN p.bbv)
      /\ DOMAIN p.ldv \in SUBSET (Nat \ {0})
      /\ DOMAIN p.bbv \in SUBSET (Nat \ {0})
      /\ p.ldv \in [DOMAIN p.ldv -> Nat]
      /\ p.bbv \in [DOMAIN p.bbv -> Nat]
  BY ProfileAssumption
<1>2. Total(p.ldv) \in Nat
  BY <1>1, TotalNat
<1>3. SumOf(p.ldv) = Total(p.ldv)
  BY DEF SumOf, Total
<1> QED
  BY <1>1, <1>2, <1>3

\* Bbmax is at least every id of a reuse distance, on any line.
LEMMA BbmaxBounds ==
  ASSUME VectorInv, Vectors
  PROVE  /\ Bbmax(SkipFirst) \in Nat
         /\ \A i \in Lines : \A d \in DOMAIN regions[i + 1].ldv :
              d <= Bbmax(SkipFirst)
         /\ \A i \in Lines : /\ SkipFirst[i] = regions[i + 1]
                             /\ regions[i + 1] \in Profiles
         /\ DOMAIN SkipFirst = Lines
<1>1. PICK m : LinesAre(m)
  BY LinesKnown
<1>2. DOMAIN SkipFirst = Lines
  BY DEF Vectors, Lines
<1>3. \A i \in Lines : /\ SkipFirst[i] = regions[i + 1]
                       /\ regions[i + 1] \in Profiles
  BY <1>1, <1>2 DEF LinesAre, SkipFirst
<1> DEFINE f == [i \in Lines |-> DOMAIN SkipFirst[i].ldv]
           ids == {0} \cup AllOf(f)
<1>4. Bbmax(SkipFirst) = Max(ids)
  <2>1. AllOf(f) = UNION {DOMAIN SkipFirst[i].ldv : i \in DOMAIN SkipFirst}
    BY <1>2 DEF AllOf
  <2> QED
    BY <2>1 DEF Bbmax
<1>5. ASSUME NEW i \in Lines
      PROVE  /\ f[i] = DOMAIN regions[i + 1].ldv
             /\ IsFiniteSet(f[i]) /\ f[i] \in SUBSET Nat
  <2>1. f[i] = DOMAIN regions[i + 1].ldv
    BY <1>3
  <2> HIDE DEF f
  <2> QED
    BY <1>3, <2>1, ProfileIs
<1>6. DOMAIN f = Lines /\ IsFiniteSet(Lines)
  BY <1>1 DEF LinesAre
<1> HIDE DEF f
<1>7. IsFiniteSet(AllOf(f)) /\ AllOf(f) \in SUBSET Nat
  <2>1. IsFiniteSet(AllOf(f))
    BY <1>5, <1>6, FiniteFamily
  <2>2. AllOf(f) \in SUBSET Nat
    BY <1>5, <1>6 DEF AllOf
  <2> QED
    BY <2>1, <2>2
<1>8. IsFiniteSet(ids) /\ ids \in SUBSET Nat /\ ids # {}
  BY <1>7, FS_AddElement
<1>9. \A i \in Lines : \A d \in f[i] : d \in ids
  BY <1>6 DEF AllOf
<1> HIDE DEF ids
<1>10. Max(ids) \in Nat /\ \A d \in ids : d <= Max(ids)
  BY <1>8, FiniteMax
<1> QED
  BY <1>2, <1>3, <1>4, <1>5, <1>9, <1>10

\* The ids of the two parts of a vector.
LEMMA PartIds ==
  ASSUME NEW p, NEW shift
  PROVE  /\ \A e : e \in Weighted(p) <=>
               \E d \in DOMAIN p.ldv :
                 e = <<d, p.ldv[d] * p.ins, SumOf(p.ldv)>>
         /\ \A e : e \in BlocksOf(p, shift) <=>
               \E b \in DOMAIN p.bbv : e = <<b + shift, p.bbv[b], 1>>
         /\ {e[1] : e \in Weighted(p)} = DOMAIN p.ldv
         /\ {e[1] : e \in BlocksOf(p, shift)} =
               {b + shift : b \in DOMAIN p.bbv}
         /\ \A e \in Weighted(p) : e[3] = SumOf(p.ldv)
<1> DEFINE u(d) == <<d, p.ldv[d] * p.ins, SumOf(p.ldv)>>
           v(b) == <<b + shift, p.bbv[b], 1>>
<1>1. \A d : u(d)[1] = d /\ u(d)[3] = SumOf(p.ldv)
  OBVIOUS
<1>2. \A b : v(b)[1] = b + shift
  OBVIOUS
<1>3. /\ Weighted(p) = {u(d) : d \in DOMAIN p.ldv}
      /\ BlocksOf(p, shift) = {v(b) : b \in DOMAIN p.bbv}
  BY DEF Weighted, BlocksOf
<1> SUFFICES /\ \A e : e \in Weighted(p) <=> \E d \in DOMAIN p.ldv : e = u(d)
             /\ \A e : e \in BlocksOf(p, shift) <=>
                          \E b \in DOMAIN p.bbv : e = v(b)
             /\ {e[1] : e \in Weighted(p)} = DOMAIN p.ldv
             /\ {e[1] : e \in BlocksOf(p, shift)} =
                   {b + shift : b \in DOMAIN p.bbv}
             /\ \A e \in Weighted(p) : e[3] = SumOf(p.ldv)
  OBVIOUS
<1> HIDE DEF u, v
<1>4. /\ \A e : e \in Weighted(p) <=> \E d \in DOMAIN p.ldv : e = u(d)
      /\ \A e : e \in BlocksOf(p, shift) <=>
                   \E b \in DOMAIN p.bbv : e = v(b)
  BY <1>3
<1> QED
  BY <1>1, <1>2, <1>4

\* A line of the reuse distances of a profile weighs as much, in all, as the
\* instructions of the region.
LEMMA WeightedSum ==
  ASSUME NEW p \in Profiles
  PROVE  Total([u \in Weighted(p) |-> u[2]]) = p.ins * SumOf(p.ldv)
<1> DEFINE D == DOMAIN p.ldv
           L == Weighted(p)
           name == [d \in D |-> <<d, p.ldv[d] * p.ins, SumOf(p.ldv)>>]
           f == [u \in L |-> u[2]]
<1>1. /\ p.ins \in Int /\ IsFiniteSet(D) /\ p.ldv \in [D -> Int]
      /\ \A d \in D : p.ldv[d] \in Int /\ p.ldv[d] * p.ins \in Int
      /\ SumOf(p.ldv) = Total(p.ldv)
  <2>1. p.ins \in Nat /\ p.ldv \in [D -> Nat] /\ IsFiniteSet(D)
    BY ProfileIs
  <2>2. \A d \in D : p.ldv[d] \in Int /\ p.ldv[d] * p.ins \in Int
    BY <2>1
  <2>3. p.ldv \in [D -> Int]
    BY <2>1
  <2>4. SumOf(p.ldv) = Total(p.ldv)
    BY ProfileIs
  <2> QED
    BY <2>1, <2>2, <2>3, <2>4
<1>2. /\ name \in [D -> L]
      /\ \A u \in L : \E d \in D : name[d] = u
      /\ \A d, e \in D : name[d] = name[e] => d = e
      /\ \A d \in D : name[d][2] = p.ldv[d] * p.ins
  <2>1. \A u : u \in L <=>
          \E d \in D : u = <<d, p.ldv[d] * p.ins, SumOf(p.ldv)>>
    BY PartIds
  <2>2. \A d \in D : /\ name[d] = <<d, p.ldv[d] * p.ins, SumOf(p.ldv)>>
                     /\ name[d][1] = d /\ name[d][2] = p.ldv[d] * p.ins
    OBVIOUS
  <2>3. name = [d \in D |-> name[d]]
    OBVIOUS
  <2> HIDE DEF L, name, D
  <2>4. \A d \in D : name[d] \in L
    BY <2>1, <2>2
  <2> QED
    BY <2>1, <2>2, <2>3, <2>4
<1> HIDE DEF name, L, D
<1>3. f \in [L -> Int] /\ \A d \in D : f[name[d]] = p.ldv[d] * p.ins
  <2>1. \A u \in L : u[2] \in Int
    BY <1>1, <1>2
  <2>2. \A d \in D : f[name[d]] = name[d][2]
    BY <1>2
  <2> QED
    BY <1>2, <2>1, <2>2
<1> HIDE DEF f
<1>4. Total([d \in D |-> f[name[d]]]) = Total(f)
  BY <1>1, <1>2, <1>3, TotalMoves
<1>5. Total([d \in D |-> p.ldv[d] * p.ins]) = p.ins * Total(p.ldv)
  BY <1>1, TotalScales
<1>6. [d \in D |-> f[name[d]]] = [d \in D |-> p.ldv[d] * p.ins]
  BY <1>3
<1> QED
  BY <1>1, <1>4, <1>5, <1>6 DEF f, L

\* The ids of reuse distances, on any line, and the part of a vector that
\* has them.
Used == UNION {DOMAIN regions[j].ldv : j \in DOMAIN regions \ {0}}
LdvOf(i) == {e \in BP[i] : e[1] \in Used}

\* A vector consists of the two parts it was made of, and the shift keeps
\* their ids apart.
PartsKept(i, p) ==
  /\ p \in Profiles /\ BP[i] \subseteq Nat \X Nat \X Nat
  /\ LdvOf(i) = Weighted(p)
  /\ BP[i] \ LdvOf(i) = BlocksOf(p, Bbmax(SkipFirst))
  /\ Bbmax(SkipFirst) \in Nat

LEMMA VectorParts ==
  ASSUME VectorInv, Vectors, NEW i \in Lines
  PROVE  PartsKept(i, regions[i + 1])
<1> DEFINE shift == Bbmax(SkipFirst)
           p == regions[i + 1]
           L == Weighted(p)
           B == BlocksOf(p, shift)
<1>1. PICK m \in Nat : Lines = 0..(m - 1) /\ DOMAIN regions = 0..m
  BY LinesKnown DEF LinesAre
<1>2. /\ shift \in Nat /\ p \in Profiles /\ SkipFirst[i] = p
      /\ \A k \in Lines : \A d \in DOMAIN regions[k + 1].ldv : d <= shift
      /\ DOMAIN SkipFirst = Lines
  BY BbmaxBounds
<1>3. BP[i] = L \cup B
  BY <1>2 DEF Vectors
<1>4. \A d \in Used : d <= shift
  <2>1. ASSUME NEW j \in DOMAIN regions \ {0}
        PROVE  \A d \in DOMAIN regions[j].ldv : d <= shift
    <3>1. j - 1 \in Lines /\ (j - 1) + 1 = j
      BY <1>1
    <3> QED
      BY <1>2, <3>1
  <2> QED
    BY <2>1 DEF Used
<1>5. \A d \in DOMAIN p.ldv : d \in Used
  <2>1. i + 1 \in DOMAIN regions \ {0}
    BY <1>1
  <2> QED
    BY <2>1 DEF Used
<1>6. /\ p.ins \in Nat /\ SumOf(p.ldv) \in Nat
      /\ \A d \in DOMAIN p.ldv : d \in Nat /\ p.ldv[d] \in Nat
      /\ \A b \in DOMAIN p.bbv : b \in Nat \ {0} /\ p.bbv[b] \in Nat
  BY <1>2, ProfileIs
<1> HIDE DEF shift, p, L, B
<1>7. ASSUME NEW e \in L
      PROVE  e[1] \in Used /\ e \in Nat \X Nat \X Nat
  <2>1. PICK d \in DOMAIN p.ldv :
          e = <<d, p.ldv[d] * p.ins, SumOf(p.ldv)>>
    BY PartIds DEF L
  <2>2. p.ldv[d] * p.ins \in Nat
    BY <1>6
  <2> QED
    BY <1>5, <1>6, <2>1, <2>2
<1>8. ASSUME NEW e \in B
      PROVE  e[1] \notin Used /\ e \in Nat \X Nat \X Nat
  <2>1. PICK b \in DOMAIN p.bbv : e = <<b + shift, p.bbv[b], 1>>
    BY PartIds DEF B
  <2>2. b + shift \in Nat /\ ~(b + shift <= shift)
    BY <1>2, <1>6
  <2> QED
    BY <1>4, <1>6, <2>1, <2>2
<1>9. LdvOf(i) = L /\ BP[i] \ LdvOf(i) = B /\ BP[i] \subseteq Nat \X Nat \X Nat
  BY <1>3, <1>7, <1>8 DEF LdvOf
<1> QED
  BY <1>2, <1>9 DEF L, B, shift, p, PartsKept

\* Fingerprint: two features of a vector never get the same id, and the
\* reuse distances weigh as much as the instructions, for every set of
\* profiles (DrAnalysis.py:308-386).
THEOREM FingerprintKept == Spec => []Fingerprint
<1>1. VectorInv => Fingerprint
  <2> SUFFICES ASSUME VectorInv PROVE Fingerprint
    OBVIOUS
  <2>1. ASSUME NEW i \in Lines
        PROVE  /\ Cardinality({e[1] : e \in LdvOf(i)}) =
                    Cardinality(DOMAIN regions[i + 1].ldv)
               /\ Cardinality({e[1] : e \in BP[i] \ LdvOf(i)}) =
                    Cardinality(DOMAIN regions[i + 1].bbv)
               /\ \A e \in LdvOf(i) : SumOf([u \in LdvOf(i) |-> u[2]]) =
                                        regions[i + 1].ins * e[3]
    <3> DEFINE p == regions[i + 1]
               shift == Bbmax(SkipFirst)
    <3>1. Vectors
      BY DEF VectorInv, NoVectors, Lines
    <3>2. /\ p \in Profiles /\ LdvOf(i) = Weighted(p)
          /\ BP[i] \ LdvOf(i) = BlocksOf(p, shift)
          /\ shift \in Nat
      BY <3>1, VectorParts DEF PartsKept
    <3> HIDE DEF p, shift
    <3>3. /\ {e[1] : e \in Weighted(p)} = DOMAIN p.ldv
          /\ \A e \in Weighted(p) : e[3] = SumOf(p.ldv)
      BY PartIds
    <3>4. Cardinality({e[1] : e \in BlocksOf(p, shift)}) =
            Cardinality(DOMAIN p.bbv)
      <4> DEFINE D == DOMAIN p.bbv
                 f == [b \in D |-> b + shift]
      <4>1. {e[1] : e \in BlocksOf(p, shift)} = {f[b] : b \in D}
        <5>1. {e[1] : e \in BlocksOf(p, shift)} = {b + shift : b \in D}
          BY PartIds
        <5>2. {b + shift : b \in D} = {f[b] : b \in D}
          OBVIOUS
        <5> QED
          BY <5>1, <5>2
      <4>2. IsFiniteSet(D) /\ D \in SUBSET Nat
        BY <3>2, ProfileIs
      <4>3. f = [b \in D |-> f[b]] /\ \A b \in D : f[b] = b + shift
        OBVIOUS
      <4> HIDE DEF f, D
      <4>4. \A b, d \in D : f[b] = f[d] => b = d
        BY <3>2, <4>2, <4>3
      <4>5. Cardinality({f[b] : b \in D}) = Cardinality(D)
        BY <4>2, <4>3, <4>4, ImageSize
      <4> QED
        BY <4>1, <4>5 DEF D
    <3>5. \A f : SumOf(f) = Total(f)
      BY DEF SumOf, Total
    <3>6. Total([u \in Weighted(p) |-> u[2]]) = p.ins * SumOf(p.ldv)
      BY <3>2, WeightedSum
    <3>7. \A e \in LdvOf(i) : SumOf([u \in LdvOf(i) |-> u[2]]) = p.ins * e[3]
      BY <3>2, <3>3, <3>5, <3>6
    <3> QED
      BY <3>2, <3>3, <3>4, <3>7 DEF p
  <2> QED
    BY <2>1 DEF Fingerprint, LdvOf, Used
<1> QED
  BY <1>1, VectorInit, VectorStep, PTL DEF Spec

\* TypeOK: the analysis keeps to its domains whatever SimPoint answers; the
\* lines it indexes its lists with exist (DrAnalysis.py:419-513).
THEOREM SelectedTypes == Spec => []TypeOK
<1>1. ClusterInv => TypeOK
  <2> SUFFICES ASSUME ClusterInv PROVE TypeOK
    OBVIOUS
  <2>1. VectorInv /\ pc \in Stages /\ vectors \in BOOLEAN
    BY DEF ClusterInv, VectorInv
  <2>2. \A i \in Lines : ins_per_phase[i] \in Nat
    BY <2>1, LinesKnown DEF LinesAre
  <2>3. ASSUME NEW i \in Lines
        PROVE  BP[i] \subseteq Nat \X Nat \X Nat
    <3>1. Vectors
      BY <2>1 DEF VectorInv, NoVectors, Lines
    <3> QED
      BY <2>1, <3>1, VectorParts DEF PartsKept
  <2>4. ASSUME NEW s \in Kinds
        PROVE  /\ BBMap[s] # <<>> => BBMap[s] \in [Lines -> Lines]
               /\ ToSet(chosen[s]) \subseteq Lines
    <3>1. CASE NoClusters
      BY <3>1 DEF NoClusters, ToSet
    <3>2. CASE Clusters
      <4>1. PICK n, c : ClustersAre(n, c)
        BY <3>2 DEF Clusters
      <4>2. Stands(BBMap[s], chosen[s], c, n) /\ c \in [Lines -> 1..n]
        BY <4>1 DEF ClustersAre
      <4>3. /\ chosen[s] \in [1..n -> Lines]
            /\ BBMap[s] = [i \in Lines |-> chosen[s][c[i]]]
        BY <4>2 DEF Stands
      <4>4. BBMap[s] \in [Lines -> Lines]
        BY <4>2, <4>3
      <4>5. ToSet(chosen[s]) \subseteq Lines
        BY <4>3 DEF ToSet
      <4> QED
        BY <4>4, <4>5
    <3> QED
      BY <3>1, <3>2 DEF ClusterInv
  <2> QED
    BY <2>1, <2>2, <2>3, <2>4 DEF TypeOK, Stages
<1> QED
  BY <1>1, ClusterInit, ClusterStep, PTL DEF Spec

----------------------------------------------------------------------------
(* The files.                                                              *)

\* The places of the members of s in a list, in the order of what is there.
Arranges(p, s, list) ==
  /\ p \in [1..Cardinality(s) -> s]
  /\ \A j \in s : \E k \in 1..Cardinality(s) : p[k] = j
  /\ \A j, k \in 1..Cardinality(s) : j < k => list[p[j]] <= list[p[k]]

\* Any list of numbers can be sorted.
LEMMA CanSort ==
  ASSUME NEW n \in Nat, NEW list \in [1..n -> Nat]
  PROVE  \E p : Arranges(p, 1..n, list)
<1> DEFINE T == {s \in SUBSET (1..n) : \E p : Arranges(p, s, list)}
<1>1. IsFiniteSet(1..n)
  BY FS_Interval
<1>2. ASSUME NEW s \in SUBSET (1..n), \A x \in s : s \ {x} \in T
      PROVE  s \in T
  <2> DEFINE m == Cardinality(s)
  <2>1. IsFiniteSet(s) /\ m \in Nat
    BY <1>1, FS_Subset, FS_CardinalityType
  <2>2. CASE s = {}
    <3>1. m = 0 /\ 1..0 = {}
      BY <2>2, FS_EmptySet
    <3> DEFINE p == [k \in 1..0 |-> 0]
    <3>2. Arranges(p, s, list)
      BY <2>2, <3>1 DEF Arranges
    <3> HIDE DEF p, m
    <3> QED
      BY <3>2
  <2>3. CASE s # {}
    <3> DEFINE values == {list[j] : j \in s}
    <3>1. values \in SUBSET Nat /\ values # {} /\ IsFiniteSet(values)
      <4> DEFINE f == [j \in s |-> list[j]]
      <4>1. f \in Surjection(s, values)
        BY DEF Surjection
      <4>2. values \in SUBSET Nat /\ values # {}
        BY <2>3
      <4> HIDE DEF f, values
      <4> QED
        BY <2>1, <4>1, <4>2, FS_Surjection
    <3>2. PICK v \in values : \A w \in values : v >= w
      <4> HIDE DEF values
      <4> QED
        BY <3>1, FiniteLargest
    <3>3. PICK j \in s : list[j] = v
      OBVIOUS
    <3>4. \A i \in s : list[i] <= list[j]
      BY <3>2, <3>3
    <3> HIDE DEF values
    <3> DEFINE r == s \ {j}
    <3>5. Cardinality(r) = m - 1 /\ m - 1 \in Nat
      <4>1. IsFiniteSet(r) /\ Cardinality(r) = m - 1
        BY <2>1, FS_RemoveElement
      <4>2. Cardinality(r) \in Nat
        BY <4>1, FS_CardinalityType
      <4> QED
        BY <4>1, <4>2
    <3>6. PICK q : Arranges(q, r, list)
      BY <1>2, <3>3
    <3> DEFINE p == [k \in 1..m |-> IF k = m THEN j ELSE q[k]]
    <3>7. /\ q \in [1..(m - 1) -> r]
          /\ \A i \in r : \E k \in 1..(m - 1) : q[k] = i
          /\ \A i, k \in 1..(m - 1) : i < k => list[q[i]] <= list[q[k]]
      BY <3>5, <3>6 DEF Arranges
    <3> HIDE DEF m
    <3>8. /\ \A k \in 1..(m - 1) : k \in 1..m /\ p[k] = q[k] /\ q[k] \in s
          /\ m \in 1..m /\ p[m] = j
          /\ \A k \in 1..m : k = m \/ k \in 1..(m - 1)
      BY <2>1, <3>5, <3>7
    <3>9. p \in [1..m -> s]
      <4>1. \A k \in 1..m : p[k] \in s
        BY <3>8
      <4> QED
        BY <4>1
    <3> HIDE DEF p
    <3>10. \A i \in s : \E k \in 1..m : p[k] = i
      <4>1. \A i \in s : i = j \/ i \in r
        OBVIOUS
      <4> HIDE DEF r
      <4> QED
        BY <3>7, <3>8, <4>1
    <3>11. ASSUME NEW i \in 1..m, NEW k \in 1..m, i < k
           PROVE  list[p[i]] <= list[p[k]]
      <4>1. i \in 1..(m - 1)
        BY <2>1, <3>11
      <4>2. CASE k = m
        BY <3>4, <3>8, <4>1, <4>2
      <4>3. CASE k \in 1..(m - 1)
        BY <3>7, <3>8, <3>11, <4>1, <4>3
      <4> QED
        BY <3>8, <4>2, <4>3
    <3>12. Arranges(p, s, list)
      BY <3>9, <3>10, <3>11 DEF Arranges, m
    <3> QED
      BY <3>12
  <2> QED
    BY <2>2, <2>3
<1>3. 1..n \in T
  <2> HIDE DEF T
  <2>1. \A s \in SUBSET (1..n) : s \in T
    BY <1>1, <1>2, SetUp
  <2> QED
    BY <2>1
<1> QED
  BY <1>3

\* Sorting a list without repetitions only puts it in another order.
Reordered(list, sorted, n, S) ==
  /\ sorted \in [1..n -> S]
  /\ \A k \in 1..n : \E j \in 1..n : list[j] = sorted[k]
  /\ \A j \in 1..n : \E k \in 1..n : sorted[k] = list[j]
  /\ \A j, k \in 1..n : sorted[j] = sorted[k] => j = k

LEMMA SortedIs ==
  ASSUME NEW n \in Nat, NEW S \in SUBSET Nat, NEW list \in [1..n -> S],
         \A j, k \in 1..n : list[j] = list[k] => j = k
  PROVE  Reordered(list, Sorted(list), n, S)
<1> DEFINE places == DOMAIN list
           Fits(p) == /\ ToSet(p) = places
                      /\ \A j, k \in places :
                           j < k => list[p[j]] <= list[p[k]]
           order == CHOOSE p \in [places -> places] : Fits(p)
<1>1. places = 1..n /\ IsFiniteSet(1..n) /\ Cardinality(1..n) = n
  BY FS_Interval
<1>2. PICK p : Arranges(p, 1..n, list)
  <2>1. list \in [1..n -> Nat]
    OBVIOUS
  <2> QED
    BY <2>1, CanSort
<1>3. p \in [places -> places] /\ Fits(p)
  <2>1. p \in [places -> places]
    BY <1>1, <1>2 DEF Arranges
  <2>2. ToSet(p) = places
    <3>1. \A j \in 1..n : \E k \in 1..n : p[k] = j
      BY <1>1, <1>2 DEF Arranges
    <3>2. DOMAIN p = 1..n /\ \A k \in 1..n : p[k] \in 1..n
      BY <1>1, <2>1
    <3> QED
      BY <1>1, <3>1, <3>2 DEF ToSet
  <2>3. \A j, k \in places : j < k => list[p[j]] <= list[p[k]]
    BY <1>1, <1>2 DEF Arranges
  <2> QED
    BY <2>1, <2>2, <2>3
<1>4. order \in [places -> places] /\ Fits(order)
  <2> HIDE DEF Fits
  <2> QED
    BY <1>3, Zenon
<1>5. Sorted(list) = [k \in places |-> list[order[k]]]
  BY Zenon DEF Sorted
<1> HIDE DEF order
<1>6. /\ order \in [1..n -> 1..n]
      /\ \A j \in 1..n : \E k \in 1..n : order[k] = j
  <2>1. order \in [1..n -> 1..n]
    BY <1>1, <1>4
  <2>2. {order[k] : k \in DOMAIN order} = 1..n
    BY <1>1, <1>4 DEF ToSet
  <2> QED
    BY <2>1, <2>2
<1>7. \A j, k \in 1..n : order[j] = order[k] => j = k
  <2>1. order \in Surjection(1..n, 1..n)
    BY <1>6 DEF Surjection
  <2>2. order \in Injection(1..n, 1..n)
    BY <1>1, <2>1, FS_SurjSameCardinalityImpliesInj
  <2> QED
    BY <2>2 DEF Injection, IsInjective
<1> HIDE DEF places, Fits
<1>8. Sorted(list) = [k \in 1..n |-> list[order[k]]]
  BY <1>1, <1>5
<1>9. /\ \A k \in 1..n : order[k] \in 1..n /\ list[order[k]] \in S
      /\ \A k \in 1..n : Sorted(list)[k] = list[order[k]]
  BY <1>6, <1>8
<1>10. Sorted(list) \in [1..n -> S]
  BY <1>8, <1>9
<1>11. ASSUME NEW j \in 1..n, NEW k \in 1..n, Sorted(list)[j] = Sorted(list)[k]
       PROVE  j = k
  <2>1. list[order[j]] = list[order[k]]
    BY <1>9, <1>11
  <2>2. order[j] = order[k]
    BY <1>9, <2>1
  <2> QED
    BY <1>7, <2>2
<1>12. ASSUME NEW j \in 1..n
       PROVE  \E k \in 1..n : Sorted(list)[k] = list[j]
  <2>1. PICK k \in 1..n : order[k] = j
    BY <1>6
  <2> QED
    BY <1>9, <2>1
<1> QED
  BY <1>9, <1>10, <1>11, <1>12 DEF Reordered

\* A selection of one point of each cluster: sorted, it still has a point of
\* every cluster, and its file has as many rows.
SelectionOf(s, n, c) ==
  /\ Reordered(chosen[s], Sorted(chosen[s]), n, Lines)
  /\ DOMAIN Rows(s) = 1..n /\ Len(Rows(s)) = n /\ Len(chosen[s]) = n
  /\ \A k \in 1..n : Rows(s)[k] = <<Sorted(chosen[s])[k] + 1,
                                    Multiplier(s, Sorted(chosen[s])[k])>>

LEMMA SelectionIs ==
  ASSUME VectorInv, NEW s \in Kinds, NEW n, NEW c, ClustersAre(n, c)
  PROVE  SelectionOf(s, n, c)
<1> DEFINE list == chosen[s]
           t == Sorted(list)
<1>1. PICK m : LinesAre(m)
  BY LinesKnown
<1>2. /\ n \in Nat /\ list \in [1..n -> Lines]
      /\ \A k \in 1..n : c[list[k]] = k
  BY DEF ClustersAre, Stands
<1>3. Lines \in SUBSET Nat
  BY <1>1 DEF LinesAre
<1>4. \A j, k \in 1..n : list[j] = list[k] => j = k
  BY <1>2
<1> HIDE DEF list
<1>5. Reordered(list, t, n, Lines)
  BY <1>2, <1>3, <1>4, SortedIs
<1>6. DOMAIN t = 1..n
  BY <1>5 DEF Reordered
<1>7. Rows(s) = [k \in DOMAIN t |-> <<t[k] + 1, Multiplier(s, t[k])>>]
  BY Zenon DEF Rows, t, list
<1> HIDE DEF t
<1> DEFINE row(k) == <<t[k] + 1, Multiplier(s, t[k])>>
           R == {row(k) : k \in 1..n}
<1>8. Rows(s) \in [1..n -> R] /\ \A k \in 1..n : Rows(s)[k] = row(k)
  <2>1. Rows(s) = [k \in 1..n |-> row(k)]
    BY <1>6, <1>7
  <2> HIDE DEF row
  <2> QED
    BY <2>1
<1> HIDE DEF R
<1>9. DOMAIN Rows(s) = 1..n /\ Len(Rows(s)) = n /\ Len(list) = n
  BY <1>2, <1>8, Listed
<1> QED
  BY <1>5, <1>8, <1>9 DEF SelectionOf, t, list

\* The stages after the file of a kind of selection has been written.
Behind == [SP |-> {"EC", "EE", "finished"}, EC |-> {"EE", "finished"},
           EE |-> {"finished"}]

\* No file is touched before all factors have been computed, and a file that
\* has been written has all rows of its selection.
FileInv ==
  /\ ClusterInv
  /\ selectedBP \in [Kinds -> {selectedBP[s] : s \in Kinds}]
  /\ pc \in {"vectors", "combine", "cluster", "select", "SP", "raised"} =>
       \A s \in Kinds : ~selectedBP[s].new
  /\ pc \in Selecting => Lines # {}
  /\ pc \in Kinds \cup {"finished"} =>
       \A s \in Kinds : ~DividesByZero(s)
  /\ \A s \in Kinds : pc \in Behind[s] => selectedBP[s] = File(Rows(s))

LEMMA FileInit == Init => FileInv
BY ClusterInit DEF Init, FileInv, Kinds, Behind, Selecting

LEMMA FileStep == FileInv /\ [Next]_vars => FileInv'
<1> SUFFICES ASSUME FileInv, [Next]_vars PROVE FileInv'
  OBVIOUS
<1>1. ClusterInv'
  BY ClusterStep DEF FileInv
<1>2. ASSUME UNCHANGED <<combined, clustered>>
      PROVE  /\ Lines' = Lines
             /\ \A s \in Kinds : /\ Rows(s)' = Rows(s)
                                  /\ DividesByZero(s)' = DividesByZero(s)
  BY <1>2 DEF Rows, Multiplier, DividesByZero, Lines, combined, clustered
<1>3. ASSUME UNCHANGED <<combined, clustered>>, NEW s \in Kinds, pc = s,
             NEW rows, selectedBP' = [selectedBP EXCEPT ![s] = File(rows)],
             \/ pc' = "error"
             \/ pc' = After[s] /\ rows = Rows(s)
      PROVE  FileInv'
  <2>1. /\ selectedBP' \in [Kinds -> {selectedBP'[k] : k \in Kinds}]
        /\ selectedBP'[s] = File(rows)
        /\ \A k \in Kinds : k # s => selectedBP'[k] = selectedBP[k]
    BY <1>3 DEF FileInv
  <2>2. pc' \in Kinds \cup {"finished"} =>
          \A k \in Kinds : ~DividesByZero(k)'
    BY <1>2, <1>3 DEF FileInv
  <2>3. ASSUME NEW k \in Kinds, pc' \in Behind[k]
        PROVE  selectedBP'[k] = File(Rows(k)')
    <3>1. k = s \/ pc \in Behind[k]
      BY <1>3, <2>3 DEF Behind, After, Kinds
    <3>2. Rows(k)' = Rows(k) /\ (k = s => rows = Rows(k))
      BY <1>2, <1>3, <2>3 DEF Behind, Kinds
    <3> QED
      BY <2>1, <3>1, <3>2 DEF FileInv
  <2>4. pc' \in {"error", "EC", "EE", "finished"}
    BY <1>3 DEF After, Kinds
  <2>5. \A k \in Kinds : pc' \in Behind[k] =>
          selectedBP'[k] = (File(Rows(k)))'
    BY <2>3 DEF File
  <2> QED
    BY <1>1, <1>2, <1>3, <2>1, <2>2, <2>4, <2>5 DEF FileInv, Kinds, Selecting
<1>4. ASSUME selectedBP' = selectedBP, UNCHANGED <<combined, clustered>>,
             \/ pc' = pc
             \/ pc' = "error"
             \/ pc = "select" /\ pc' \in {"SP", "raised"}
             \/ pc = "cluster" /\ pc' = "raised"
             \/ pc = "vectors" /\ pc' = "combine",
             pc = "select" /\ pc' = "SP" => \A s \in Kinds : ~DividesByZero(s)
      PROVE  FileInv'
  <2>1. \A s \in Kinds : (File(Rows(s)))' = File(Rows(s))
    BY <1>2, <1>4 DEF File
  <2> QED
    BY <1>1, <1>2, <1>4, <2>1 DEF FileInv, Behind, Kinds, Selecting
<1>5. ASSUME selectedBP' = selectedBP,
             \/ pc = "combine" /\ pc' = "cluster"
             \/ pc = "cluster" /\ pc' = "select" /\ Lines' # {}
      PROVE  FileInv'
  BY <1>1, <1>5 DEF FileInv, Behind, Kinds, Selecting
<1>6. ASSUME NEW s \in Kinds, WriteSelected(s) \/ WriteFails(s)
      PROVE  FileInv'
  <2>1. CASE WriteSelected(s)
    BY <1>3, <2>1 DEF WriteSelected, Then
  <2>2. CASE WriteFails(s)
    <3>1. CASE selectedBP' = selectedBP
      BY <1>4, <2>2, <3>1 DEF WriteFails, Then, Kinds
    <3>2. CASE selectedBP' # selectedBP
      <4>1. PICK k : selectedBP' = [selectedBP EXCEPT
                                      ![s] = File(SubSeq(Rows(s), 1, k))]
        BY <2>2, <3>2 DEF WriteFails
      <4> QED
        BY <1>3, <2>2, <4>1 DEF WriteFails, Then
    <3> QED
      BY <3>1, <3>2
  <2> QED
    BY <1>6, <2>1, <2>2
<1>7. CASE Cluster \/ Combine
  BY <1>5, <1>7 DEF Cluster, Combine, Then, Lines, combined
<1>8. CASE Fails("vectors") \/ Fails("combine") \/ ClusterRaises
            \/ CreateVectors
  BY <1>4, <1>8 DEF Fails, ClusterRaises, CreateVectors, Then
<1>9. CASE Select
  BY <1>4, <1>9 DEF Select
<1>10. CASE UNCHANGED vars
  BY <1>4, <1>10 DEF vars
<1> QED
  BY <1>6, <1>7, <1>8, <1>9, <1>10 DEF Next, Ended

\* FilesAgree: an exception leaves no file, and an analysis that ends well
\* has written three that are as long as the list of simpoints
\* (DrAnalysis.py:523-668).
THEOREM FilesOfOneRun == Spec => []FilesAgree
<1>1. FileInv => FilesAgree
  <2> SUFFICES ASSUME FileInv PROVE FilesAgree
    OBVIOUS
  <2>1. pc = "raised" => \A s \in Kinds : ~selectedBP[s].new
    BY DEF FileInv
  <2>2. ASSUME pc = "finished", NEW s \in Kinds
        PROVE  /\ selectedBP[s].new
               /\ Len(selectedBP[s].rows) = Len(chosen.SP)
    <3>1. VectorInv /\ Clusters
      BY <2>2 DEF FileInv, ClusterInv, Selecting
    <3>2. PICK n, c : ClustersAre(n, c)
      BY <3>1 DEF Clusters
    <3>3. Len(Rows(s)) = n /\ Len(chosen["SP"]) = n
      BY <3>1, <3>2, SelectionIs DEF SelectionOf, Kinds
    <3>4. selectedBP[s] = File(Rows(s))
      BY <2>2 DEF FileInv, Behind, Kinds
    <3>5. selectedBP[s].new = TRUE /\ selectedBP[s].rows = Rows(s)
      BY <3>4 DEF File
    <3> QED
      BY <3>3, <3>5
  <2> QED
    BY <2>1, <2>2 DEF FilesAgree
<1> QED
  BY <1>1, FileInit, FileStep, PTL DEF Spec

----------------------------------------------------------------------------
(* The estimate.                                                           *)

\* What EstMetric reads: rows whose phase exists, was measured as own, and
\* stands for num / own times what it measured.
Readable(rows, x, n, num) ==
  /\ n \in Nat /\ Len(rows) = n /\ num \in [1..n -> Int]
  /\ Cardinality(DOMAIN x) \in Nat
  /\ \A k \in 1..n : /\ rows[k][1] \in Nat
                     /\ rows[k][1] <= Cardinality(DOMAIN x)
                     /\ x[rows[k][1]] \in Nat \ {0}
                     /\ rows[k][2][1] = num[k]
                     /\ rows[k][2][2] = x[rows[k][1]]

\* The values of the two loops of the estimate.
Multiplied(product, rows) ==
  product = [k \in 0..Len(rows) |->
               IF k = 0 THEN 1 ELSE product[k - 1] * rows[k][2][2]]
Summed(sum, rows, x, den) ==
  sum = [k \in 0..Len(rows) |->
           IF k = 0 THEN 0
           ELSE sum[k - 1] + Estimated(rows[k], x, den)]

\* There is a common denominator.
LEMMA DenominatorInt ==
  ASSUME NEW rows, NEW x, NEW n, NEW num, Readable(rows, x, n, num)
  PROVE  Denominator(rows) \in Int
<1> DEFINE step == [k \in 1..n |-> [v \in Int |-> v * rows[k][2][2]]]
<1>1. n \in Nat /\ Len(rows) = n /\ \A k \in 1..n : rows[k][2][2] \in Int
  BY DEF Readable
<1>2. step \in [1..n -> [Int -> Int]]
  <2>1. ASSUME NEW k \in 1..n
        PROVE  [v \in Int |-> v * rows[k][2][2]] \in [Int -> Int]
    BY <1>1
  <2> QED
    BY <2>1
<1>3. \A k \in 1..n : \A v \in Int : step[k][v] = v * rows[k][2][2]
  OBVIOUS
<1> HIDE DEF step
<1>4. PICK h : Turns(h, n, Int, 1, step)
  <2>1. IsLoop(n, Int, 1, step)
    BY <1>1, <1>2 DEF IsLoop
  <2> QED
    BY <2>1, Iterates
<1>5. Multiplied(h, rows)
  <2>1. ASSUME NEW k \in 0..n
        PROVE  h[k] = IF k = 0 THEN 1 ELSE h[k - 1] * rows[k][2][2]
    <3>1. CASE k = 0
      BY <1>4, <3>1 DEF Turns
    <3>2. CASE k # 0
      <4>1. k \in 1..n /\ k - 1 \in 0..n
        BY <1>1, <3>2
      <4> QED
        BY <1>3, <1>4, <3>2, <4>1 DEF Turns
    <3> QED
      BY <3>1, <3>2
  <2> QED
    BY <1>1, <1>4, <2>1 DEF Multiplied, Turns
<1> DEFINE product == CHOOSE p : Multiplied(p, rows)
<1>6. Multiplied(product, rows)
  BY <1>5
<1>7. Denominator(rows) = product[n]
  BY <1>1 DEF Denominator, Multiplied
<1> HIDE DEF product
<1> DEFINE T == {k \in 0..n : product[k] \in Int}
<1>8. 0 \in T
  BY <1>1, <1>6 DEF Multiplied
<1>9. ASSUME NEW k \in 0..(n - 1), k \in T
      PROVE  k + 1 \in T
  <2>1. /\ k + 1 \in 0..n /\ k + 1 \in 1..n /\ (k + 1) - 1 = k
        /\ k + 1 # 0
    BY <1>1
  <2>2. product[k + 1] = product[k] * rows[k + 1][2][2]
    BY <1>1, <1>6, <2>1 DEF Multiplied
  <2>3. product[k] \in Int /\ rows[k + 1][2][2] \in Int
    BY <1>1, <1>9, <2>1
  <2>4. product[k + 1] \in Int
    BY <2>2, <2>3
  <2> QED
    BY <2>1, <2>4
<1>10. n \in T
  <2> HIDE DEF T
  <2>1. \A k \in 0..n : k \in T
    BY <1>1, <1>8, <1>9, UpTo
  <2> QED
    BY <1>1, <2>1
<1> QED
  BY <1>7, <1>10

\* A row adds what it stands for: the division leaves no remainder.
LEMMA RowAdds ==
  ASSUME NEW rows, NEW x, NEW n, NEW num, Readable(rows, x, n, num),
         NEW den \in Int, NEW k \in 1..n
  PROVE  Estimated(rows[k], x, den) = num[k] * den
<1> DEFINE own == x[rows[k][1]]
           a == num[k]
<1>1. /\ own \in Nat \ {0} /\ a \in Int
      /\ ~(rows[k][1] > Cardinality(DOMAIN x))
      /\ rows[k][2][1] = a /\ rows[k][2][2] = own
  BY DEF Readable
<1>2. Estimated(rows[k], x, den) = (a * own * den) \div own
  BY <1>1 DEF Estimated
<1> HIDE DEF own, a
<1>3. a * own * den = (a * den) * own /\ a * den \in Int
  BY <1>1
<1>4. (a * own * den) \div own = a * den
  BY <1>1, <1>3, ExactQuotient
<1> QED
  BY <1>2, <1>4 DEF a

\* The rows stand for sets of lines that have nothing in common.
Shares(P, f, L, n, num) ==
  /\ IsFiniteSet(L) /\ f \in [L -> Int]
  /\ P \in [1..n -> SUBSET L]
  /\ \A j, k \in 1..n : j # k => P[j] \cap P[k] = {}
  /\ \A i \in L : \E k \in 1..n : i \in P[k]
  /\ \A k \in 1..n : num[k] = Total(Only(f, P[k]))

\* The estimate is the sum of what the rows stand for.
LEMMA EstMetricSums ==
  ASSUME NEW rows, NEW x, NEW n, NEW num, Readable(rows, x, n, num),
         NEW P, NEW f, NEW L, Shares(P, f, L, n, num), NEW den \in Int
  PROVE  EstMetric(rows, x, den) = den * Total(f)
<1> DEFINE step == [k \in 1..n |-> [v \in Int |-> v + num[k] * den]]
<1>1. /\ n \in Nat /\ Len(rows) = n
      /\ \A k \in 1..n : /\ num[k] \in Int /\ num[k] * den \in Int
                         /\ Estimated(rows[k], x, den) = num[k] * den
  <2>1. n \in Nat /\ Len(rows) = n /\ \A k \in 1..n : num[k] \in Int
    BY DEF Readable
  <2>2. \A k \in 1..n : num[k] * den \in Int
    BY <2>1
  <2>3. ASSUME NEW k \in 1..n
        PROVE  Estimated(rows[k], x, den) = num[k] * den
    BY RowAdds
  <2> QED
    BY <2>1, <2>2, <2>3
<1>2. step \in [1..n -> [Int -> Int]]
  <2>1. ASSUME NEW k \in 1..n
        PROVE  [v \in Int |-> v + num[k] * den] \in [Int -> Int]
    BY <1>1
  <2> QED
    BY <2>1
<1>3. \A k \in 1..n : \A v \in Int :
        step[k][v] = v + Estimated(rows[k], x, den)
  BY <1>1
<1> HIDE DEF step
<1>4. PICK h : Turns(h, n, Int, 0, step)
  <2>1. IsLoop(n, Int, 0, step)
    BY <1>1, <1>2 DEF IsLoop
  <2> QED
    BY <2>1, Iterates
<1>5. Summed(h, rows, x, den)
  <2>1. ASSUME NEW k \in 0..n
        PROVE  h[k] = IF k = 0 THEN 0
                      ELSE h[k - 1] + Estimated(rows[k], x, den)
    <3>1. CASE k = 0
      BY <1>4, <3>1 DEF Turns
    <3>2. CASE k # 0
      <4>1. k \in 1..n /\ k - 1 \in 0..n
        BY <1>1, <3>2
      <4> QED
        BY <1>3, <1>4, <3>2, <4>1 DEF Turns
    <3> QED
      BY <3>1, <3>2
  <2> QED
    BY <1>1, <1>4, <2>1 DEF Summed, Turns
<1> DEFINE sum == CHOOSE t : Summed(t, rows, x, den)
<1>6. Summed(sum, rows, x, den)
  BY <1>5
<1>7. EstMetric(rows, x, den) = sum[n]
  BY <1>1 DEF EstMetric, Summed
<1> HIDE DEF sum
<1> DEFINE upto(k) == {i \in L : \E j \in 1..k : i \in P[j]}
           T == {k \in 0..n : sum[k] = den * Total(Only(f, upto(k)))}
<1>8. /\ IsFiniteSet(L) /\ f \in [L -> Int] /\ P \in [1..n -> SUBSET L]
      /\ \A j, k \in 1..n : j # k => P[j] \cap P[k] = {}
      /\ \A i \in L : \E k \in 1..n : i \in P[k]
      /\ \A k \in 1..n : num[k] = Total(Only(f, P[k]))
  BY DEF Shares
<1>9. ASSUME NEW R \in SUBSET L
      PROVE  Total(Only(f, R)) \in Int /\ (R = {} => Total(Only(f, R)) = 0)
  <2>1. IsFiniteSet(R) /\ Only(f, R) \in [R -> Int]
    BY <1>8, FS_Subset DEF Only
  <2>2. TotalSplits(Only(f, R), R)
    BY <2>1, TotalMore
  <2> QED
    BY <2>2 DEF TotalSplits
<1>10. 0 \in T
  <2>1. upto(0) = {} /\ 0 \in 0..n
    BY <1>1
  <2>2. sum[0] = 0
    BY <1>1, <1>6, <2>1 DEF Summed
  <2>3. Total(Only(f, upto(0))) = 0
    BY <1>9, <2>1
  <2> HIDE DEF upto
  <2>4. den * Total(Only(f, upto(0))) = 0
    BY <2>3
  <2> QED
    BY <2>1, <2>2, <2>4
<1>11. ASSUME NEW k \in 0..(n - 1), k \in T
       PROVE  k + 1 \in T
  <2>1. /\ k + 1 \in 0..n /\ k + 1 \in 1..n /\ (k + 1) - 1 = k
        /\ k + 1 # 0 /\ k \in 0..n
    BY <1>1
  <2>2. sum[k + 1] = sum[k] + num[k + 1] * den
    <3>1. sum[k + 1] = sum[k] + Estimated(rows[k + 1], x, den)
      <4> HIDE DEF T
      <4> QED
        BY <1>1, <1>6, <2>1 DEF Summed
    <3> QED
      BY <1>1, <2>1, <3>1
  <2>3. sum[k] = den * Total(Only(f, upto(k)))
    BY <1>11
  <2>4. upto(k + 1) = upto(k) \cup P[k + 1]
    <3>1. \A j : j \in 1..(k + 1) <=> j \in 1..k \/ j = k + 1
      BY <2>1
    <3>2. P[k + 1] \in SUBSET L
      BY <1>8, <2>1
    <3> QED
      BY <3>1, <3>2
  <2>5. upto(k) \cap P[k + 1] = {}
    <3>1. \A j \in 1..k : j \in 1..n /\ j # k + 1
      BY <1>1, <2>1
    <3> QED
      BY <1>8, <2>1, <3>1
  <2>6. upto(k) \in SUBSET L /\ P[k + 1] \in SUBSET L
    BY <1>8, <2>1
  <2> HIDE DEF upto
  <2>7. Total(Only(f, upto(k + 1))) =
          Total(Only(f, upto(k))) + Total(Only(f, P[k + 1]))
    BY <1>8, <2>4, <2>5, <2>6, TotalJoins
  <2> DEFINE a == Total(Only(f, upto(k)))
             b == Total(Only(f, P[k + 1]))
  <2>8. a \in Int /\ b \in Int /\ num[k + 1] = b
    BY <1>8, <1>9, <2>1, <2>6
  <2>9. sum[k + 1] = den * a + b * den
    BY <2>2, <2>3, <2>8
  <2> HIDE DEF a, b
  <2>10. den * a + b * den = den * (a + b)
    BY <2>8
  <2>11. sum[k + 1] = den * Total(Only(f, upto(k + 1)))
    BY <2>7, <2>9, <2>10 DEF a, b
  <2> QED
    BY <2>1, <2>11
<1>12. n \in T
  <2> HIDE DEF T
  <2>1. \A k \in 0..n : k \in T
    BY <1>1, <1>10, <1>11, UpTo
  <2> QED
    BY <1>1, <2>1
<1>13. upto(n) = L
  BY <1>1, <1>8
<1>14. Only(f, L) = f
  BY <1>8 DEF Only
<1>15. sum[n] = den * Total(Only(f, upto(n)))
  BY <1>12
<1> HIDE DEF upto
<1> QED
  BY <1>7, <1>13, <1>14, <1>15

\* What a row of a selection stands for: the lines of its cluster, whose
\* instructions are the numerator of its multiplier.
MembersOf(s, n, c) ==
  [k \in 1..n |-> ClusterOf(BBMap[s], Sorted(chosen[s])[k])]
Numerators(s, n, c) ==
  [k \in 1..n |-> Total(Only(ins_per_phase, MembersOf(s, n, c)[k]))]

LEMMA RowsStand ==
  ASSUME VectorInv, NEW s \in Kinds, NEW n, NEW c, ClustersAre(n, c),
         ~DividesByZero(s)
  PROVE  /\ Shares(MembersOf(s, n, c), ins_per_phase, Lines, n,
                   Numerators(s, n, c))
         /\ Numerators(s, n, c) \in [1..n -> Int]
         /\ \A k \in 1..n :
              /\ Sorted(chosen[s])[k] \in Lines
              /\ ins_per_phase[Sorted(chosen[s])[k]] \in Nat \ {0}
              /\ Multiplier(s, Sorted(chosen[s])[k]) =
                   <<Numerators(s, n, c)[k],
                     ins_per_phase[Sorted(chosen[s])[k]]>>
<1> DEFINE list == chosen[s]
           t == Sorted(list)
           map == BBMap[s]
           P == MembersOf(s, n, c)
           num == Numerators(s, n, c)
           ins == ins_per_phase
<1>1. PICK m : LinesAre(m)
  BY LinesKnown
<1>2. /\ n \in Nat /\ c \in [Lines -> 1..n] /\ list \in [1..n -> Lines]
      /\ map = [i \in Lines |-> list[c[i]]]
      /\ \A k \in 1..n : c[list[k]] = k
  BY DEF ClustersAre, Stands
<1>3. Reordered(list, t, n, Lines)
  BY SelectionIs DEF SelectionOf
<1>4. /\ IsFiniteSet(Lines) /\ ins \in [Lines -> Nat]
      /\ ins \in [Lines -> Int]
  BY <1>1 DEF LinesAre
<1>5. /\ t \in [1..n -> Lines]
      /\ \A k \in 1..n : \E j \in 1..n : list[j] = t[k]
      /\ \A j \in 1..n : \E k \in 1..n : t[k] = list[j]
      /\ \A j, k \in 1..n : t[j] = t[k] => j = k
  BY <1>3 DEF Reordered
<1> HIDE DEF t
<1>6. ASSUME NEW k \in 1..n
      PROVE  P[k] = {i \in Lines : list[c[i]] = t[k]}
  BY <1>2 DEF MembersOf, ClusterOf, t
<1>7. P \in [1..n -> SUBSET Lines]
  <2>1. P = [k \in 1..n |-> ClusterOf(map, t[k])]
    BY DEF MembersOf, t
  <2>2. \A k \in 1..n : ClusterOf(map, t[k]) \in SUBSET Lines
    BY <1>2 DEF ClusterOf
  <2> QED
    BY <2>1, <2>2
<1>8. num = [k \in 1..n |-> Total(Only(ins, P[k]))]
  BY DEF Numerators
<1> HIDE DEF list, map, P, num
<1>9. ASSUME NEW R \in SUBSET Lines
      PROVE  Total(Only(ins, R)) \in Int
  <2>1. IsFiniteSet(R) /\ Only(ins, R) \in [R -> Int]
    BY <1>4, FS_Subset DEF Only
  <2> QED
    BY <2>1, TotalMore DEF TotalSplits
<1>10. num \in [1..n -> Int] /\ \A k \in 1..n : num[k] = Total(Only(ins, P[k]))
  BY <1>7, <1>8, <1>9
<1>11. ASSUME NEW j \in 1..n, NEW k \in 1..n, j # k
       PROVE  P[j] \cap P[k] = {}
  <2>1. t[j] # t[k]
    BY <1>5, <1>11
  <2>2. \A i \in P[j] : list[c[i]] = t[j]
    BY <1>6
  <2>3. \A i \in P[k] : list[c[i]] = t[k]
    BY <1>6
  <2> QED
    BY <2>1, <2>2, <2>3
<1>12. \A i \in Lines : \E k \in 1..n : i \in P[k]
  <2> SUFFICES ASSUME NEW i \in Lines PROVE \E k \in 1..n : i \in P[k]
    OBVIOUS
  <2>1. c[i] \in 1..n
    BY <1>2
  <2>2. PICK k \in 1..n : t[k] = list[c[i]]
    BY <1>5, <2>1
  <2> QED
    BY <1>6, <2>2
<1>13. Shares(P, ins, Lines, n, num)
  BY <1>4, <1>7, <1>10, <1>11, <1>12 DEF Shares
<1>14. ASSUME NEW k \in 1..n
       PROVE  /\ t[k] \in Lines /\ ins[t[k]] \in Nat \ {0}
              /\ Multiplier(s, t[k]) = <<num[k], ins[t[k]]>>
  <2>1. t[k] \in Lines
    BY <1>5
  <2>2. map[t[k]] = t[k]
    <3>1. PICK j \in 1..n : list[j] = t[k]
      BY <1>5
    <3>2. c[t[k]] = j
      BY <1>2, <3>1
    <3> QED
      BY <1>2, <2>1, <3>1, <3>2
  <2>3. ins[t[k]] \in Nat \ {0}
    BY <1>4, <2>1, <2>2 DEF DividesByZero, map
  <2> DEFINE own == ins[t[k]]
  <2>4. \A i \in P[k] : own + (ins[i] - own) = ins[i]
    <3>1. \A i \in P[k] : ins[i] \in Int
      BY <1>4, <1>7
    <3>2. own \in Int
      BY <2>3
    <3> HIDE DEF own
    <3> QED
      BY <3>1, <3>2
  <2>5. ClusterOf(map, t[k]) = P[k]
    BY DEF P, MembersOf, map, t, list
  <2>6. Multiplier(s, t[k]) =
          <<SumOf([i \in ClusterOf(map, t[k]) |-> own + (ins[i] - own)]), own>>
    BY DEF Multiplier, map
  <2>7. [i \in P[k] |-> own + (ins[i] - own)] = Only(ins, P[k])
    BY <2>4 DEF Only
  <2>8. \A f : SumOf(f) = Total(f)
    BY DEF SumOf, Total
  <2>9. Multiplier(s, t[k]) = <<Total(Only(ins, P[k])), own>>
    BY <2>5, <2>6, <2>7, <2>8
  <2> QED
    BY <1>10, <2>1, <2>3, <2>9
<1> QED
  BY <1>10, <1>13, <1>14 DEF P, num, t, list

\* The instructions of the lines are those of the regions but the first.
LEMMA AllButFirst ==
  ASSUME VectorInv, Lines # {},
         NEW x, x = [i \in DOMAIN regions |-> regions[i].ins]
  PROVE  /\ SumOf(x) - x[0] = Total(ins_per_phase)
         /\ Total(ins_per_phase) \in Int
<1>1. PICK m : LinesAre(m)
  BY LinesKnown
<1>2. /\ m \in Nat /\ Lines = 0..(m - 1) /\ IsFiniteSet(Lines)
      /\ ins_per_phase \in [Lines -> Int]
      /\ DOMAIN regions = 0..m
      /\ \A i \in Lines : ins_per_phase[i] = regions[i + 1].ins
  BY <1>1 DEF LinesAre
<1>3. \A i \in DOMAIN regions : regions[i].ins \in Int
  <2>1. \A i \in DOMAIN regions : regions[i] \in Profiles
    BY DEF VectorInv
  <2> QED
    BY <2>1, ProfileAssumption
<1>4. x \in [0..m -> Int] /\ \A i \in 0..m : x[i] = regions[i].ins
  BY <1>2, <1>3
<1>5. 0 \in 0..m /\ IsFiniteSet(0..m) /\ (0..m) \ {0} = 1..m
  <2>1. 0 \in 0..m /\ (0..m) \ {0} = 1..m
    BY <1>2
  <2>2. IsFiniteSet(0..m)
    BY <1>2, FS_Interval
  <2> QED
    BY <2>1, <2>2
<1>6. TotalSplits(x, 0..m)
  BY <1>4, <1>5, TotalMore
<1> DEFINE rest == Without(x, 0)
           name == [i \in Lines |-> i + 1]
<1>7. /\ Total(x) \in Int /\ Total(x) = x[0] + Total(rest)
      /\ rest \in [1..m -> Int]
  BY <1>5, <1>6 DEF TotalSplits
<1>8. \A i \in 1..m : rest[i] = regions[i].ins
  BY <1>4, <1>5 DEF Without
<1>9. \A i \in Lines : i + 1 \in 1..m /\ name[i] = i + 1
  BY <1>2
<1>10. /\ name \in [Lines -> 1..m]
       /\ \A j \in 1..m : \E i \in Lines : name[i] = j
       /\ \A i, j \in Lines : name[i] = name[j] => i = j
  <2>1. name \in [Lines -> 1..m]
    BY <1>9
  <2>2. ASSUME NEW j \in 1..m PROVE \E i \in Lines : name[i] = j
    <3>1. j - 1 \in Lines /\ (j - 1) + 1 = j
      BY <1>2
    <3> QED
      BY <1>9, <3>1
  <2>3. ASSUME NEW i \in Lines, NEW j \in Lines, name[i] = name[j]
        PROVE  i = j
    BY <1>2, <1>9, <2>3
  <2> QED
    BY <2>1, <2>2, <2>3
<1> HIDE DEF rest, name
<1>11. Total([i \in Lines |-> rest[name[i]]]) = Total(rest)
  <2> DEFINE L == Lines
             T == 1..m
  <2>1. /\ IsFiniteSet(L) /\ rest \in [T -> Int] /\ name \in [L -> T]
        /\ \A j \in T : \E i \in L : name[i] = j
        /\ \A i, j \in L : name[i] = name[j] => i = j
    BY <1>2, <1>7, <1>10
  <2> HIDE DEF L, T
  <2>2. Total([i \in L |-> rest[name[i]]]) = Total(rest)
    BY <2>1, TotalMoves
  <2> QED
    BY <2>2 DEF L
<1>12. [i \in Lines |-> rest[name[i]]] = ins_per_phase
  <2>1. \A i \in Lines : rest[name[i]] = ins_per_phase[i]
    BY <1>2, <1>8, <1>9
  <2> QED
    BY <1>2, <2>1
<1>13. SumOf(x) = Total(x)
  BY DEF SumOf, Total
<1>14. TotalSplits(ins_per_phase, Lines)
  BY <1>2, TotalMore
<1>15. Total(ins_per_phase) \in Int /\ x[0] \in Int
  BY <1>4, <1>5, <1>14 DEF TotalSplits
<1> QED
  BY <1>7, <1>11, <1>12, <1>13, <1>15

\* Rebuilt: whatever SimPoint answers and whichever of the three selections
\* is used, the measured instructions of the selected phases, times the
\* multipliers, are those of the regions after the first
\* (DrAnalysis.py:523-668, errorEstimate.py:141-193).
THEOREM RebuiltExactly == Spec => []Rebuilt
<1>1. FileInv => Rebuilt
  <2> SUFFICES ASSUME FileInv, pc = "finished", NEW s \in Kinds,
                      NEW x, x = [i \in DOMAIN regions |-> regions[i].ins],
                      NEW rows, rows = selectedBP[s].rows
               PROVE  EstMetric(rows, x, Denominator(rows)) =
                        (SumOf(x) - x[0]) * Denominator(rows)
    BY Zenon DEF Rebuilt
  <2>1. /\ VectorInv /\ Clusters /\ Lines # {} /\ ~DividesByZero(s)
        /\ selectedBP[s] = File(Rows(s))
    BY DEF FileInv, ClusterInv, Selecting, Behind, Kinds
  <2>2. rows = Rows(s)
    BY <2>1 DEF File
  <2>3. PICK n, c : ClustersAre(n, c)
    BY <2>1 DEF Clusters
  <2> DEFINE t == Sorted(chosen[s])
             num == Numerators(s, n, c)
             den == Denominator(rows)
  <2>4. /\ n \in Nat /\ Len(rows) = n
        /\ \A k \in 1..n : rows[k] = <<t[k] + 1, Multiplier(s, t[k])>>
    BY <2>1, <2>2, <2>3, SelectionIs DEF SelectionOf, ClustersAre
  <2>5. /\ Shares(MembersOf(s, n, c), ins_per_phase, Lines, n, num)
        /\ num \in [1..n -> Int]
        /\ \A k \in 1..n : /\ t[k] \in Lines
                           /\ ins_per_phase[t[k]] \in Nat \ {0}
                           /\ Multiplier(s, t[k]) =
                                <<num[k], ins_per_phase[t[k]]>>
    BY <2>1, <2>3, RowsStand
  <2> HIDE DEF t, num
  <2>6. PICK m : LinesAre(m)
    BY <2>1, LinesKnown
  <2>7. /\ m \in Nat /\ Lines = 0..(m - 1) /\ DOMAIN x = 0..m
        /\ Cardinality(DOMAIN x) = m + 1
        /\ \A i \in Lines : x[i + 1] = ins_per_phase[i]
    BY <2>1, <2>6 DEF LinesAre
  <2>8. ASSUME NEW k \in 1..n
        PROVE  /\ rows[k][1] = t[k] + 1 /\ rows[k][1] \in Nat
               /\ rows[k][1] <= m + 1
               /\ x[rows[k][1]] = ins_per_phase[t[k]]
               /\ rows[k][2][1] = num[k]
               /\ rows[k][2][2] = ins_per_phase[t[k]]
    <3>1. /\ rows[k][1] = t[k] + 1 /\ rows[k][2][1] = num[k]
          /\ rows[k][2][2] = ins_per_phase[t[k]]
      BY <2>4, <2>5
    <3>2. t[k] \in 0..(m - 1) /\ x[t[k] + 1] = ins_per_phase[t[k]]
      BY <2>5, <2>7
    <3> QED
      BY <2>7, <3>1, <3>2
  <2>9. Readable(rows, x, n, num)
    <3>1. Cardinality(DOMAIN x) = m + 1 /\ m + 1 \in Nat
      BY <2>7
    <3>2. ASSUME NEW k \in 1..n
          PROVE  /\ rows[k][1] \in Nat
                 /\ rows[k][1] <= Cardinality(DOMAIN x)
                 /\ x[rows[k][1]] \in Nat \ {0}
                 /\ rows[k][2][1] = num[k]
                 /\ rows[k][2][2] = x[rows[k][1]]
      BY <2>5, <2>8, <3>1
    <3> QED
      BY <2>4, <2>5, <3>1, <3>2 DEF Readable
  <2>10. den \in Int
    BY <2>9, DenominatorInt
  <2> HIDE DEF den
  <2>11. EstMetric(rows, x, den) = den * Total(ins_per_phase)
    BY <2>5, <2>9, <2>10, EstMetricSums
  <2>12. /\ SumOf(x) - x[0] = Total(ins_per_phase)
         /\ Total(ins_per_phase) \in Int
    BY <2>1, AllButFirst
  <2>13. den * Total(ins_per_phase) = Total(ins_per_phase) * den
    BY <2>10, <2>12
  <2> QED
    BY <2>11, <2>12, <2>13 DEF den
<1> QED
  BY <1>1, FileInit, FileStep, PTL DEF Spec
============================================================================
