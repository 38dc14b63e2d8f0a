----------------------------- MODULE Selection -----------------------------
(* BarrierPoints.CreateBarrierPoints (DrAnalysis.py), for one execution of   *)
(* one application: run the client, combine its vectors, have SimPoint       *)
(* cluster them, and write the selected barrier points with the multipliers  *)
(* by which errorEstimate.py rebuilds the whole from them.                   *)
(*                                                                           *)
(* Four numberings meet here: the regions of the client and the phases of    *)
(* the performance counters, both from 0; the lines of the vectors without   *)
(* the first, again from 0; and the barrier points of the selection.         *)
(*                                                                           *)
(* SimPoint is external: it numbers its clusters, gives every vector a       *)
(* label and a distance from the centre, and names a member of each cluster. *)
(* A multiplier is an exact fraction <<numerator, denominator>>.             *)
EXTENDS Integers, Sequences, FiniteSets, SequencesExt, FiniteSetsExt

CONSTANTS
    Profiles,     \* what the client may find in a region: [ins, ldv, bbv]
    Distances,    \* from a vector to the centre of its cluster
    IdLists,      \* the ids that SimPoint may give its clusters
    MaxRegions    \* bound: regions of one execution

ASSUME ProfileAssumption ==
    \A p \in Profiles :
        /\ p.ins \in Nat
        /\ \A v \in {p.ldv, p.bbv} : /\ IsFiniteSet(DOMAIN v)
                                     /\ DOMAIN v \subseteq Nat \ {0}
                                     /\ v \in [DOMAIN v -> Nat]
ASSUME IdAssumption ==
    \A l \in IdLists : l \in Seq(Nat) /\ IsInjective(l)
ASSUME DistanceAssumption == Distances \subseteq Nat
ASSUME RegionAssumption == MaxRegions \in Nat \ {0}

VARIABLES
    regions,        \* what the client counts, by region, from 0
    vectors,        \* are the files of the client in the output folder?
    pc,             \* the stage that runs next, or how the analysis ended
    ins_per_phase,
    BP,             \* the combined vectors, a set of <<id, num, den>> a line
    labels, match,  \* SPData, by line
    chosen,         \* SPData: simpoints, simpointsEC and simpointsEE
    BBMap,          \* SimPointBBMap, _EC and _EE
    selectedBP      \* the three files: are they of this execution? the rows

combined  == <<ins_per_phase, BP>>
clustered == <<labels, match, chosen, BBMap>>
vars == <<regions, vectors, pc, combined, clustered, selectedBP>>

(* The simpoints themselves, and the two alternatives that come earlier.     *)
Kinds == {"SP", "EC", "EE"}
Lines == DOMAIN ins_per_phase
SumOf(f) == MapThenSumSet(LAMBDA x : f[x], DOMAIN f)
Then(from, to) == pc = from /\ pc' = to

Init ==
    /\ \E n \in 1 .. MaxRegions : regions \in [0 .. n - 1 -> Profiles]
    /\ vectors \in BOOLEAN
    /\ pc = "vectors"
    /\ ins_per_phase = <<>> /\ BP = <<>>
    /\ labels = <<>> /\ match = <<>>
    /\ chosen = [s \in Kinds |-> <<>>]
    /\ BBMap = [s \in Kinds |-> <<>>]
    /\ selectedBP = [s \in Kinds |-> [new |-> FALSE, rows |-> <<>>]]

(* A stage that logs an error and returns False ends the analysis.           *)
Fails(stage) ==
    /\ Then(stage, "error")
    /\ UNCHANGED <<regions, vectors, combined, clustered, selectedBP>>

-----------------------------------------------------------------------------
(* A dry run does not execute the client and takes the files as they are.    *)
CreateVectors ==
    /\ Then("vectors", "combine")
    /\ vectors' \in {vectors, TRUE}
    /\ UNCHANGED <<regions, combined, clustered, selectedBP>>

(* The lines a reader sees after its first readline(): region i + 1.         *)
SkipFirst == [i \in 0 .. Cardinality(DOMAIN regions) - 2 |-> regions[i + 1]]

(* The shift of the ids of blocks, behind those of reuse distances.          *)
BbmaxFromSecond(lines) ==                    \* faulty: the first is forgotten
    Max({0} \cup UNION {DOMAIN lines[i].ldv : i \in DOMAIN lines \ {0}})
Bbmax(lines) ==
    Max({0} \cup UNION {DOMAIN lines[i].ldv : i \in DOMAIN lines})

(* "Ponderate the reuse distances with the number of instructions executed". *)
Weighted(line) ==
    {<<d, line.ldv[d] * line.ins, SumOf(line.ldv)>> : d \in DOMAIN line.ldv}

Combine ==
    /\ Then("combine", "cluster")
    /\ vectors
    /\ LET lines == SkipFirst
           blocks(line) == {<<b + Bbmax(lines), line.bbv[b], 1>> :
                               b \in DOMAIN line.bbv}
       IN  /\ ins_per_phase' = [i \in DOMAIN lines |-> lines[i].ins]
           /\ BP' = [i \in DOMAIN lines |->
                        Weighted(lines[i]) \cup blocks(lines[i])]
    /\ UNCHANGED <<regions, vectors, clustered, selectedBP>>

-----------------------------------------------------------------------------
(* The members of sp's cluster that are not after sp, and are as close to    *)
(* the centre as sp, give or take 5% of the longest distance in the cluster. *)
ClusterOf(map, sp) == {j \in DOMAIN map : map[j] = sp}
CloserAnywhere(map, dist, sp) ==             \* faulty: jj <= sp is missing
    LET cluster == ClusterOf(map, sp)
        longest == Max({dist[j] : j \in cluster})
    IN  {j \in cluster : 20 * dist[j] <= 20 * dist[sp] + longest}
Closer(map, dist, sp) ==
    LET cluster == ClusterOf(map, sp)
        longest == Max({dist[j] : j \in cluster})
    IN  {j \in cluster : 20 * dist[j] <= 20 * dist[sp] + longest /\ j <= sp}

(* The reduce() keeps the later of two that are equally close.               *)
ClosestFromOne(near, dist) ==                \* faulty: counted from 1
    1 + Max({j \in near : \A i \in near : dist[j] <= dist[i]})
Closest(near, dist) == Max({j \in near : \A i \in near : dist[j] <= dist[i]})

(* The copy of SimPointBBMap that a loop over the clusters rewrites.         *)
Remapped(map, from, to) ==
    LET turn[k \in 0 .. Len(from)] ==
            IF k = 0 THEN map
            ELSE [i \in DOMAIN map |-> IF turn[k - 1][i] = from[k]
                                      THEN to[k] ELSE turn[k - 1][i]]
    IN  turn[Len(from)]

(* SimPoint: every cluster has a member, and its simpoint is one of them.    *)
Clustering(ids, label, simpoints) ==
    /\ ToSet(ids) = {label[i] : i \in Lines}
    /\ \A k \in DOMAIN ids : label[simpoints[k]] = ids[k]

(* The list of simpoints is looked up through id2index: SimPoint's ids need  *)
(* not be consecutive.                                                       *)
MapOf(ids, label, simpoints) ==
    LET id2index(d) == CHOOSE k \in DOMAIN ids : ids[k] = d
    IN  [i \in DOMAIN label |-> simpoints[id2index(label[i])]]

Cluster ==
    /\ Then("cluster", "select")
    /\ Lines # {}
    /\ labels' \in [Lines -> UNION {ToSet(l) : l \in IdLists}]
    /\ match' \in [Lines -> Distances]
    /\ \E ids \in IdLists : \E sp \in [DOMAIN ids -> Lines] :
          /\ Clustering(ids, labels', sp)
          /\ LET map == MapOf(ids, labels', sp)
                 near(k) == Closer(map, match', sp[k])
                 ec == [k \in DOMAIN sp |-> Closest(near(k), match')]
                 ee == [k \in DOMAIN sp |-> Min(near(k))]
             IN  /\ chosen' = [SP |-> sp, EC |-> ec, EE |-> ee]
                 /\ BBMap' = [SP |-> map,
                              EC |-> Remapped(map, sp, ec),
                              EE |-> Remapped(map, sp, ee)]
    /\ UNCHANGED <<regions, vectors, combined, selectedBP>>

(* SimPoint fails, or its files are not as expected.  The constructor of     *)
(* SimPoints logs it and returns; its caller then looks for data that is not *)
(* there, and the exception is not caught.                                   *)
ClusterRaises ==
    /\ Then("cluster", "raised")
    /\ UNCHANGED <<regions, vectors, combined, clustered, selectedBP>>

-----------------------------------------------------------------------------
(* bp_to_scaling[sp]: one plus the relative difference, over those it stands *)
(* for.                                                                      *)
Multiplier(s, sp) ==
    LET own == ins_per_phase[sp]
    IN  <<SumOf([i \in ClusterOf(BBMap[s], sp) |->
                    own + (ins_per_phase[i] - own)]), own>>

(* sorted(list).                                                             *)
Sorted(list) ==
    LET places == DOMAIN list
        order == CHOOSE p \in [places -> places] :
                     /\ ToSet(p) = places
                     /\ \A j, k \in places : j < k => list[p[j]] <= list[p[k]]
    IN  [k \in places |-> list[order[k]]]

RowsFromZero(s) ==                           \* faulty: sp instead of sp + 1
    LET sorted == Sorted(chosen[s])
    IN  [k \in DOMAIN sorted |-> <<sorted[k], Multiplier(s, sorted[k])>>]
Rows(s) ==
    LET sorted == Sorted(chosen[s])
    IN  [k \in DOMAIN sorted |-> <<sorted[k] + 1, Multiplier(s, sorted[k])>>]

File(rows) == [new |-> TRUE, rows |-> rows]

DividesByZero(s) == \E i \in Lines : ins_per_phase[BBMap[s][i]] = 0

(* Faulty: the first file is written before the factors of the others.       *)
SelectWritesFirst ==
    /\ pc = "select"
    /\ IF DividesByZero("SP")
       THEN pc' = "raised" /\ UNCHANGED selectedBP
       ELSE /\ pc' = IF DividesByZero("EC") \/ DividesByZero("EE")
                     THEN "raised" ELSE "EC"
            /\ selectedBP' = [selectedBP EXCEPT !["SP"] = File(Rows("SP"))]
    /\ UNCHANGED <<regions, vectors, combined, clustered>>

(* The scaling factors of the three kinds are computed before any file is    *)
(* opened; a representative that executes nothing raises ZeroDivisionError.  *)
Select ==
    /\ pc = "select"
    /\ pc' = IF \E s \in Kinds : DividesByZero(s) THEN "raised" ELSE "SP"
    /\ UNCHANGED <<regions, vectors, combined, clustered, selectedBP>>

After == [SP |-> "EC", EC |-> "EE", EE |-> "finished"]

WriteSelected(s) ==
    /\ Then(s, After[s])
    /\ selectedBP' = [selectedBP EXCEPT ![s] = File(Rows(s))]
    /\ UNCHANGED <<regions, vectors, combined, clustered>>

(* The file cannot be opened, or not all of it can be written.               *)
WriteFails(s) ==
    /\ Then(s, "error")
    /\ \/ UNCHANGED selectedBP
       \/ \E k \in 0 .. Len(Rows(s)) - 1 :
             selectedBP' = [selectedBP EXCEPT
                               ![s] = File(SubSeq(Rows(s), 1, k))]
    /\ UNCHANGED <<regions, vectors, combined, clustered>>

Ended == pc \in {"finished", "error", "raised"} /\ UNCHANGED vars

Next ==
    \/ CreateVectors \/ Fails("vectors")
    \/ Combine \/ Fails("combine")
    \/ Cluster \/ ClusterRaises
    \/ Select
    \/ \E s \in Kinds : WriteSelected(s) \/ WriteFails(s)
    \/ Ended

Spec == Init /\ [][Next]_vars

-----------------------------------------------------------------------------
(* errorEstimate.EstMetric: the sum over the rows of a multiplier times what *)
(* was measured in that phase, here over the common denominator den.  The    *)
(* rows beyond the phases are left out; phase x is x[0], x[1], ...           *)
Denominator(rows) ==
    LET product[k \in 0 .. Len(rows)] ==
            IF k = 0 THEN 1 ELSE product[k - 1] * rows[k][2][2]
    IN  product[Len(rows)]
Estimated(row, x, den) ==
    IF row[1] > Cardinality(DOMAIN x) THEN 0
    ELSE (row[2][1] * x[row[1]] * den) \div row[2][2]
EstMetric(rows, x, den) ==
    LET sum[k \in 0 .. Len(rows)] ==
            IF k = 0 THEN 0 ELSE sum[k - 1] + Estimated(rows[k], x, den)
    IN  sum[Len(rows)]

-----------------------------------------------------------------------------
(* Properties.                                                               *)

TypeOK ==
    /\ vectors \in BOOLEAN
    /\ pc \in Kinds \cup {"vectors", "combine", "cluster", "select",
                          "finished", "error", "raised"}
    /\ \A i \in Lines : ins_per_phase[i] \in Nat
    /\ \A i \in Lines : BP[i] \subseteq Nat \X Nat \X Nat
    /\ \A s \in Kinds : BBMap[s] # <<>> => BBMap[s] \in [Lines -> Lines]
    /\ \A s \in Kinds : ToSet(chosen[s]) \subseteq Lines

(* The instructions that the counters measure in the selected phases, times  *)
(* the multipliers, are those of all regions but the first, which            *)
(* AnalysisSimPoints says is skipped: the shift by one, the ids of clusters, *)
(* the two rewritten maps and the sums per cluster have to agree, and so     *)
(* does the reader that counts phases from 0 (EstMetric).                    *)
Rebuilt ==
    pc = "finished" => \A s \in Kinds :
        LET x == [i \in DOMAIN regions |-> regions[i].ins]
            rows == selectedBP[s].rows
            den == Denominator(rows)
        IN  EstMetric(rows, x, den) = (SumOf(x) - x[0]) * den

(* The vector of a line can be taken apart again: no id of a block is the id *)
(* of a reuse distance, on any line, none is lost, and the reuse distances   *)
(* weigh as much as the instructions of the region (__CombineBBVsandLDVs).   *)
Fingerprint ==
    LET ldv(i) == {e \in BP[i] : e[1] \in UNION {DOMAIN regions[j].ldv :
                                     j \in DOMAIN regions \ {0}}}
        r(i) == regions[i + 1]
    IN  \A i \in Lines :
           /\ Cardinality({e[1] : e \in ldv(i)}) = Cardinality(DOMAIN r(i).ldv)
           /\ Cardinality({e[1] : e \in BP[i] \ ldv(i)}) =
                  Cardinality(DOMAIN r(i).bbv)
           /\ \A e \in ldv(i) :
                 SumOf([u \in ldv(i) |-> u[2]]) = r(i).ins * e[3]

(* An alternative is a member of the same cluster and never later than the   *)
(* simpoint; none is after a closer one ("the ones that are before"), and    *)
(* the earliest is not after the closest.                                    *)
Alternatives ==
    \A k \in DOMAIN chosen.SP :
        LET sp == chosen.SP[k]
            ec == chosen.EC[k]
            ee == chosen.EE[k]
        IN  /\ labels[ec] = labels[sp] /\ labels[ee] = labels[sp]
            /\ ee <= ec /\ ec <= sp
            /\ match[ec] <= match[ee] /\ match[ec] <= match[sp]
            /\ \A j \in 0 .. ee - 1 :
                  labels[j] = labels[sp] => match[j] > match[sp]

(* Unless an error has been returned, the three files are of one execution:  *)
(* an exception comes before any of them has been touched.                   *)
FilesAgree ==
    /\ pc = "raised" => \A s \in Kinds : ~selectedBP[s].new
    /\ pc = "finished" => \A s \in Kinds :
          /\ selectedBP[s].new
          /\ Len(selectedBP[s].rows) = Len(chosen.SP)
=============================================================================
