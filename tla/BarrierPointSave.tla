-------------------------- MODULE BarrierPointSave --------------------------
(* BarrierPoint::save (barrierpoint.cpp): what the client does, once the     *)
(* program has ended, with the regions its threads have left behind.  It     *)
(* numbers the threads, moves the first block of each outlined function to   *)
(* the region it belongs to, and writes one file after the other, each with  *)
(* one line per region.                                                      *)
(*                                                                           *)
(* The input is what the threads of a program whose regions line up leave    *)
(* (BarrierClient): the same ids and names in all of them, and the first     *)
(* block of function f in the regions that the start of f closed.            *)
EXTENDS Integers, Sequences, FiniteSets, SequencesExt, FiniteSetsExt

CONSTANTS
    Fn,           \* the outlined functions; f is also its first block
    EntrySize,    \* [Fn -> Nat]: instructions counted for that block
    Profiles,     \* what a thread may do in a region: other blocks and LDV
    NumThreads,
    MaxRegions,   \* bound: regions per thread
    Garbage       \* what an erased entry may read as, beside its own value

ASSUME SizeAssumption == EntrySize \in [Fn -> Nat \ {0}]
ASSUME CountAssumption == NumThreads \in Nat \ {0} /\ MaxRegions \in Nat \ {0}
ASSUME GarbageAssumption == Garbage \subseteq Nat
ASSUME NameAssumption ==
    Fn \cap {"GOMP_barrier", "thread_exit", "ROI_Start"} = {}
ASSUME ProfileAssumption ==
    \A p \in Profiles :
        /\ IsFiniteSet(DOMAIN p.blocks) /\ DOMAIN p.blocks \cap Fn = {}
        /\ p.blocks \in [DOMAIN p.blocks -> Nat]
        /\ p.hist \in Seq(Nat)

VARIABLES
    threads,      \* the vector of ThreadData, in the order of exit
    synch_count,
    pc,           \* the function of save() that runs next
    ti, id, todo, \* align_synch_bb: thread, region, functions left to look at
    balance,      \* ... and bb_count_balance
    inst_file, bp_id_file, bbv_file, ldv_hist_file, ldv_bb_file,
    given         \* history: the threads as save() found them, by tid

aligning == <<ti, id, todo, balance>>
files    == <<inst_file, bp_id_file, bbv_file, ldv_hist_file, ldv_bb_file>>
vars     == <<threads, synch_count, pc, aligning, files, given>>

Ids == 0 .. synch_count - 1
SumOf(f) == MapThenSumSet(LAMBDA x : f[x], DOMAIN f)

(* The region that ends at point name, with profile p: instr_count is the    *)
(* sum of what add_bb has counted.                                           *)
RegionOf(name, p) ==
    LET own == [b \in DOMAIN p.blocks \cup (Fn \cap {name}) |->
                   IF b \in Fn THEN EntrySize[b] ELSE p.blocks[b]]
    IN  [name |-> name, instr_count |-> SumOf(own), bbv |-> own,
         lru_hist |-> p.hist]

Init ==
    \E n \in 1 .. MaxRegions :
    \E points \in [1 .. n - 1 -> Fn \cup {"GOMP_barrier"}] :
    \E profile \in [1 .. NumThreads -> [0 .. n - 1 -> Profiles]] :
    \E order \in [1 .. NumThreads -> 1 .. NumThreads] :
        LET name(k) == IF k = n - 1 THEN "thread_exit" ELSE points[k + 1]
            thread(tid) ==
                [tid |-> tid, is_master |-> tid = 1, fake_tid |-> 0,
                 regions |-> [k \in 0 .. n - 1 |->
                                 RegionOf(name(k), profile[tid][k])]]
        IN  /\ IsInjective(order)
            /\ threads = [i \in 1 .. NumThreads |-> thread(order[i])]
            /\ given = [i \in 1 .. NumThreads |-> thread(i)]
            /\ synch_count = n
            /\ pc = "generate_fake_tid"
            /\ ti = 1 /\ id = 0 /\ todo = {} /\ balance = 0
            /\ inst_file = <<>> /\ bp_id_file = <<>> /\ bbv_file = <<>>
            /\ ldv_hist_file = <<>> /\ ldv_bb_file = <<>>

Then(from, to) == pc = from /\ pc' = to

-----------------------------------------------------------------------------
generate_fake_tid ==
    /\ Then("generate_fake_tid", "align_synch_bb")
    /\ LET ascending(s) == \A i, j \in DOMAIN s : i < j => s[i].tid < s[j].tid
           sorted == CHOOSE s \in [DOMAIN threads -> ToSet(threads)] :
                        ascending(s)
       IN  threads' = [i \in DOMAIN sorted |->
                          [sorted[i] EXCEPT !.fake_tid = i - 1]]
    /\ UNCHANGED <<synch_count, aligning, files, given>>

MoreRegionsAtEnd == id + 1 <= synch_count    \* faulty
MoreRegions      == id + 1 < synch_count

(* On to the next region, when the inner loop is over.                       *)
Advance ==
    IF todo' # {} THEN UNCHANGED <<ti, id>>
    ELSE IF MoreRegions THEN id' = id + 1 /\ ti' = ti
    ELSE id' = 0 /\ ti' = ti + 1

(* Faulty: bb_count_balance is not reset.                                    *)
AlignRegionKeepsBalance ==
    /\ pc = "align_synch_bb"
    /\ todo = {}
    /\ IF ti > Len(threads)
       THEN pc' = "save_bbv_inst_count" /\ UNCHANGED <<threads, ti, id, todo>>
       ELSE /\ threads' = [threads EXCEPT
                 ![ti].regions[id].instr_count = @ + balance]
            /\ todo' = Fn
            /\ Advance
            /\ UNCHANGED pc
    /\ UNCHANGED <<balance, synch_count, files, given>>

(* One turn of the two outer loops of align_synch_bb.                        *)
AlignRegion ==
    /\ pc = "align_synch_bb"
    /\ todo = {}
    /\ IF ti > Len(threads)
       THEN pc' = "save_bbv_inst_count" /\ UNCHANGED <<threads, aligning>>
       ELSE /\ threads' = [threads EXCEPT
                 ![ti].regions[id].instr_count = @ + balance]
            /\ balance' = 0
            /\ todo' = Fn
            /\ Advance
            /\ UNCHANGED pc
    /\ UNCHANGED <<synch_count, files, given>>

(* One turn of the inner loop; an unordered_map is visited in any order.     *)
(* bb_found is read after the entry it refers to has been erased.            *)
AlignFunction(f) ==
    /\ pc = "align_synch_bb"
    /\ f \in todo
    /\ LET r == threads[ti].regions[id]
       IN  IF f \in DOMAIN r.bbv
           THEN /\ balance' \in {r.bbv[f]} \cup Garbage
                /\ threads' = [threads EXCEPT ![ti].regions[id] =
                     [r EXCEPT !.bbv = [b \in DOMAIN r.bbv \ {f} |-> r.bbv[b]],
                               !.instr_count = IF @ >= balance'
                                               THEN @ - balance' ELSE 0]]
           ELSE UNCHANGED <<threads, balance>>
    /\ todo' = todo \ {f}
    /\ Advance
    /\ UNCHANGED <<pc, synch_count, files, given>>

save_bbv_inst_count ==
    /\ Then("save_bbv_inst_count", "save_bp_id")
    /\ inst_file' = [k \in 1 .. synch_count |->
                        [i \in DOMAIN threads |->
                            threads[i].regions[k - 1].instr_count]]
    /\ UNCHANGED <<threads, synch_count, aligning, bp_id_file, bbv_file,
                   ldv_hist_file, ldv_bb_file, given>>

(* synch_times: how often the name of region k has been seen before it.      *)
TimesSeenNever(r, k) == 0                    \* faulty
TimesSeen(r, k) == Cardinality({j \in 0 .. k - 1 : r[j].name = r[k].name})

(* The rows for the regions r of the master, one turn of the loop after the  *)
(* other.                                                                    *)
BpIdRows(r) ==
    LET after[k \in 0 .. synch_count] ==
            IF k = 0 THEN <<<<0, 0, "ROI_Start">>>>
            ELSE IF r[k - 1].name = "thread_exit" THEN after[k - 1]
            ELSE Append(after[k - 1],
                        <<k, TimesSeen(r, k - 1), r[k - 1].name>>)
    IN  after[synch_count]

save_bp_id ==
    /\ Then("save_bp_id", "save_bbv_count")
    /\ bp_id_file' = FlattenSeq([i \in DOMAIN threads |->
          IF threads[i].is_master THEN BpIdRows(threads[i].regions)
          ELSE <<>>])
    /\ UNCHANGED <<threads, synch_count, aligning, inst_file, bbv_file,
                   ldv_hist_file, ldv_bb_file, given>>

(* The blocks of all threads, and where each is first met.                   *)
Blocks == UNION {DOMAIN threads[i].regions[k].bbv :
                    i \in DOMAIN threads, k \in Ids}
FirstMet(b) ==
    Min({m \in 0 .. Len(threads) * synch_count - 1 :
            b \in DOMAIN threads[m \div synch_count + 1]
                              .regions[m % synch_count].bbv})

(* Ids are given in the order of regions, and in any order within one.       *)
Numberings ==
    {ids \in [Blocks -> 1 .. Cardinality(Blocks)] :
        \A a, b \in Blocks :
            /\ ids[a] = ids[b] => a = b
            /\ FirstMet(a) < FirstMet(b) => ids[a] < ids[b]}

(* The dimension of item n of a thread, when a thread has width of them.     *)
DimensionOverlaps(n, t, width) == n + t.fake_tid * (width - 1)    \* faulty
Dimension(n, t, width)         == n + t.fake_tid * width

save_bbv_count ==
    /\ Then("save_bbv_count", "save_ldv_hist")
    /\ \E bb_ids \in Numberings :
         bbv_file' = [k \in 1 .. synch_count |->
            UNION {LET bbv == t.regions[k - 1].bbv
                       dim(b) == Dimension(bb_ids[b], t, Cardinality(Blocks))
                   IN  {<<dim(b), bbv[b]>> : b \in DOMAIN bbv} :
                   t \in ToSet(threads)}]
    /\ UNCHANGED <<threads, synch_count, aligning, inst_file, bp_id_file,
                   ldv_hist_file, ldv_bb_file, given>>

save_ldv_hist ==
    /\ Then("save_ldv_hist", "save_ldv_bb")
    /\ ldv_hist_file' = [m \in 1 .. Len(threads) * synch_count |->
          LET t == threads[(m - 1) \div synch_count + 1]
              k == (m - 1) % synch_count
          IN  <<t.fake_tid, k, t.regions[k].lru_hist>>]
    /\ UNCHANGED <<threads, synch_count, aligning, inst_file, bp_id_file,
                   bbv_file, ldv_bb_file, given>>

(* max_size in save_ldv_bb.                                                  *)
MaxHistOfLast ==                             \* faulty: reset in the loop
    Max({Len(Last(threads).regions[k].lru_hist) : k \in Ids})
MaxHist == Max({Len(threads[i].regions[k].lru_hist) :
                   i \in DOMAIN threads, k \in Ids})

save_ldv_bb ==
    /\ Then("save_ldv_bb", "free")
    /\ ldv_bb_file' = [k \in 1 .. synch_count |->
          UNION {LET h == t.regions[k - 1].lru_hist
                 IN  {<<Dimension(j, t, MaxHist), h[j]>> :
                         j \in {j \in DOMAIN h : h[j] # 0}} :
                 t \in ToSet(threads)}]
    /\ UNCHANGED <<threads, synch_count, aligning, inst_file, bp_id_file,
                   bbv_file, ldv_hist_file, given>>

free ==
    /\ Then("free", "done")
    /\ threads' = <<>>
    /\ UNCHANGED <<synch_count, aligning, files, given>>

Done == pc = "done" /\ UNCHANGED vars

Next ==
    \/ generate_fake_tid \/ AlignRegion \/ \E f \in Fn : AlignFunction(f)
    \/ save_bbv_inst_count \/ save_bp_id \/ save_bbv_count
    \/ save_ldv_hist \/ save_ldv_bb \/ free \/ Done

Spec == Init /\ [][Next]_vars

-----------------------------------------------------------------------------
(* Properties.  given[i] is the thread the files call i - 1.                 *)

Counts(b) == [b -> Nat]

TypeOK ==
    /\ pc \in {"generate_fake_tid", "align_synch_bb", "save_bbv_inst_count",
               "save_bp_id", "save_bbv_count", "save_ldv_hist",
               "save_ldv_bb", "free", "done"}
    /\ ti \in 1 .. NumThreads + 1
    /\ id \in Ids
    /\ todo \subseteq Fn
    /\ balance \in Nat
    /\ \A i \in DOMAIN threads : \A k \in Ids :
          LET r == threads[i].regions[k]
          IN  r.instr_count \in Nat /\ r.bbv \in Counts(DOMAIN r.bbv)

Finished == pc = "done"

(* The instructions of the first blocks that a region of given holds.        *)
Entries(r) == SumOf([f \in Fn \cap DOMAIN r.bbv |-> r.bbv[f]])

(* Column i of line k of .bbv_inscount is the count of thread i in region k, *)
(* without the first block of a function found there and with the one found  *)
(* in the region before: "they have to be taken into account in the next     *)
(* region" (align_synch_bb).  Nothing passes from one thread to another.     *)
InstMoved ==
    Finished => \A i \in 1 .. NumThreads : \A k \in Ids :
        inst_file[k + 1][i] =
            LET r == given[i].regions
            IN  r[k].instr_count - Entries(r[k])
                  + IF k = 0 THEN 0 ELSE Entries(r[k - 1])

(* What align_synch_bb says of the blocks themselves: the counts of line k   *)
(* of .bbv_count add up to those of line k of .bbv_inscount.                 *)
BbvMatchesInst ==
    Finished => \A k \in 1 .. synch_count :
        MapThenSumSet(LAMBDA e : e[2], bbv_file[k]) = SumOf(inst_file[k])

(* A dimension of .bbv_count stands for one block of one thread, in every    *)
(* line: no two of them are given the same number.                           *)
BbvDecodes ==
    Finished =>
        LET own(i, k) == DOMAIN given[i].regions[k].bbv \ Fn
            all == UNION {{i} \X own(i, k) : i \in 1 .. NumThreads, k \in Ids}
        IN  /\ Cardinality({e[1] : e \in UNION Range(bbv_file)}) =
                   Cardinality(all)
            /\ \A k \in Ids :
                  Cardinality({e[1] : e \in bbv_file[k + 1]}) =
                  SumOf([i \in 1 .. NumThreads |-> Cardinality(own(i, k))])

(* A dimension of .ldv_bb stands for one bucket of one thread's histogram,   *)
(* although the histograms have different lengths.                           *)
LdvDecodes ==
    Finished =>
        LET own(i, k) == {j \in DOMAIN given[i].regions[k].lru_hist :
                             given[i].regions[k].lru_hist[j] # 0}
            all == UNION {{i} \X own(i, k) : i \in 1 .. NumThreads, k \in Ids}
        IN  /\ Cardinality({e[1] : e \in UNION Range(ldv_bb_file)}) =
                   Cardinality(all)
            /\ \A k \in Ids :
                  Cardinality({e[1] : e \in ldv_bb_file[k + 1]}) =
                  SumOf([i \in 1 .. NumThreads |-> Cardinality(own(i, k))])

(* A row of .bp_id names a region once: its number is the number of its      *)
(* line in the other files, from 0, and no two have the same routine and     *)
(* iteration.  The last region of all, ended by "thread_exit", starts at the *)
(* last point and so has a row like any other.                               *)
BpIdKeys ==
    Finished =>
        /\ Len(bp_id_file) = synch_count
        /\ \A k \in DOMAIN bp_id_file : bp_id_file[k][1] = k - 1
        /\ \A j, k \in DOMAIN bp_id_file :
              Tail(bp_id_file[j]) = Tail(bp_id_file[k]) => j = k
=============================================================================
