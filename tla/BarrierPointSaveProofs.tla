----------------------- MODULE BarrierPointSaveProofs -----------------------
(***************************************************************************)
(* Proofs about BarrierPoint::save (barrierpoint.cpp).                     *)
(*                                                                         *)
(* TypeInv      what save() is given and what its variables hold; before   *)
(*              generate_fake_tid the threads are those given in some      *)
(*              order, after it thread i is the one the files call i - 1   *)
(* BlocksInv    align_synch_bb: each region is the one given, without the  *)
(*              first blocks of the functions looked for so far            *)
(* CountsInv    ... and its count is the one given, less what was found,   *)
(*              plus what the region before had handed on; the balance is  *)
(*              what is under way between the two                          *)
(* CodesInv     the numbers written to the vector files can be decoded     *)
(* KeysInv      one thread is the master, and the rows written for its     *)
(*              regions are keys                                           *)
(*                                                                         *)
(* All but CountsInv hold whatever an erased entry reads as;               *)
(* CountsInv is proved for a library that leaves it as it was              *)
(* (Garbage = {}), for the code reads bb_found after erase().              *)
(***************************************************************************)
EXTENDS BarrierPointSave, NumberFacts, SequenceTheorems

\* The threads, by the number their files have plus one.
Tids == 1..NumThreads

\* The blocks a thread may have counted.
AllBlocks == Fn \cup UNION {DOMAIN p.blocks : p \in Profiles}

\* A vector: the count of each of finitely many blocks.
Vector == {v \in UNION {[B -> Nat] : B \in SUBSET AllBlocks} :
             IsFiniteSet(DOMAIN v)}

\* A Region and a ThreadData as save() uses them.
Region == [name : Fn \cup {"GOMP_barrier", "thread_exit"}, instr_count : Nat,
           bbv : Vector, lru_hist : Seq(Nat)]

Thread == [tid : Tids, is_master : BOOLEAN, fake_tid : Nat,
           regions : [Ids -> Region]]

\* What save() is given: region k of thread i ends at a point, and has the
\* first block of an outlined function only if it is the start of it.
RegionGiven(r) ==
  /\ r \in Region
  /\ r.instr_count = SumOf(r.bbv)
  /\ Fn \cap DOMAIN r.bbv = Fn \cap {r.name}

\* All the threads have the same ids, and the last region, which the exit of
\* the thread ends, does not end at a function.
Given ==
  /\ synch_count \in Nat \ {0}
  /\ given \in [Tids -> Thread]
  /\ \A i \in Tids :
       /\ given[i].tid = i
       /\ \A k \in Ids : RegionGiven(given[i].regions[k])
       /\ given[i].regions[synch_count - 1].name \notin Fn

Labels == {"generate_fake_tid", "align_synch_bb", "save_bbv_inst_count",
           "save_bp_id", "save_bbv_count", "save_ldv_hist", "save_ldv_bb",
           "free", "done"}

\* Before the threads are numbered, they are those given, in some order.
Unsorted ==
  /\ ToSet(threads) = {given[i] : i \in Tids}
  /\ ti = 1 /\ id = 0 /\ todo = {} /\ balance = 0

\* The types, with what is given.
TypeInv ==
  /\ Given
  /\ pc \in Labels
  /\ ti \in 1..(NumThreads + 1)
  /\ id \in Ids
  /\ todo \in SUBSET Fn
  /\ todo # {} => ti \in Tids
  /\ balance \in Nat
  /\ IF pc = "done" THEN threads = <<>> ELSE threads \in [Tids -> Thread]
  /\ pc = "generate_fake_tid" => Unsorted

\* A region of the initial states is such a region.
LEMMA RegionOfGiven ==
  ASSUME NEW p \in Profiles,
         NEW name \in Fn \cup {"GOMP_barrier", "thread_exit"}
  PROVE  /\ RegionGiven(RegionOf(name, p))
         /\ RegionOf(name, p).name = name
<1> DEFINE B == DOMAIN p.blocks \cup (Fn \cap {name})
           own == [b \in B |-> IF b \in Fn THEN EntrySize[b] ELSE p.blocks[b]]
           r == RegionOf(name, p)
<1>1. /\ IsFiniteSet(DOMAIN p.blocks) /\ DOMAIN p.blocks \cap Fn = {}
      /\ p.blocks \in [DOMAIN p.blocks -> Nat]
      /\ p.hist \in Seq(Nat)
  BY ProfileAssumption
<1>2. IsFiniteSet(B)
  <2>1. CASE name \in Fn
    <3>1. B = DOMAIN p.blocks \cup {name}
      BY <2>1
    <3> QED
      BY <1>1, <3>1, FS_AddElement
  <2>2. CASE name \notin Fn
    <3>1. B = DOMAIN p.blocks
      BY <2>2
    <3> QED
      BY <1>1, <3>1
  <2> QED
    BY <2>1, <2>2
<1>3. own \in [B -> Nat]
  BY <1>1, SizeAssumption
<1>4. B \in SUBSET AllBlocks
  BY DEF AllBlocks
<1>5. own \in Vector /\ DOMAIN own = B
  <2> HIDE DEF B
  <2>1. DOMAIN own = B
    OBVIOUS
  <2> HIDE DEF own
  <2> QED
    BY <1>2, <1>3, <1>4, <2>1 DEF Vector
<1>6. Fn \cap B = Fn \cap {name}
  BY <1>1
<1>7. SumOf(own) \in Nat
  <2> HIDE DEF B, own
  <2>1. Total(own) \in Nat
    BY <1>2, <1>3, TotalNat
  <2> QED
    BY <2>1 DEF Total, SumOf
<1>8. r = [name |-> name, instr_count |-> SumOf(own), bbv |-> own,
           lru_hist |-> p.hist]
  BY DEF RegionOf
<1> HIDE DEF own, B, r
<1>9. r \in Region
  BY <1>1, <1>5, <1>7, <1>8 DEF Region
<1>10. r.bbv = own /\ r.instr_count = SumOf(own) /\ r.name = name
  BY <1>8
<1> QED
  BY <1>5, <1>6, <1>9, <1>10 DEF RegionGiven, r


\* An injection of the threads among themselves reaches all of them.
LEMMA OrderReaches ==
  ASSUME NEW order \in [Tids -> Tids], IsInjective(order)
  PROVE  \A i \in Tids : \E j \in Tids : order[j] = i
<1>1. IsFiniteSet(Tids)
  BY CountAssumption, FS_Interval DEF Tids
<1>2. order \in Injection(Tids, Tids)
  BY DEF Injection
<1>3. order \in Surjection(Tids, Tids)
  BY <1>1, <1>2, FS_Injection
<1> QED
  BY <1>3 DEF Surjection

\* What save() is called with.
LEMMA InitTypes == Init => TypeInv
<1> SUFFICES ASSUME Init
             PROVE  TypeInv
  OBVIOUS
<1>1. PICK n \in 1..MaxRegions :
      \E points \in [1 .. n - 1 -> Fn \cup {"GOMP_barrier"}] :
      \E profile \in [1 .. NumThreads -> [0 .. n - 1 -> Profiles]] :
      \E order \in [1 .. NumThreads -> 1 .. NumThreads] :
        LET name(k) == IF k = n - 1 THEN "thread_exit" ELSE points[k + 1]
            thread(tid) ==
                [tid |-> tid, is_master |-> tid = 1, fake_tid |-> 0,
                 regions |-> [k \in 0 .. n - 1 |->
                                 RegionOf(name(k), profile[tid][k])]]
        IN  /\ IsInjective(order)
            /\ threads = [i \in 1 .. NumThreads |-> thread(order[i])]
            /\ given = [i \in 1 .. NumThreads |-> thread(i)]
            /\ synch_count = n
            /\ pc = "generate_fake_tid"
            /\ ti = 1 /\ id = 0 /\ todo = {} /\ balance = 0
  BY ZenonT(30) DEF Init
<1>2. PICK points \in [1 .. n - 1 -> Fn \cup {"GOMP_barrier"}],
           profile \in [Tids -> [0 .. n - 1 -> Profiles]],
           order \in [Tids -> Tids] :
        LET name(k) == IF k = n - 1 THEN "thread_exit" ELSE points[k + 1]
            thread(tid) ==
                [tid |-> tid, is_master |-> tid = 1, fake_tid |-> 0,
                 regions |-> [k \in 0 .. n - 1 |->
                                 RegionOf(name(k), profile[tid][k])]]
        IN  /\ IsInjective(order)
            /\ threads = [i \in Tids |-> thread(order[i])]
            /\ given = [i \in Tids |-> thread(i)]
            /\ synch_count = n
            /\ pc = "generate_fake_tid"
            /\ ti = 1 /\ id = 0 /\ todo = {} /\ balance = 0
  BY <1>1 DEF Tids
<1> DEFINE name(k) == IF k = n - 1 THEN "thread_exit" ELSE points[k + 1]
           regions(t) == [k \in Ids |-> RegionOf(name(k), profile[t][k])]
           thread(t) == [tid |-> t, is_master |-> t = 1, fake_tid |-> 0,
                         regions |-> regions(t)]
<1>3. /\ synch_count = n /\ n \in Nat \ {0} /\ Ids = 0..(n - 1)
      /\ synch_count - 1 \in Ids
  BY <1>2, CountAssumption DEF Ids
<1>4. /\ threads = [i \in Tids |-> thread(order[i])]
      /\ given = [i \in Tids |-> thread(i)]
  BY <1>2, <1>3
<1>5. \A t \in Tids : \A k \in Ids :
        /\ RegionGiven(RegionOf(name(k), profile[t][k]))
        /\ RegionOf(name(k), profile[t][k]).name = name(k)
  <2> SUFFICES ASSUME NEW t \in Tids, NEW k \in Ids
               PROVE  /\ RegionGiven(RegionOf(name(k), profile[t][k]))
                      /\ RegionOf(name(k), profile[t][k]).name = name(k)
    OBVIOUS
  <2>1. name(k) \in Fn \cup {"GOMP_barrier", "thread_exit"}
    BY <1>3
  <2>2. profile[t][k] \in Profiles
    BY <1>3
  <2> HIDE DEF name
  <2> QED
    BY <2>1, <2>2, RegionOfGiven
<1>6. \A t \in Tids :
        /\ regions(t) \in [Ids -> Region]
        /\ \A k \in Ids : /\ RegionGiven(regions(t)[k])
                          /\ regions(t)[k].name = name(k)
  <2> HIDE DEF name
  <2> QED
    BY <1>5 DEF RegionGiven
<1>7. name(synch_count - 1) \notin Fn
  BY <1>3, NameAssumption
<1> HIDE DEF name, regions
<1>8. \A t \in Tids : thread(t) \in Thread
  BY <1>6 DEF Thread
<1>9. given \in [Tids -> Thread] /\ threads \in [Tids -> Thread]
  BY <1>4, <1>8
<1>10. Given
  <2>1. \A i \in Tids : given[i].tid = i /\ given[i].regions = regions(i)
    BY <1>4
  <2> QED
    BY <1>3, <1>6, <1>7, <1>9, <2>1 DEF Given
<1>11. ToSet(threads) = {given[i] : i \in Tids}
  <2>1. \A i \in Tids : \E j \in Tids : order[j] = i
    BY <1>2, OrderReaches
  <2>2. \A j \in Tids : threads[j] = given[order[j]]
    BY <1>4
  <2>3. DOMAIN threads = Tids
    BY <1>4
  <2> HIDE DEF thread
  <2> QED
    BY <2>1, <2>2, <2>3 DEF ToSet
<1>12. Unsorted
  BY <1>2, <1>11 DEF Unsorted
<1>13. ti \in 1..(NumThreads + 1) /\ id \in Ids
  BY <1>2, <1>3, CountAssumption
<1>14. pc = "generate_fake_tid"
  BY <1>2
<1> QED
  BY <1>9, <1>10, <1>12, <1>13, <1>14 DEF TypeInv, Unsorted, Labels

\* An ascending sequence of the numbers up to n is the sequence of them.
LEMMA Ascending ==
  ASSUME NEW n \in Nat \ {0}, NEW f \in [1..n -> 1..n],
         \A i, j \in 1..n : i < j => f[i] < f[j]
  PROVE  \A i \in 1..n : f[i] = i
<1> DEFINE b == n - 1
           S == {i \in 0..b : f[i + 1] >= i + 1}
           T == {i \in 0..b : f[n - i] <= n - i}
<1>1. b \in Nat
  OBVIOUS
<1>2. \A i \in 0..b : i \in S
  <2>1. 0 \in S
    OBVIOUS
  <2>2. \A i \in 0..(b - 1) : i \in S => i + 1 \in S
    OBVIOUS
  <2> HIDE DEF S, b
  <2> QED
    BY <1>1, <2>1, <2>2, UpTo
<1>3. \A i \in 0..b : i \in T
  <2>1. 0 \in T
    OBVIOUS
  <2>2. \A i \in 0..(b - 1) : i \in T => i + 1 \in T
    <3> SUFFICES ASSUME NEW i \in 0..(b - 1), i \in T
                 PROVE  i + 1 \in T
      OBVIOUS
    <3>1. /\ n - (i + 1) \in 1..n /\ n - i \in 1..n
          /\ n - (i + 1) < n - i
      OBVIOUS
    <3>2. f[n - (i + 1)] < f[n - i]
      BY <3>1
    <3> QED
      BY <3>1, <3>2
  <2> HIDE DEF T, b
  <2> QED
    BY <1>1, <2>1, <2>2, UpTo
<1> SUFFICES ASSUME NEW i \in 1..n
             PROVE  f[i] = i
  OBVIOUS
<1>4. i - 1 \in 0..b /\ n - i \in 0..b /\ (i - 1) + 1 = i /\ n - (n - i) = i
  OBVIOUS
<1>5. i - 1 \in S /\ n - i \in T
  BY <1>2, <1>3, <1>4
<1>6. f[i] >= i /\ f[i] <= i
  BY <1>4, <1>5
<1> QED
  BY <1>6

\* generate_fake_tid: the threads in the order of their system tids are the
\* threads given, and their numbers are those of the files.
LEMMA TidOrder ==
  ASSUME TypeInv, generate_fake_tid
  PROVE  threads' = [i \in Tids |-> [given[i] EXCEPT !.fake_tid = i - 1]]
<1> DEFINE ascending(s) ==
             \A i, j \in DOMAIN s : i < j => s[i].tid < s[j].tid
           found == {given[i] : i \in Tids}
           sorted == CHOOSE s \in [Tids -> found] : ascending(s)
<1>1. /\ given \in [Tids -> Thread] /\ \A i \in Tids : given[i].tid = i
      /\ threads \in [Tids -> Thread] /\ ToSet(threads) = found
  BY DEF TypeInv, Given, generate_fake_tid, Then, Unsorted
<1>2. threads' = [i \in DOMAIN sorted |->
                    [sorted[i] EXCEPT !.fake_tid = i - 1]]
  <2>1. DOMAIN threads = Tids
    BY <1>1
  <2> QED
    BY <1>1, <2>1 DEF generate_fake_tid
<1>3. given \in [Tids -> found] /\ ascending(given)
  BY <1>1
<1>4. sorted \in [Tids -> found] /\ ascending(sorted)
  BY <1>3
<1> HIDE DEF sorted
<1> DEFINE f == [i \in Tids |-> sorted[i].tid]
<1>5. f \in [1..NumThreads -> 1..NumThreads]
  BY <1>1, <1>4 DEF Tids
<1>6. \A i, j \in 1..NumThreads : i < j => f[i] < f[j]
  BY <1>4 DEF Tids
<1>7. \A i \in Tids : f[i] = sorted[i].tid
  OBVIOUS
<1> HIDE DEF f
<1>8. \A i \in 1..NumThreads : f[i] = i
  BY <1>5, <1>6, CountAssumption, Ascending
<1>9. \A i \in Tids : sorted[i] = given[i]
  <2> SUFFICES ASSUME NEW i \in Tids
               PROVE  sorted[i] = given[i]
    OBVIOUS
  <2>1. PICK j \in Tids : sorted[i] = given[j]
    BY <1>4
  <2>2. sorted[i].tid = j
    BY <1>1, <2>1
  <2>3. j = i
    BY <1>7, <1>8, <2>2 DEF Tids
  <2> QED
    BY <2>1, <2>3
<1>10. DOMAIN sorted = Tids
  BY <1>4
<1> QED
  BY <1>2, <1>9, <1>10

\* u is t, but for region k of thread i, which is r.
Replaced(t, u, i, k, r) ==
  /\ u \in [Tids -> Thread]
  /\ \A j \in Tids :
       /\ u[j].fake_tid = t[j].fake_tid
       /\ u[j].is_master = t[j].is_master
       /\ \A m \in Ids : u[j].regions[m] =
            IF j = i /\ m = k THEN r ELSE t[j].regions[m]

\* What becomes of the threads when one region of one of them is assigned to.
LEMMA OneRegion ==
  ASSUME Given, NEW t \in [Tids -> Thread], NEW i \in Tids, NEW k \in Ids,
         NEW r \in Region, NEW u, u = [t EXCEPT ![i].regions[k] = r]
  PROVE  Replaced(t, u, i, k, r)
<1> DEFINE v == [t[i] EXCEPT !.regions = [t[i].regions EXCEPT ![k] = r]]
<1>1. u = [t EXCEPT ![i] = v]
  OBVIOUS
<1>2. t[i] \in Thread
  OBVIOUS
<1>3. v \in Thread
  BY <1>2 DEF Thread
<1>4. v.fake_tid = t[i].fake_tid /\ v.is_master = t[i].is_master
  BY <1>2 DEF Thread
<1>5. \A m \in Ids : v.regions[m] = IF m = k THEN r ELSE t[i].regions[m]
  BY <1>2 DEF Thread
<1> HIDE DEF v
<1>6. \A j \in Tids : u[j] = IF j = i THEN v ELSE t[j]
  BY <1>1
<1>7. u \in [Tids -> Thread]
  BY <1>1, <1>3
<1> QED
  BY <1>4, <1>5, <1>6, <1>7 DEF Replaced

\* Region s with n more instructions.
Counted(s, n) == [s EXCEPT !.instr_count = @ + n]

\* Region s with the block of f taken out, and n instructions with it.
TakenOut(s, f, n) ==
  [s EXCEPT !.bbv = [b \in DOMAIN s.bbv \ {f} |-> s.bbv[b]],
            !.instr_count = IF @ >= n THEN @ - n ELSE 0]

\* The first part of AlignRegion: the balance is added to the count.
LEMMA RegionStep ==
  ASSUME TypeInv, AlignRegion, ti \in Tids
  PROVE  /\ Replaced(threads, threads', ti, id,
                     Counted(threads[ti].regions[id], balance))
         /\ pc = "align_synch_bb" /\ pc' = pc
         /\ todo = {} /\ todo' = Fn /\ balance' = 0 /\ Advance
         /\ UNCHANGED <<synch_count, files, given>>
<1> DEFINE s == threads[ti].regions[id]
           r == Counted(s, balance)
<1>1. /\ Given /\ threads \in [Tids -> Thread] /\ id \in Ids
      /\ balance \in Nat
  BY DEF TypeInv, AlignRegion
<1>2. Len(threads) = NumThreads /\ ~(ti > Len(threads))
  <2>1. DOMAIN threads = 1..NumThreads
    BY <1>1 DEF Tids
  <2>2. threads \in Seq(Thread)
    BY <1>1, CountAssumption DEF Tids
  <2>3. Len(threads) = NumThreads
    BY <2>1, <2>2, CountAssumption, LenProperties
  <2> QED
    BY <2>3 DEF Tids
<1>3. threads' = [threads EXCEPT ![ti].regions[id] = r]
  BY <1>1, <1>2 DEF AlignRegion, Thread, Counted
<1>4. r \in Region
  <2>1. s \in Region
    BY <1>1 DEF Thread
  <2> HIDE DEF s
  <2> QED
    BY <1>1, <2>1 DEF Region, Counted
<1> HIDE DEF r
<1>5. Replaced(threads, threads', ti, id, r)
  BY <1>1, <1>3, <1>4, OneRegion
<1>6. /\ pc = "align_synch_bb" /\ pc' = pc
      /\ todo = {} /\ todo' = Fn /\ balance' = 0 /\ Advance
      /\ UNCHANGED <<synch_count, files, given>>
  BY <1>2 DEF AlignRegion
<1> QED
  BY <1>5, <1>6 DEF r

\* AlignFunction, where the region has the block of f.
LEMMA FunctionStep ==
  ASSUME TypeInv, NEW f \in Fn, AlignFunction(f),
         f \in DOMAIN threads[ti].regions[id].bbv
  PROVE  /\ Replaced(threads, threads', ti, id,
                     TakenOut(threads[ti].regions[id], f, balance'))
         /\ balance' \in {threads[ti].regions[id].bbv[f]} \cup Garbage
         /\ balance' \in Nat
<1> DEFINE s == threads[ti].regions[id]
           v == [b \in DOMAIN s.bbv \ {f} |-> s.bbv[b]]
           n == IF s.instr_count >= balance'
                THEN s.instr_count - balance' ELSE 0
           r == [s EXCEPT !.bbv = v, !.instr_count = n]
<1>1. /\ Given /\ threads \in [Tids -> Thread] /\ id \in Ids
      /\ ti \in Tids /\ f \in todo
  BY DEF TypeInv, AlignFunction
<1>2. s \in Region
  BY <1>1 DEF Thread
<1>3. /\ threads' = [threads EXCEPT ![ti].regions[id] = r]
      /\ balance' \in {s.bbv[f]} \cup Garbage
  BY <1>1 DEF AlignFunction
<1> HIDE DEF s
<1>4. s.bbv \in Vector /\ s.instr_count \in Nat
  BY <1>2 DEF Region
<1>5. v \in Vector
  <2>1. IsFiniteSet(DOMAIN s.bbv)
    BY <1>4 DEF Vector
  <2>2. IsFiniteSet(DOMAIN s.bbv \ {f})
    BY <2>1, FS_RemoveElement
  <2>3. /\ v \in [DOMAIN s.bbv \ {f} -> Nat]
        /\ DOMAIN s.bbv \ {f} \in SUBSET AllBlocks
    BY <1>4 DEF Vector
  <2>4. DOMAIN v = DOMAIN s.bbv \ {f}
    OBVIOUS
  <2> HIDE DEF v
  <2> QED
    BY <2>2, <2>3, <2>4 DEF Vector
<1>6. balance' \in Nat
  <2>1. s.bbv[f] \in Nat
    BY <1>4 DEF Vector, s
  <2> QED
    BY <1>3, <2>1, GarbageAssumption
<1>7. n \in Nat
  BY <1>4, <1>6
<1>8. r = TakenOut(s, f, balance')
  BY DEF TakenOut
<1> HIDE DEF v, n
<1>9. r \in Region
  BY <1>2, <1>5, <1>7 DEF Region
<1> HIDE DEF r
<1>10. Replaced(threads, threads', ti, id, r)
  BY <1>1, <1>3, <1>9, OneRegion
<1> QED
  BY <1>3, <1>6, <1>8, <1>10 DEF s

\* Advance stays among the regions of the threads, and leaves a thread only
\* behind its last region.
LEMMA AdvanceStays ==
  ASSUME TypeInv, ti \in Tids, Advance, synch_count' = synch_count,
         todo' \in SUBSET Fn
  PROVE  /\ ti' \in 1..(NumThreads + 1) /\ id' \in Ids
         /\ todo' # {} => ti' = ti /\ id' = id
         /\ todo' = {} /\ id # synch_count - 1 => ti' = ti /\ id' = id + 1
         /\ todo' = {} /\ id = synch_count - 1 => ti' = ti + 1 /\ id' = 0
<1>1. /\ synch_count \in Nat \ {0} /\ id \in 0..(synch_count - 1)
      /\ ti \in 1..NumThreads /\ NumThreads \in Nat
  BY CountAssumption DEF TypeInv, Given, Ids, Tids
<1> QED
  BY <1>1 DEF Advance, MoreRegions, Ids

----------------------------------------------------------------------------
(* The blocks.                                                             *)

\* align_synch_bb is done with region k of thread i.
Before(i, k) ==
  \/ i < ti
  \/ i = ti /\ k < id

\* The functions it has looked for in this region.
Looked(i, k) ==
  IF Before(i, k) THEN Fn
  ELSE IF i = ti /\ k = id /\ todo # {} THEN Fn \ todo
  ELSE {}

\* r is region g without the first blocks of the functions in L.
Rest(r, g, L) ==
  /\ r.name = g.name
  /\ r.lru_hist = g.lru_hist
  /\ DOMAIN r.bbv = DOMAIN g.bbv \ L
  /\ \A b \in DOMAIN r.bbv : r.bbv[b] = g.bbv[b]

\* Every region is the one given, without what has been taken out; once the
\* outer loop is over, that is the first block of every function.
BlocksInv ==
  /\ pc \notin {"generate_fake_tid", "done"} =>
       \A i \in Tids :
         /\ threads[i].fake_tid = i - 1
         /\ \A k \in Ids : Rest(threads[i].regions[k], given[i].regions[k],
                                Looked(i, k))
  /\ pc \notin {"generate_fake_tid", "align_synch_bb"} =>
       ti = NumThreads + 1 /\ todo = {}

\* What a turn of a loop does to the functions looked for.
LEMMA LookedAfter ==
  ASSUME TypeInv, ti \in Tids, Advance, synch_count' = synch_count,
         todo' \in SUBSET Fn
  PROVE  \A i \in Tids : \A k \in Ids :
           (Looked(i, k))' = IF i = ti /\ k = id THEN Fn \ todo'
                             ELSE Looked(i, k)
<1> SUFFICES ASSUME NEW i \in Tids, NEW k \in Ids
             PROVE  (Looked(i, k))' = IF i = ti /\ k = id THEN Fn \ todo'
                                      ELSE Looked(i, k)
  OBVIOUS
<1>1. /\ synch_count \in Nat \ {0} /\ id \in 0..(synch_count - 1)
      /\ ti \in 1..NumThreads /\ NumThreads \in Nat
      /\ i \in 1..NumThreads /\ k \in 0..(synch_count - 1)
  BY CountAssumption DEF TypeInv, Given, Ids, Tids
<1>2. CASE todo' # {}
  <2>1. ti' = ti /\ id' = id
    BY <1>2 DEF Advance
  <2> QED
    BY <1>1, <1>2, <2>1 DEF Looked, Before
<1>3. CASE todo' = {}
  <2>1. (Before(i, k))' <=> Before(i, k) \/ (i = ti /\ k = id)
    BY <1>1, <1>3 DEF Before, Advance, MoreRegions
  <2> QED
    BY <1>1, <1>3, <2>1 DEF Looked, Before
<1> QED
  BY <1>2, <1>3

\* What save() is given does not change.
LEMMA GivenStays ==
  ASSUME Given, UNCHANGED <<given, synch_count>>
  PROVE  Given' /\ Ids' = Ids /\ Thread' = Thread
<1>1. Ids' = Ids
  BY DEF Ids
<1>2. Thread' = Thread
  BY <1>1 DEF Thread
<1> QED
  BY <1>1, <1>2 DEF Given

\* Actions that leave the threads alone.
LEMMA QuietBlocks ==
  ASSUME TypeInv, BlocksInv,
         UNCHANGED <<threads, synch_count, aligning, given>>,
         pc \notin {"generate_fake_tid", "done"},
         pc' \in Labels, pc' \notin {"generate_fake_tid", "done"},
         pc' # pc /\ pc = "align_synch_bb" => ti = NumThreads + 1 /\ todo = {},
         pc' = "align_synch_bb" => pc = "align_synch_bb"
  PROVE  TypeInv' /\ BlocksInv'
<1>1. TypeInv'
  <2>1. Given' /\ Thread' = Thread /\ Ids' = Ids
    BY GivenStays DEF TypeInv
  <2> QED
    BY <2>1 DEF TypeInv, aligning
<1>2. Ids' = Ids
  BY DEF Ids
<1>3. ASSUME NEW i, NEW k
      PROVE  (Looked(i, k))' = Looked(i, k)
  BY DEF Looked, Before, aligning
<1>4. BlocksInv'
  <2>1. \A i \in Tids :
         /\ threads'[i].fake_tid = i - 1
         /\ \A k \in Ids : Rest(threads'[i].regions[k],
                                given'[i].regions[k], (Looked(i, k))')
    BY <1>3 DEF BlocksInv
  <2>2. pc' # "align_synch_bb" => ti' = NumThreads + 1 /\ todo' = {}
    BY DEF BlocksInv, aligning
  <2> QED
    BY <1>2, <2>1, <2>2 DEF BlocksInv
<1> QED
  BY <1>1, <1>4

\* Every action keeps the types, and the blocks where they are.
LEMMA BlocksStep ==
  ASSUME TypeInv, BlocksInv, [Next]_vars
  PROVE  TypeInv' /\ BlocksInv'
<1>1. CASE generate_fake_tid
  <2>1. /\ pc' = "align_synch_bb" /\ Ids' = Ids
        /\ UNCHANGED <<synch_count, ti, id, todo, balance, given>>
        /\ ti = 1 /\ id = 0 /\ todo = {} /\ balance = 0
    BY <1>1 DEF generate_fake_tid, Then, aligning, Ids, TypeInv, Unsorted
  <2>2. threads' = [i \in Tids |-> [given[i] EXCEPT !.fake_tid = i - 1]]
    BY <1>1, TidOrder
  <2>3. Given /\ given \in [Tids -> Thread]
    BY DEF TypeInv, Given
  <2>4. \A i \in Tids :
          /\ [given[i] EXCEPT !.fake_tid = i - 1] \in Thread
          /\ threads'[i].fake_tid = i - 1
          /\ threads'[i].regions = given[i].regions
    <3> SUFFICES ASSUME NEW i \in Tids
                 PROVE  /\ [given[i] EXCEPT !.fake_tid = i - 1] \in Thread
                        /\ threads'[i].fake_tid = i - 1
                        /\ threads'[i].regions = given[i].regions
      OBVIOUS
    <3>1. given[i] \in Thread /\ i - 1 \in Nat
      BY <2>3, CountAssumption DEF Tids
    <3> QED
      BY <2>2, <3>1 DEF Thread
  <2>5. threads' \in [Tids -> Thread]
    BY <2>2, <2>4
  <2>6. Given' /\ Thread' = Thread
    BY <2>1, <2>3, GivenStays
  <2>7. TypeInv'
    BY <2>1, <2>5, <2>6 DEF TypeInv, Labels
  <2>8. \A i \in Tids : \A k \in Ids : (Looked(i, k))' = {}
    BY <2>1, CountAssumption DEF Looked, Before, Tids, Ids
  <2>9. BlocksInv'
    BY <2>1, <2>4, <2>8 DEF BlocksInv, Rest
  <2> QED
    BY <2>7, <2>9
<1>2. CASE AlignRegion /\ ti \in Tids
  <2>1. /\ Replaced(threads, threads', ti, id,
                    Counted(threads[ti].regions[id], balance))
        /\ pc = "align_synch_bb" /\ pc' = pc
        /\ todo = {} /\ todo' = Fn /\ balance' = 0 /\ Advance
        /\ UNCHANGED <<synch_count, files, given>>
    BY <1>2, RegionStep
  <2>2. /\ ti' \in 1..(NumThreads + 1) /\ id' \in Ids
        /\ todo' # {} => ti' = ti
    BY <1>2, <2>1, AdvanceStays
  <2>3. /\ Ids' = Ids /\ Thread' = Thread /\ Given /\ Given'
        /\ threads \in [Tids -> Thread]
    BY <2>1, GivenStays DEF TypeInv
  <2>4. TypeInv'
    BY <1>2, <2>1, <2>2, <2>3 DEF TypeInv, Replaced
  <2>5. \A i \in Tids : \A k \in Ids : (Looked(i, k))' = Looked(i, k)
    <3>1. \A i \in Tids : \A k \in Ids :
            (Looked(i, k))' = IF i = ti /\ k = id THEN Fn \ todo'
                              ELSE Looked(i, k)
      BY <1>2, <2>1, LookedAfter
    <3>2. Looked(ti, id) = {}
      BY <1>2, <2>1, CountAssumption DEF Looked, Before, Tids, TypeInv, Ids,
                                         Given
    <3> QED
      BY <2>1, <3>1, <3>2
  <2>6. \A i \in Tids : \A k \in Ids :
          /\ threads'[i].fake_tid = threads[i].fake_tid
          /\ threads'[i].regions[k].name = threads[i].regions[k].name
          /\ threads'[i].regions[k].lru_hist = threads[i].regions[k].lru_hist
          /\ threads'[i].regions[k].bbv = threads[i].regions[k].bbv
    <3>1. threads[ti].regions[id] \in Region
      BY <1>2, <2>3 DEF Thread, TypeInv
    <3>2. /\ Counted(threads[ti].regions[id], balance).name =
               threads[ti].regions[id].name
          /\ Counted(threads[ti].regions[id], balance).lru_hist =
               threads[ti].regions[id].lru_hist
          /\ Counted(threads[ti].regions[id], balance).bbv =
               threads[ti].regions[id].bbv
      BY <3>1 DEF Counted, Region
    <3> QED
      BY <2>1, <3>2 DEF Replaced
  <2>7. \A i \in Tids :
         /\ threads[i].fake_tid = i - 1
         /\ \A k \in Ids : Rest(threads[i].regions[k], given[i].regions[k],
                                Looked(i, k))
    BY <2>1 DEF BlocksInv
  <2>8. \A i \in Tids : threads'[i].fake_tid = i - 1
    BY <2>1, <2>7 DEF Replaced
  <2>9. ASSUME NEW i \in Tids, NEW k \in Ids
        PROVE  Rest(threads'[i].regions[k], given'[i].regions[k],
                    (Looked(i, k))')
    BY <2>1, <2>5, <2>6, <2>7 DEF Rest
  <2>10. BlocksInv'
    BY <2>1, <2>3, <2>8, <2>9 DEF BlocksInv
  <2> QED
    BY <2>4, <2>10
<1>3. CASE AlignRegion /\ ti \notin Tids
  <2>1. ti = NumThreads + 1 /\ todo = {} /\ pc = "align_synch_bb"
    BY <1>3, CountAssumption DEF TypeInv, Tids, AlignRegion
  <2>2. Len(threads) = NumThreads
    <3>1. threads \in [1..NumThreads -> Thread]
      BY <2>1 DEF TypeInv, Tids
    <3>2. threads \in Seq(Thread) /\ DOMAIN threads = 1..NumThreads
      BY <3>1, CountAssumption
    <3> QED
      BY <3>2, CountAssumption, LenProperties
  <2>3. /\ pc' = "save_bbv_inst_count"
        /\ UNCHANGED <<threads, aligning, synch_count, given>>
    BY <1>3, <2>1, <2>2, CountAssumption DEF AlignRegion
  <2> QED
    BY <2>1, <2>3, QuietBlocks DEF Labels
<1>4. ASSUME NEW f \in Fn, AlignFunction(f)
      PROVE  TypeInv' /\ BlocksInv'
  <2>1. /\ pc = "align_synch_bb" /\ pc' = pc /\ Advance
        /\ f \in todo /\ todo' = todo \ {f} /\ todo' \in SUBSET Fn
        /\ UNCHANGED <<synch_count, files, given>>
        /\ ti \in Tids /\ id \in Ids
    BY <1>4 DEF AlignFunction, TypeInv
  <2>2. /\ ti' \in 1..(NumThreads + 1) /\ id' \in Ids
        /\ todo' # {} => ti' = ti
    BY <2>1, AdvanceStays
  <2>3. /\ Ids' = Ids /\ Thread' = Thread /\ Given /\ Given'
        /\ threads \in [Tids -> Thread]
    BY <2>1, GivenStays DEF TypeInv
  <2>4. \A i \in Tids :
         /\ threads[i].fake_tid = i - 1
         /\ \A k \in Ids : Rest(threads[i].regions[k], given[i].regions[k],
                                Looked(i, k))
    BY <2>1 DEF BlocksInv
  <2>5. \A i \in Tids : \A k \in Ids :
            (Looked(i, k))' = IF i = ti /\ k = id THEN Fn \ todo'
                              ELSE Looked(i, k)
    BY <2>1, LookedAfter
  <2>6. Looked(ti, id) = Fn \ todo
    BY <2>1, CountAssumption DEF Looked, Before, Tids, TypeInv, Ids, Given
  <2>7. /\ threads' \in [Tids -> Thread] /\ balance' \in Nat
        /\ \A i \in Tids :
             /\ threads'[i].fake_tid = threads[i].fake_tid
             /\ \A k \in Ids :
                  i # ti \/ k # id =>
                    threads'[i].regions[k] = threads[i].regions[k]
        /\ Rest(threads'[ti].regions[id], given[ti].regions[id], Fn \ todo')
    <3> DEFINE s == threads[ti].regions[id]
               g == given[ti].regions[id]
    <3>1. Rest(s, g, Fn \ todo)
      BY <2>1, <2>4, <2>6
    <3>2. CASE f \in DOMAIN s.bbv
      <4> DEFINE r == TakenOut(s, f, balance')
      <4>1. /\ Replaced(threads, threads', ti, id, r)
            /\ balance' \in Nat
        BY <1>4, <3>2, FunctionStep
      <4>2. s \in Region
        BY <2>1, <2>3 DEF Thread
      <4> HIDE DEF s
      <4>3. /\ r.name = s.name /\ r.lru_hist = s.lru_hist
            /\ r.bbv = [b \in DOMAIN s.bbv \ {f} |-> s.bbv[b]]
        BY <4>2 DEF TakenOut, Region
      <4> HIDE DEF r, g
      <4>4. Rest(r, g, Fn \ todo')
        BY <2>1, <3>1, <4>3 DEF Rest
      <4>5. threads'[ti].regions[id] = r
        BY <2>1, <4>1 DEF Replaced
      <4> QED
        BY <4>1, <4>4, <4>5 DEF Replaced, g
    <3>3. CASE f \notin DOMAIN s.bbv
      <4>1. UNCHANGED <<threads, balance>>
        BY <1>4, <3>3 DEF AlignFunction
      <4> HIDE DEF s, g
      <4>2. Rest(s, g, Fn \ todo')
        BY <2>1, <3>1, <3>3 DEF Rest
      <4> QED
        BY <2>3, <4>1, <4>2 DEF TypeInv, s, g
    <3> QED
      BY <3>2, <3>3
  <2>8. TypeInv'
    BY <2>1, <2>2, <2>3, <2>7 DEF TypeInv
  <2>9. ASSUME NEW i \in Tids, NEW k \in Ids
        PROVE  Rest(threads'[i].regions[k], given'[i].regions[k],
                    (Looked(i, k))')
    BY <2>1, <2>4, <2>5, <2>7
  <2>10. BlocksInv'
    BY <2>1, <2>3, <2>4, <2>7, <2>9 DEF BlocksInv
  <2> QED
    BY <2>8, <2>10
<1>5. CASE save_bbv_inst_count
  BY <1>5, QuietBlocks DEF save_bbv_inst_count, Then, Labels, aligning
<1>6. CASE save_bp_id
  BY <1>6, QuietBlocks DEF save_bp_id, Then, Labels, aligning
<1>7. CASE save_bbv_count
  BY <1>7, QuietBlocks DEF save_bbv_count, Then, Labels, aligning
<1>8. CASE save_ldv_hist
  BY <1>8, QuietBlocks DEF save_ldv_hist, Then, Labels, aligning
<1>9. CASE save_ldv_bb
  BY <1>9, QuietBlocks DEF save_ldv_bb, Then, Labels, aligning
<1>10. CASE free
  <2>1. /\ UNCHANGED <<synch_count, ti, id, todo, balance, given>>
        /\ pc = "free" /\ pc' = "done" /\ threads' = <<>>
    BY <1>10 DEF free, Then, aligning
  <2>2. Given' /\ Ids' = Ids /\ Thread' = Thread
    BY <2>1, GivenStays DEF TypeInv
  <2>3. TypeInv'
    BY <2>1, <2>2 DEF TypeInv, Labels
  <2> QED
    BY <2>1, <2>3 DEF BlocksInv
<1>11. CASE UNCHANGED vars
  <2>1. ASSUME NEW i, NEW k
        PROVE  (Looked(i, k))' = Looked(i, k)
    BY <1>11 DEF Looked, Before, vars, aligning
  <2>2. UNCHANGED <<threads, pc, synch_count, ti, id, todo, balance, given>>
    BY <1>11 DEF vars, aligning
  <2>3. Given' /\ Ids' = Ids /\ Thread' = Thread
    BY <2>2, GivenStays DEF TypeInv
  <2>4. Unsorted' <=> Unsorted
    BY <2>2 DEF Unsorted
  <2>5. TypeInv'
    BY <2>2, <2>3, <2>4 DEF TypeInv
  <2> QED
    BY <2>1, <2>2, <2>3, <2>5 DEF BlocksInv
<1> QED
  BY <1>1, <1>2, <1>3, <1>4, <1>5, <1>6, <1>7, <1>8, <1>9, <1>10, <1>11
     DEF Next, Done

\* Both are invariants.
LEMMA BlocksAlways == Spec => [](TypeInv /\ BlocksInv)
<1>1. Init => TypeInv /\ BlocksInv
  <2> SUFFICES ASSUME Init
               PROVE  TypeInv /\ BlocksInv
    OBVIOUS
  <2>1. pc = "generate_fake_tid"
    BY DEF Init
  <2> QED
    BY <2>1, InitTypes DEF BlocksInv
<1>2. TypeInv /\ BlocksInv /\ [Next]_vars => (TypeInv /\ BlocksInv)'
  BY BlocksStep
<1> QED
  BY <1>1, <1>2, PTL DEF Spec

\* The variables of save() have their types; align_synch_bb never leaves the
\* threads or their regions.
THEOREM SavedTypes == Spec => []TypeOK
<1>1. TypeInv => TypeOK
  <2> SUFFICES ASSUME TypeInv
               PROVE  TypeOK
    OBVIOUS
  <2>1. ASSUME NEW i \in DOMAIN threads, NEW k \in Ids
        PROVE  /\ threads[i].regions[k].instr_count \in Nat
               /\ threads[i].regions[k].bbv \in
                    Counts(DOMAIN threads[i].regions[k].bbv)
    <3>1. threads \in [Tids -> Thread]
      BY <2>1 DEF TypeInv
    <3>2. threads[i].regions[k] \in Region
      BY <2>1, <3>1 DEF Thread
    <3> QED
      BY <3>2 DEF Region, Vector, Counts
  <2> QED
    BY <2>1 DEF TypeInv, TypeOK, Labels
<1> QED
  BY <1>1, BlocksAlways, PTL

----------------------------------------------------------------------------
(* The instruction counts.                                                 *)

\* The instructions of the first block of a function in L that region g has.
EntriesIn(g, L) == IF g.name \in L THEN g.bbv[g.name] ELSE 0

\* What region k of thread i takes over from the region before.
Carry(i, k) ==
  IF k = 0 THEN 0 ELSE EntriesIn(given[i].regions[k - 1], Fn)

\* What it has taken over so far.
Carried(i, k) ==
  IF Before(i, k) \/ (i = ti /\ k = id /\ todo # {}) THEN Carry(i, k) ELSE 0

\* The count of region k of thread i in the file.
Due(i, k) ==
  LET g == given[i].regions[k]
  IN  g.instr_count - EntriesIn(g, Fn) + Carry(i, k)

\* A region has the count it was given, without the first blocks found so far
\* and with what it has taken over.  The balance is what has been taken out of
\* this region, or, between two, what the next one takes over.
CountsInv ==
  /\ pc \notin {"generate_fake_tid", "done"} =>
       \A i \in Tids : \A k \in Ids :
         LET g == given[i].regions[k]
         IN  threads[i].regions[k].instr_count =
               g.instr_count - EntriesIn(g, Looked(i, k)) + Carried(i, k)
  /\ pc \in {"generate_fake_tid", "align_synch_bb"} =>
       balance = IF todo # {}
                 THEN EntriesIn(given[ti].regions[id], Fn \ todo)
                 ELSE IF ti \in Tids THEN Carry(ti, id) ELSE 0
  /\ pc \notin {"generate_fake_tid", "align_synch_bb",
                "save_bbv_inst_count"} =>
       inst_file = [k \in 1..synch_count |-> [i \in Tids |-> Due(i, k - 1)]]

\* The entries of a region given are those of the function it ends with.
LEMMA EntriesGiven ==
  ASSUME NEW g, RegionGiven(g)
  PROVE  /\ Entries(g) = EntriesIn(g, Fn)
         /\ g.instr_count \in Nat
         /\ \A L \in SUBSET Fn : /\ EntriesIn(g, L) \in Nat
                                 /\ EntriesIn(g, L) <= g.instr_count
<1> DEFINE v == g.bbv
           e == [f \in Fn \cap DOMAIN v |-> v[f]]
           D == DOMAIN v
<1>1. /\ g.instr_count \in Nat /\ IsFiniteSet(D) /\ v \in [D -> Nat]
      /\ Fn \cap D = Fn \cap {g.name} /\ g.instr_count = Total(v)
  BY DEF RegionGiven, Region, Vector, Total, SumOf
<1>2. Entries(g) = Total(e)
  BY DEF Entries, SumOf, Total
<1> HIDE DEF v, D
<1>3. CASE g.name \notin Fn
  <2>1. Fn \cap D = {}
    BY <1>1, <1>3
  <2> DEFINE E == Fn \cap DOMAIN v
  <2>2. e \in [E -> Int] /\ E = {} /\ IsFiniteSet(E)
    BY <2>1, FS_EmptySet DEF D
  <2> HIDE DEF e, E
  <2>3. TotalSplits(e, E)
    BY <2>2, TotalMore
  <2>4. Total(e) = 0
    BY <2>2, <2>3 DEF TotalSplits
  <2> QED
    BY <1>1, <1>2, <1>3, <2>4 DEF EntriesIn
<1>4. CASE g.name \in Fn
  <2> DEFINE f == g.name
             E == Fn \cap DOMAIN v
  <2>1. E = {f} /\ f \in D
    BY <1>1, <1>4 DEF D
  <2>2. v[f] \in Nat
    BY <1>1, <2>1
  <2>3. e \in [E -> Int] /\ e[f] = v[f]
    BY <1>1, <2>1, <2>2
  <2>4. IsFiniteSet(E)
    BY <2>1, FS_Singleton
  <2> HIDE DEF e, E, f
  <2>5. TotalSplits(e, E)
    BY <2>3, <2>4, TotalMore
  <2>6. Total(e) = v[f]
    <3> DEFINE w == Without(e, f)
    <3>1. w \in [{} -> Int] /\ Total(e) = e[f] + Total(w)
      BY <2>1, <2>5 DEF TotalSplits
    <3> HIDE DEF w
    <3>2. TotalSplits(w, {})
      BY <3>1, FS_EmptySet, TotalMore
    <3>3. Total(w) = 0
      BY <3>2 DEF TotalSplits
    <3> QED
      BY <2>2, <2>3, <3>1, <3>3
  <2>7. v[f] <= Total(v)
    <3> DEFINE w == Without(v, f)
               R == D \ {f}
    <3>1. TotalSplits(v, D)
      BY <1>1, TotalMore
    <3>2. Total(v) = v[f] + Total(w)
      BY <2>1, <3>1 DEF TotalSplits
    <3>3. w \in [R -> Nat] /\ IsFiniteSet(R)
      BY <1>1, FS_RemoveElement DEF Without
    <3> HIDE DEF w, R
    <3>4. Total(w) \in Nat
      BY <3>3, TotalNat
    <3> QED
      BY <2>2, <3>2, <3>4
  <2> QED
    BY <1>1, <1>2, <1>4, <2>2, <2>6, <2>7 DEF EntriesIn, f, v
<1> QED
  BY <1>3, <1>4

\* The counts that the invariant adds up are natural numbers.
LEMMA CarryGiven ==
  ASSUME Given, NEW i \in Tids, NEW k \in Ids
  PROVE  Carry(i, k) \in Nat
<1>1. CASE k = 0
  BY <1>1 DEF Carry
<1>2. CASE k # 0
  <2>1. k - 1 \in Ids
    BY <1>2 DEF Ids, Given
  <2>2. RegionGiven(given[i].regions[k - 1])
    BY <2>1 DEF Given
  <2>3. EntriesIn(given[i].regions[k - 1], Fn) \in Nat
    BY <2>2, EntriesGiven
  <2> QED
    BY <1>2, <2>3 DEF Carry
<1> QED
  BY <1>1, <1>2

\* What a turn of a loop does to what has been taken over.
LEMMA CarriedAfter ==
  ASSUME TypeInv, ti \in Tids, Advance, UNCHANGED <<synch_count, given>>,
         todo' \in SUBSET Fn
  PROVE  \A i \in Tids : \A k \in Ids :
           (Carried(i, k))' = IF i = ti /\ k = id THEN Carry(i, k)
                              ELSE Carried(i, k)
<1> SUFFICES ASSUME NEW i \in Tids, NEW k \in Ids
             PROVE  (Carried(i, k))' = IF i = ti /\ k = id THEN Carry(i, k)
                                       ELSE Carried(i, k)
  OBVIOUS
<1>1. /\ synch_count \in Nat \ {0} /\ id \in 0..(synch_count - 1)
      /\ ti \in 1..NumThreads /\ NumThreads \in Nat
      /\ i \in 1..NumThreads /\ k \in 0..(synch_count - 1)
  BY CountAssumption DEF TypeInv, Given, Ids, Tids
<1>2. (Carry(i, k))' = Carry(i, k)
  BY DEF Carry
<1>3. CASE todo' # {}
  <2>1. ti' = ti /\ id' = id
    BY <1>3 DEF Advance
  <2> QED
    BY <1>1, <1>2, <1>3, <2>1 DEF Carried, Before
<1>4. CASE todo' = {}
  <2>1. (Before(i, k))' <=> Before(i, k) \/ (i = ti /\ k = id)
    BY <1>1, <1>4 DEF Before, Advance, MoreRegions
  <2> QED
    BY <1>1, <1>2, <1>4, <2>1 DEF Carried, Before
<1> QED
  BY <1>3, <1>4

\* What has been taken out of a region when the inner loop leaves it is what
\* the next one takes over; behind the last region it is nothing.
LEMMA BalanceAfter ==
  ASSUME TypeInv, ti \in Tids, Advance, UNCHANGED <<synch_count, given>>,
         todo' \in SUBSET Fn,
         balance' = EntriesIn(given[ti].regions[id], Fn \ todo')
  PROVE  balance' = IF todo' # {}
                    THEN EntriesIn(given'[ti'].regions[id'], Fn \ todo')
                    ELSE IF ti' \in Tids THEN (Carry(ti, id))' ELSE 0
<1>1. /\ synch_count \in Nat \ {0} /\ id \in Ids
      /\ todo' # {} => ti' = ti /\ id' = id
      /\ todo' = {} /\ id # synch_count - 1 => ti' = ti /\ id' = id + 1
      /\ todo' = {} /\ id = synch_count - 1 => ti' = ti + 1 /\ id' = 0
  BY AdvanceStays DEF TypeInv, Given
<1>2. CASE todo' # {}
  BY <1>1, <1>2
<1>3. CASE todo' = {} /\ id # synch_count - 1
  <2>1. id \in Nat /\ id' # 0 /\ id' - 1 = id
    BY <1>1, <1>3 DEF Ids
  <2>2. (Carry(ti, id))' = EntriesIn(given[ti].regions[id], Fn)
    BY <1>1, <1>3, <2>1 DEF Carry
  <2> QED
    BY <1>1, <1>3, <2>2
<1>4. CASE todo' = {} /\ id = synch_count - 1
  <2>1. given[ti].regions[id].name \notin Fn
    BY <1>4 DEF TypeInv, Given
  <2>2. balance' = 0
    BY <1>4, <2>1 DEF EntriesIn
  <2>3. (Carry(ti, id))' = 0
    BY <1>1, <1>4 DEF Carry
  <2> QED
    BY <1>4, <2>2, <2>3
<1> QED
  BY <1>2, <1>3, <1>4

\* Actions that leave threads and balance alone keep the counts.
LEMMA QuietCounts ==
  ASSUME CountsInv, UNCHANGED <<threads, synch_count, aligning, given>>,
         pc \notin {"generate_fake_tid", "done"},
         pc' # "align_synch_bb", pc' # "generate_fake_tid",
         pc' = "save_bbv_inst_count" \/
           inst_file' = [k \in 1..synch_count |->
                           [i \in Tids |-> Due(i, k - 1)]]
  PROVE  CountsInv'
<1>1. Ids' = Ids
  BY DEF Ids
<1>2. ASSUME NEW i, NEW k
      PROVE  /\ (Looked(i, k))' = Looked(i, k)
             /\ (Carried(i, k))' = Carried(i, k)
             /\ (Due(i, k))' = Due(i, k)
  BY DEF Looked, Carried, Carry, Before, Due, aligning
<1>3. [k \in 1..synch_count |-> [i \in Tids |-> Due(i, k - 1)]] =
      [k \in 1..synch_count |-> [i \in Tids |-> (Due(i, k - 1))']]
  BY <1>2
<1> QED
  BY <1>1, <1>2, <1>3 DEF CountsInv

\* Every step keeps the counts, when the erased entry still reads as it did.
LEMMA CountsStep ==
  ASSUME Garbage = {}, TypeInv, BlocksInv, CountsInv, [Next]_vars
  PROVE  CountsInv'
<1> USE DEF Labels
<1>1. CASE generate_fake_tid
  <2>1. /\ pc' = "align_synch_bb" /\ Ids' = Ids
        /\ UNCHANGED <<synch_count, ti, id, todo, balance, given>>
        /\ ti = 1 /\ id = 0 /\ todo = {} /\ balance = 0
    BY <1>1 DEF generate_fake_tid, Then, aligning, Ids, TypeInv, Unsorted
  <2>2. threads' = [i \in Tids |-> [given[i] EXCEPT !.fake_tid = i - 1]]
    BY <1>1, TidOrder
  <2>3. \A i \in Tids : threads'[i].regions = given[i].regions
    BY <2>2 DEF TypeInv, Given, Thread
  <2>4. \A i \in Tids : \A k \in Ids :
          (Looked(i, k))' = {} /\ (Carried(i, k))' = 0
    BY <2>1, CountAssumption DEF Looked, Carried, Before, Tids, Ids
  <2>5. \A i \in Tids : \A k \in Ids :
          /\ given[i].regions[k].instr_count \in Nat
          /\ EntriesIn(given[i].regions[k], {}) = 0
    BY EntriesGiven DEF TypeInv, Given, EntriesIn
  <2>6. (Carry(ti, id))' = 0
    BY <2>1 DEF Carry
  <2>7. ASSUME NEW i \in Tids, NEW k \in Ids
        PROVE  LET g == given'[i].regions[k]
               IN  threads'[i].regions[k].instr_count =
                     g.instr_count - EntriesIn(g, (Looked(i, k))')
                       + (Carried(i, k))'
    <3> DEFINE g == given[i].regions[k]
    <3>1. /\ given'[i].regions[k] = g
          /\ threads'[i].regions[k] = g
      BY <2>1, <2>3
    <3>2. /\ (Looked(i, k))' = {} /\ (Carried(i, k))' = 0
          /\ g.instr_count \in Nat /\ EntriesIn(g, {}) = 0
      BY <2>4, <2>5
    <3> HIDE DEF g
    <3> QED
      BY <3>1, <3>2
  <2>8. balance' = IF todo' # {}
                   THEN EntriesIn(given'[ti'].regions[id'], Fn \ todo')
                   ELSE IF ti' \in Tids THEN (Carry(ti, id))' ELSE 0
    BY <2>1, <2>6
  <2> QED
    BY <2>1, <2>7, <2>8 DEF CountsInv
<1>2. CASE AlignRegion /\ ti \in Tids
  <2>1. /\ Replaced(threads, threads', ti, id,
                    Counted(threads[ti].regions[id], balance))
        /\ pc = "align_synch_bb" /\ pc' = pc
        /\ todo = {} /\ todo' = Fn /\ balance' = 0 /\ Advance
        /\ UNCHANGED <<synch_count, files, given>>
    BY <1>2, RegionStep
  <2>2. /\ Given /\ Ids' = Ids /\ id \in Ids
        /\ threads \in [Tids -> Thread]
    BY <2>1, GivenStays DEF TypeInv
  <2>3. \A i \in Tids : \A k \in Ids :
          /\ (Looked(i, k))' = Looked(i, k)
          /\ (Carried(i, k))' = IF i = ti /\ k = id THEN Carry(i, k)
                                ELSE Carried(i, k)
    <3>1. Looked(ti, id) = {}
      BY <1>2, <2>1, CountAssumption DEF Looked, Before, Tids, TypeInv, Ids,
                                         Given
    <3>2. \A i \in Tids : \A k \in Ids :
            (Looked(i, k))' = IF i = ti /\ k = id THEN Fn \ todo'
                              ELSE Looked(i, k)
      BY <1>2, <2>1, LookedAfter
    <3>3. \A i \in Tids : \A k \in Ids :
            (Carried(i, k))' = IF i = ti /\ k = id THEN Carry(i, k)
                               ELSE Carried(i, k)
      BY <1>2, <2>1, CarriedAfter
    <3> QED
      BY <2>1, <3>1, <3>2, <3>3
  <2>4. /\ balance = Carry(ti, id) /\ Carried(ti, id) = 0
        /\ Carry(ti, id) \in Nat
    <3>1. balance = Carry(ti, id)
      BY <1>2, <2>1 DEF CountsInv
    <3>2. Carried(ti, id) = 0
      BY <1>2, <2>1, CountAssumption DEF Carried, Before, Tids, TypeInv, Ids,
                                         Given
    <3> QED
      BY <1>2, <2>2, <3>1, <3>2, CarryGiven
  <2>5. balance' = EntriesIn(given[ti].regions[id], Fn \ todo')
    BY <2>1 DEF EntriesIn
  <2>6. balance' = IF todo' # {}
                   THEN EntriesIn(given'[ti'].regions[id'], Fn \ todo')
                   ELSE IF ti' \in Tids THEN (Carry(ti, id))' ELSE 0
    BY <1>2, <2>1, <2>5, BalanceAfter
  <2>7. ASSUME NEW i \in Tids, NEW k \in Ids
        PROVE  LET g == given[i].regions[k]
               IN  threads'[i].regions[k].instr_count =
                     g.instr_count - EntriesIn(g, (Looked(i, k))')
                       + (Carried(i, k))'
    <3>1. LET g == given[i].regions[k]
          IN  threads[i].regions[k].instr_count =
                g.instr_count - EntriesIn(g, Looked(i, k)) + Carried(i, k)
      BY <2>1 DEF CountsInv
    <3>2. CASE ~(i = ti /\ k = id)
      <4>1. threads'[i].regions[k] = threads[i].regions[k]
        BY <2>1, <3>2 DEF Replaced
      <4> QED
        BY <2>3, <3>1, <3>2, <4>1
    <3>3. CASE i = ti /\ k = id
      <4> DEFINE s == threads[ti].regions[id]
                 g == given[ti].regions[id]
                 e == EntriesIn(g, Looked(ti, id))
      <4>1. s \in Region
        BY <1>2, <2>2 DEF Thread
      <4>2. threads'[ti].regions[id] = Counted(s, balance)
        BY <1>2, <2>1, <2>2 DEF Replaced
      <4> HIDE DEF s
      <4>3. threads'[ti].regions[id].instr_count = s.instr_count + balance
        BY <4>1, <4>2 DEF Counted, Region
      <4>4. s.instr_count = g.instr_count - e + 0
        BY <2>4, <3>1, <3>3 DEF s
      <4>5. g.instr_count \in Nat /\ e \in Nat
        <5>1. RegionGiven(g)
          BY <1>2, <2>2 DEF Given
        <5>2. Looked(ti, id) \in SUBSET Fn
          BY DEF Looked
        <5> HIDE DEF g
        <5> QED
          BY <5>1, <5>2, EntriesGiven
      <4>6. /\ (Carried(i, k))' = Carry(ti, id)
            /\ (Looked(i, k))' = Looked(ti, id)
        BY <2>3, <3>3
      <4> HIDE DEF e
      <4>7. threads'[ti].regions[id].instr_count =
              g.instr_count - e + Carry(ti, id)
        BY <2>4, <4>3, <4>4, <4>5
      <4> QED
        BY <3>3, <4>6, <4>7 DEF e
    <3> QED
      BY <3>2, <3>3
  <2> QED
    BY <2>1, <2>2, <2>6, <2>7 DEF CountsInv
<1>3. CASE AlignRegion /\ ti \notin Tids
  <2>1. ti = NumThreads + 1 /\ todo = {} /\ pc = "align_synch_bb"
    BY <1>3, CountAssumption DEF TypeInv, Tids, AlignRegion
  <2>2. Len(threads) = NumThreads
    <3>1. threads \in [1..NumThreads -> Thread]
      BY <2>1 DEF TypeInv, Tids
    <3>2. threads \in Seq(Thread) /\ DOMAIN threads = 1..NumThreads
      BY <3>1, CountAssumption
    <3> QED
      BY <3>2, CountAssumption, LenProperties
  <2>3. /\ pc' = "save_bbv_inst_count"
        /\ UNCHANGED <<threads, aligning, synch_count, given>>
    BY <1>3, <2>1, <2>2, CountAssumption DEF AlignRegion
  <2> QED
    BY <2>1, <2>3, QuietCounts
<1>4. ASSUME NEW f \in Fn, AlignFunction(f)
      PROVE  CountsInv'
  <2>1. /\ pc = "align_synch_bb" /\ pc' = pc /\ Advance
        /\ f \in todo /\ todo' = todo \ {f} /\ todo' \in SUBSET Fn
        /\ UNCHANGED <<synch_count, files, given>>
        /\ ti \in Tids /\ id \in Ids
    BY <1>4 DEF AlignFunction, TypeInv
  <2>2. Given /\ Ids' = Ids /\ threads \in [Tids -> Thread]
    BY <2>1, GivenStays DEF TypeInv
  <2> DEFINE s == threads[ti].regions[id]
             g == given[ti].regions[id]
  <2>3. \A i \in Tids : \A k \in Ids :
          /\ (Looked(i, k))' = IF i = ti /\ k = id THEN Fn \ todo'
                               ELSE Looked(i, k)
          /\ (Carried(i, k))' = IF i = ti /\ k = id THEN Carry(i, k)
                                ELSE Carried(i, k)
    BY <2>1, LookedAfter, CarriedAfter
  <2>4. Looked(ti, id) = Fn \ todo /\ Carried(ti, id) = Carry(ti, id)
    BY <2>1, CountAssumption DEF Looked, Carried, Before, Tids, TypeInv, Ids,
                                 Given
  <2>5. /\ RegionGiven(g) /\ s \in Region /\ Carry(ti, id) \in Nat
        /\ Rest(s, g, Fn \ todo)
    <3>1. RegionGiven(g) /\ s \in Region
      BY <2>1, <2>2 DEF Given, Thread
    <3>2. Rest(s, g, Looked(ti, id))
      BY <2>1 DEF BlocksInv
    <3> HIDE DEF g, s
    <3> QED
      BY <2>1, <2>2, <2>4, <3>1, <3>2, CarryGiven
  <2>6. /\ s.instr_count = g.instr_count - EntriesIn(g, Fn \ todo)
                             + Carry(ti, id)
        /\ balance = EntriesIn(g, Fn \ todo)
    BY <2>1, <2>4 DEF CountsInv
  <2>7. f \in DOMAIN s.bbv <=> f = g.name
    BY <2>1, <2>5 DEF Rest, RegionGiven
  <2>8. /\ balance' = EntriesIn(g, Fn \ todo')
        /\ threads'[ti].regions[id].instr_count =
             g.instr_count - EntriesIn(g, Fn \ todo') + Carry(ti, id)
        /\ \A i \in Tids : \A k \in Ids :
             ~(i = ti /\ k = id) =>
               threads'[i].regions[k] = threads[i].regions[k]
    <3>1. CASE f \in DOMAIN s.bbv
      <4>1. /\ Replaced(threads, threads', ti, id, TakenOut(s, f, balance'))
            /\ balance' = s.bbv[f]
        BY <1>4, <3>1, FunctionStep
      <4>2. threads'[ti].regions[id] = TakenOut(s, f, balance')
        BY <2>1, <4>1 DEF Replaced
      <4>3. \A i \in Tids : \A k \in Ids :
             ~(i = ti /\ k = id) =>
               threads'[i].regions[k] = threads[i].regions[k]
        BY <4>1 DEF Replaced
      <4> HIDE DEF s, g
      <4>4. /\ EntriesIn(g, Fn \ todo) = 0
            /\ EntriesIn(g, Fn \ todo') = g.bbv[f]
            /\ EntriesIn(g, Fn) = g.bbv[f]
            /\ s.bbv[f] = g.bbv[f]
        BY <2>1, <2>5, <2>7, <3>1 DEF EntriesIn, Rest
      <4>5. /\ g.instr_count \in Nat /\ EntriesIn(g, Fn) \in Nat
            /\ EntriesIn(g, Fn) <= g.instr_count
        BY <2>5, EntriesGiven
      <4>6. threads'[ti].regions[id].instr_count =
              IF s.instr_count >= balance' THEN s.instr_count - balance'
              ELSE 0
        BY <2>5, <4>2 DEF TakenOut, Region
      <4> QED
        BY <2>5, <2>6, <4>1, <4>3, <4>4, <4>5, <4>6
    <3>2. CASE f \notin DOMAIN s.bbv
      <4>1. UNCHANGED <<threads, balance>>
        BY <1>4, <3>2 DEF AlignFunction
      <4>2. EntriesIn(g, Fn \ todo') = EntriesIn(g, Fn \ todo)
        BY <2>1, <2>7, <3>2 DEF EntriesIn
      <4> QED
        BY <2>6, <4>1, <4>2
    <3> QED
      BY <3>1, <3>2
  <2> HIDE DEF s
  <2>9. balance' = IF todo' # {}
                   THEN EntriesIn(given'[ti'].regions[id'], Fn \ todo')
                   ELSE IF ti' \in Tids THEN (Carry(ti, id))' ELSE 0
    BY <2>1, <2>8, BalanceAfter
  <2> HIDE DEF g
  <2>10. ASSUME NEW i \in Tids, NEW k \in Ids
         PROVE  LET h == given[i].regions[k]
                IN  threads'[i].regions[k].instr_count =
                      h.instr_count - EntriesIn(h, (Looked(i, k))')
                        + (Carried(i, k))'
    <3>1. LET h == given[i].regions[k]
          IN  threads[i].regions[k].instr_count =
                h.instr_count - EntriesIn(h, Looked(i, k)) + Carried(i, k)
      BY <2>1 DEF CountsInv
    <3> QED
      BY <2>3, <2>8, <3>1 DEF g
  <2> QED
    BY <2>1, <2>2, <2>9, <2>10 DEF CountsInv
<1>5. CASE save_bbv_inst_count
  <2>1. /\ UNCHANGED <<threads, synch_count, aligning, given>>
        /\ pc = "save_bbv_inst_count" /\ pc' = "save_bp_id"
        /\ inst_file' = [k \in 1 .. synch_count |->
                           [i \in DOMAIN threads |->
                              threads[i].regions[k - 1].instr_count]]
    BY <1>5 DEF save_bbv_inst_count, Then
  <2>2. DOMAIN threads = Tids /\ Given
    BY <2>1 DEF TypeInv
  <2>3. \A i \in Tids : \A k \in Ids :
          threads[i].regions[k].instr_count = Due(i, k)
    <3> SUFFICES ASSUME NEW i \in Tids, NEW k \in Ids
                 PROVE  threads[i].regions[k].instr_count = Due(i, k)
      OBVIOUS
    <3>1. Before(i, k)
      BY <2>1, CountAssumption DEF BlocksInv, Before, Tids
    <3> QED
      BY <2>1, <3>1 DEF CountsInv, Due, Looked, Carried
  <2>4. \A k \in 1..synch_count : k - 1 \in Ids
    BY <2>2 DEF Ids, Given
  <2>5. inst_file' = [k \in 1..synch_count |-> [i \in Tids |-> Due(i, k - 1)]]
    BY <2>1, <2>2, <2>3, <2>4
  <2> QED
    BY <2>1, <2>5, QuietCounts
<1>6. CASE save_bp_id
  BY <1>6, QuietCounts DEF save_bp_id, Then, CountsInv
<1>7. CASE save_bbv_count
  BY <1>7, QuietCounts DEF save_bbv_count, Then, CountsInv
<1>8. CASE save_ldv_hist
  BY <1>8, QuietCounts DEF save_ldv_hist, Then, CountsInv
<1>9. CASE save_ldv_bb
  BY <1>9, QuietCounts DEF save_ldv_bb, Then, CountsInv
<1>10. CASE free
  <2>1. /\ UNCHANGED <<synch_count, inst_file, given>>
        /\ pc = "free" /\ pc' = "done"
    BY <1>10 DEF free, Then, files
  <2>2. ASSUME NEW i, NEW k
        PROVE  (Due(i, k))' = Due(i, k)
    BY <2>1 DEF Due, Carry
  <2> QED
    BY <2>1, <2>2 DEF CountsInv
<1>11. CASE UNCHANGED vars
  <2>1. UNCHANGED <<threads, pc, synch_count, ti, id, todo, balance, given,
                    inst_file>>
    BY <1>11 DEF vars, aligning, files
  <2>2. Ids' = Ids
    BY <2>1 DEF Ids
  <2>3. ASSUME NEW i, NEW k
        PROVE  /\ (Looked(i, k))' = Looked(i, k)
               /\ (Carried(i, k))' = Carried(i, k)
               /\ (Due(i, k))' = Due(i, k)
               /\ (Carry(i, k))' = Carry(i, k)
    BY <2>1 DEF Looked, Carried, Carry, Before, Due
  <2> QED
    BY <2>1, <2>2, <2>3 DEF CountsInv
<1> QED
  BY <1>1, <1>2, <1>3, <1>4, <1>5, <1>6, <1>7, <1>8, <1>9, <1>10, <1>11
     DEF Next, Done

\* The counts of .bbv_inscount are those of the regions, with the first block
\* of each function moved from the region it ends to the next one.  The entry
\* that align_synch_bb reads after erasing it must still hold its value.
THEOREM CountsMoved == Garbage = {} /\ Spec => []InstMoved
<1> SUFFICES ASSUME Garbage = {}
             PROVE  Spec => []InstMoved
  OBVIOUS
<1>1. Init => CountsInv
  <2> SUFFICES ASSUME Init
               PROVE  CountsInv
    OBVIOUS
  <2>1. pc = "generate_fake_tid" /\ id = 0 /\ todo = {} /\ balance = 0
    BY DEF Init
  <2> QED
    BY <2>1 DEF CountsInv, Carry
<1>2. TypeInv /\ BlocksInv /\ CountsInv /\ [Next]_vars => CountsInv'
  BY CountsStep
<1>3. TypeInv /\ CountsInv => InstMoved
  <2> SUFFICES ASSUME TypeInv, CountsInv, Finished,
                      NEW i \in Tids, NEW k \in Ids
               PROVE  inst_file[k + 1][i] =
                        LET r == given[i].regions
                        IN  r[k].instr_count - Entries(r[k])
                              + IF k = 0 THEN 0 ELSE Entries(r[k - 1])
    BY DEF InstMoved, Tids
  <2>1. Given /\ synch_count \in Nat \ {0} /\ k \in 0..(synch_count - 1)
    BY DEF TypeInv, Given, Ids
  <2>2. inst_file[k + 1][i] = Due(i, (k + 1) - 1)
    BY <2>1 DEF CountsInv, Finished
  <2>3. (k + 1) - 1 = k
    BY <2>1
  <2>4. Entries(given[i].regions[k]) = EntriesIn(given[i].regions[k], Fn)
    BY <2>1, EntriesGiven DEF Given
  <2>5. CASE k = 0
    BY <2>2, <2>3, <2>4, <2>5 DEF Due, Carry
  <2>6. CASE k # 0
    <3>1. k - 1 \in Ids
      BY <2>1, <2>6 DEF Ids
    <3>2. RegionGiven(given[i].regions[k - 1])
      BY <2>1, <3>1 DEF Given
    <3>3. Entries(given[i].regions[k - 1]) =
            EntriesIn(given[i].regions[k - 1], Fn)
      BY <3>2, EntriesGiven
    <3> QED
      BY <2>2, <2>3, <2>4, <2>6, <3>3 DEF Due, Carry
  <2> QED
    BY <2>5, <2>6
<1> QED
  BY <1>1, <1>2, <1>3, BlocksAlways, PTL DEF Spec

----------------------------------------------------------------------------
(* The numbers of the dimensions.                                          *)

\* What the threads have in region k.
Column(own, k) == [i \in Tids |-> own[i][k]]

\* The entries of a line have the things in S, each with the number it has
\* among w of them and the thread's share of numbers.
Numbered(line, num, w, S) ==
  {e[1] : e \in line} = {num[p[2]] + (p[1] - 1) * w : p \in Pairs(Tids, S)}

\* num numbers what own gives the threads, and the lines of file have that.
CodedBy(file, own, num, w) ==
  /\ DOMAIN file = 1..synch_count
  /\ \A i \in Tids : \A k \in Ids : \A a \in own[i][k] : num[a] \in 1..w
  /\ \A i, j \in Tids : \A k, m \in Ids :
       \A a \in own[i][k] : \A b \in own[j][m] : num[a] = num[b] => a = b
  /\ \A k \in Ids : Numbered(file[k + 1], num, w, Column(own, k))

\* Some numbering does.
Coded(file, own) == \E w \in Nat : \E num : CodedBy(file, own, num, w)

\* The file, and each line of it, has as many numbers as there are things.
Decodes(file, own) ==
  /\ Cardinality({e[1] : e \in UNION Range(file)}) =
       Cardinality(UNION {{i} \X own[i][k] : i \in Tids, k \in Ids})
  /\ \A k \in Ids :
       Cardinality({e[1] : e \in file[k + 1]}) =
       SumOf([i \in Tids |-> Cardinality(own[i][k])])

\* Such a file can be decoded.
LEMMA CodedDecodes ==
  ASSUME Given, NEW own, \A i \in Tids : \A k \in Ids : IsFiniteSet(own[i][k]),
         NEW file, Coded(file, own)
  PROVE  Decodes(file, own)
<1>1. PICK w, num : w \in Nat /\ CodedBy(file, own, num, w)
  BY DEF Coded
<1> DEFINE All == UNION {{i} \X own[i][k] : i \in Tids, k \in Ids}
           line(k) == Pairs(Tids, Column(own, k))
           code == [p \in All |-> num[p[2]] + (p[1] - 1) * w]
<1>2. /\ IsFiniteSet(Tids) /\ IsFiniteSet(Ids)
      /\ Ids = 0..(synch_count - 1) /\ synch_count \in Nat \ {0}
  <2>1. synch_count \in Nat \ {0} /\ NumThreads \in Nat
    BY CountAssumption DEF Given
  <2> QED
    BY <2>1, FS_Interval DEF Tids, Ids
<1> USE DEF CodedBy
<1>3. ASSUME NEW k \in Ids
      PROVE  /\ IsFiniteSet(line(k))
             /\ Cardinality(line(k)) =
                  SumOf([i \in Tids |-> Cardinality(own[i][k])])
  <2> DEFINE C == Column(own, k)
  <2>1. \A i \in Tids : C[i] = own[i][k] /\ IsFiniteSet(C[i])
    BY DEF Column
  <2>2. [i \in Tids |-> Cardinality(C[i])] =
        [i \in Tids |-> Cardinality(own[i][k])]
    BY <2>1
  <2> HIDE DEF C
  <2>3. /\ IsFiniteSet(Pairs(Tids, C))
        /\ Cardinality(Pairs(Tids, C)) =
             Total([i \in Tids |-> Cardinality(C[i])])
    BY <1>2, <2>1, PairsSize
  <2>4. \A f : SumOf(f) = Total(f)
    BY DEF SumOf, Total
  <2>5. line(k) = Pairs(Tids, C)
    BY DEF C
  <2> HIDE DEF line
  <2> QED
    BY <2>2, <2>3, <2>4, <2>5
<1>4. \A k \in Ids : \A p :
        p \in line(k) <=> \E i \in Tids : p \in {i} \X own[i][k]
  BY DEF Pairs, Column
<1>5. \A p : p \in All <=> \E k \in Ids : p \in line(k)
  <2>1. \A p : p \in All <=>
               \E i \in Tids : \E k \in Ids : p \in {i} \X own[i][k]
    <3> DEFINE e(i, k) == {i} \X own[i][k]
    <3>1. \A p : p \in UNION {e(i, k) : i \in Tids, k \in Ids} <=>
                 \E i \in Tids : \E k \in Ids : p \in e(i, k)
      <4> HIDE DEF e
      <4> QED
        OBVIOUS
    <3> QED
      BY <3>1
  <2> HIDE DEF All, line
  <2> QED
    BY <1>4, <2>1
<1>6. IsFiniteSet(All)
  <2> DEFINE f == [k \in Ids |-> line(k)]
  <2>1. DOMAIN f = Ids /\ \A k \in Ids : f[k] = line(k)
    OBVIOUS
  <2> HIDE DEF f, line
  <2>2. IsFiniteSet(AllOf(f))
    BY <1>2, <1>3, <2>1, FiniteFamily
  <2> HIDE DEF All
  <2>3. All = AllOf(f)
    BY <1>5, <2>1 DEF AllOf
  <2> QED
    BY <2>2, <2>3
<1>7. ASSUME NEW p \in All
      PROVE  /\ p[1] \in Tids /\ p[1] - 1 \in Nat
             /\ num[p[2]] \in 1..w
             /\ p = <<p[1], p[2]>>
             /\ \E k \in Ids : p[2] \in own[p[1]][k]
  <2>1. PICK i \in Tids, k \in Ids : p \in {i} \X own[i][k]
    OBVIOUS
  <2>2. p[1] = i /\ p[2] \in own[i][k] /\ p = <<p[1], p[2]>>
    BY <2>1
  <2> HIDE DEF All
  <2> QED
    BY <1>1, <2>2, CountAssumption DEF Tids
<1> HIDE DEF All
<1>8. \A p, q \in All : code[p] = code[q] => p = q
  <2> SUFFICES ASSUME NEW p \in All, NEW q \in All, code[p] = code[q]
               PROVE  p = q
    OBVIOUS
  <2> DEFINE a == p[1] - 1
             b == q[1] - 1
             r == num[p[2]] - 1
             s == num[q[2]] - 1
  <2>1. /\ a \in Int /\ b \in Int /\ r \in 0..(w - 1) /\ s \in 0..(w - 1)
        /\ w \in Nat \ {0}
    <3>1. w \in Nat
      BY <1>1
    <3>2. num[p[2]] \in 1..w /\ num[q[2]] \in 1..w
      BY <1>7
    <3>3. a \in Int /\ b \in Int
      BY <1>7
    <3> HIDE DEF a, b
    <3> QED
      BY <3>1, <3>2, <3>3
  <2>2. w * a + r = w * b + s
    <3>1. num[p[2]] + (p[1] - 1) * w = num[q[2]] + (q[1] - 1) * w
      OBVIOUS
    <3>2. (r + 1) + a * w = (s + 1) + b * w
      BY <1>7, <3>1
    <3> HIDE DEF a, b, r, s
    <3>3. a * w = w * a /\ b * w = w * b
      BY <2>1
    <3>4. w * a \in Int /\ w * b \in Int
      BY <2>1
    <3> QED
      BY <2>1, <3>2, <3>3, <3>4
  <2>3. a = b /\ r = s
    <3> HIDE DEF a, b, r, s
    <3> QED
      BY <2>1, <2>2, OneQuotient
  <2>4. p[1] = q[1] /\ num[p[2]] = num[q[2]]
    BY <1>7, <2>3, CountAssumption DEF Tids
  <2>5. p[2] = q[2]
    BY <1>1, <1>7, <2>4
  <2> QED
    BY <1>7, <2>4, <2>5
<1>9. \A p \in All : code[p] = num[p[2]] + (p[1] - 1) * w
  OBVIOUS
<1>10. code = [p \in All |-> code[p]]
  OBVIOUS
<1> HIDE DEF code
<1>11. \A k \in Ids : {e[1] : e \in file[k + 1]} = {code[p] : p \in line(k)}
  <2> SUFFICES ASSUME NEW k \in Ids
               PROVE  {e[1] : e \in file[k + 1]} = {code[p] : p \in line(k)}
    OBVIOUS
  <2>1. {e[1] : e \in file[k + 1]} =
          {num[p[2]] + (p[1] - 1) * w : p \in line(k)}
    BY <1>1 DEF Numbered
  <2>2. \A p \in line(k) : code[p] = num[p[2]] + (p[1] - 1) * w
    BY <1>5, <1>9
  <2> HIDE DEF line
  <2> QED
    BY <2>1, <2>2
<1> HIDE DEF line
<1>12. {e[1] : e \in UNION Range(file)} = {code[p] : p \in All}
  <2>1. \A k \in Ids : k + 1 \in 1..synch_count
    BY <1>2
  <2>2. \A n \in 1..synch_count : n - 1 \in Ids /\ (n - 1) + 1 = n
    BY <1>2
  <2>3. ASSUME NEW e \in UNION Range(file)
        PROVE  e[1] \in {code[p] : p \in All}
    <3>1. PICK n \in 1..synch_count : e \in file[n]
      BY <1>1 DEF Range
    <3>2. PICK k \in Ids : n = k + 1
      BY <2>2
    <3>3. e[1] \in {code[p] : p \in line(k)}
      BY <1>11, <3>1, <3>2
    <3> QED
      BY <1>5, <3>3
  <2>4. ASSUME NEW p \in All
        PROVE  code[p] \in {e[1] : e \in UNION Range(file)}
    <3>1. PICK k \in Ids : p \in line(k)
      BY <1>5
    <3>2. PICK e \in file[k + 1] : e[1] = code[p]
      BY <1>11, <3>1
    <3>3. k + 1 \in 1..synch_count
      BY <2>1
    <3>4. e \in UNION Range(file)
      BY <1>1, <3>2, <3>3 DEF Range
    <3> QED
      BY <3>2, <3>4
  <2> QED
    BY <2>3, <2>4
<1>13. Cardinality({code[p] : p \in All}) = Cardinality(All)
  BY <1>6, <1>8, <1>10, ImageSize
<1>14. ASSUME NEW k \in Ids
       PROVE  Cardinality({code[p] : p \in line(k)}) = Cardinality(line(k))
  <2> DEFINE S == line(k)
             g == [p \in S |-> code[p]]
  <2>1. IsFiniteSet(S)
    BY <1>3
  <2>2. \A x, y \in S : g[x] = g[y] => x = y
    BY <1>5, <1>8
  <2>3. g = [p \in S |-> g[p]]
    OBVIOUS
  <2>4. \A p \in S : g[p] = code[p]
    OBVIOUS
  <2> HIDE DEF g, S
  <2>5. Cardinality({g[p] : p \in S}) = Cardinality(S)
    BY <2>1, <2>2, <2>3, ImageSize
  <2>6. {g[p] : p \in S} = {code[p] : p \in S}
    BY <2>4
  <2> QED
    BY <2>5, <2>6 DEF S
<1>15. Cardinality({e[1] : e \in UNION Range(file)}) = Cardinality(All)
  BY <1>12, <1>13
<1>16. \A k \in Ids : Cardinality({e[1] : e \in file[k + 1]}) =
                        SumOf([i \in Tids |-> Cardinality(own[i][k])])
  BY <1>3, <1>11, <1>14
<1> QED
  BY <1>15, <1>16 DEF All, Decodes

\* The blocks of each thread in each region, without the first blocks of the
\* outlined functions, and the buckets of its histogram that are not empty.
OwnBlocks ==
  [i \in Tids |-> [k \in Ids |-> DOMAIN given[i].regions[k].bbv \ Fn]]
OwnBuckets ==
  [i \in Tids |-> [k \in Ids |->
     {j \in DOMAIN given[i].regions[k].lru_hist :
        given[i].regions[k].lru_hist[j] # 0}]]

\* They are finitely many.
LEMMA OwnFinite ==
  ASSUME Given, NEW i \in Tids, NEW k \in Ids
  PROVE  IsFiniteSet(OwnBlocks[i][k]) /\ IsFiniteSet(OwnBuckets[i][k])
<1> DEFINE g == given[i].regions[k]
           h == g.lru_hist
<1>1. g \in Region
  BY DEF Given, Thread
<1>2. OwnBlocks[i][k] = DOMAIN g.bbv \ Fn
  BY DEF OwnBlocks
<1>3. OwnBuckets[i][k] = {j \in DOMAIN h : h[j] # 0}
  BY DEF OwnBuckets
<1> HIDE DEF g
<1>4. IsFiniteSet(DOMAIN g.bbv) /\ h \in Seq(Nat)
  BY <1>1 DEF Region, Vector
<1>5. IsFiniteSet(DOMAIN g.bbv \ Fn)
  BY <1>4, FS_Difference
<1> HIDE DEF h
<1>6. Len(h) \in Nat /\ DOMAIN h = 1..Len(h)
  BY <1>4, LenProperties
<1>7. IsFiniteSet(DOMAIN h)
  BY <1>6, FS_Interval
<1>8. {j \in DOMAIN h : h[j] # 0} \in SUBSET DOMAIN h
  OBVIOUS
<1>9. IsFiniteSet({j \in DOMAIN h : h[j] # 0})
  BY <1>7, <1>8, FS_Subset
<1> QED
  BY <1>2, <1>3, <1>5, <1>9

\* After align_synch_bb the threads have their own blocks and no others.
LEMMA Aligned ==
  ASSUME TypeInv, BlocksInv,
         pc \notin {"generate_fake_tid", "align_synch_bb", "done"}
  PROVE  /\ threads \in [Tids -> Thread]
         /\ \A i \in Tids :
              /\ threads[i].fake_tid = i - 1
              /\ \A k \in Ids :
                   /\ DOMAIN threads[i].regions[k].bbv = OwnBlocks[i][k]
                   /\ threads[i].regions[k].lru_hist =
                        given[i].regions[k].lru_hist
<1>1. ti = NumThreads + 1
  BY DEF BlocksInv
<1>2. ASSUME NEW i \in Tids, NEW k \in Ids
      PROVE  Looked(i, k) = Fn
  BY <1>1, CountAssumption DEF Looked, Before, Tids
<1>3. ASSUME NEW i \in Tids, NEW k \in Ids
      PROVE  Rest(threads[i].regions[k], given[i].regions[k], Fn)
  BY <1>2 DEF BlocksInv
<1>4. ASSUME NEW i \in Tids, NEW k \in Ids
      PROVE  /\ DOMAIN threads[i].regions[k].bbv = OwnBlocks[i][k]
             /\ threads[i].regions[k].lru_hist =
                  given[i].regions[k].lru_hist
  BY <1>3 DEF Rest, OwnBlocks
<1>5. \A i \in Tids : threads[i].fake_tid = i - 1
  BY DEF BlocksInv
<1> QED
  BY <1>4, <1>5 DEF TypeInv


\* A line with an entry for each thing of each thread, and no other.
Line(line, t, num, w, S) ==
  /\ \A e \in line : \E i \in Tids : \E b \in S[i] :
       e[1] = Dimension(num[b], t[i], w)
  /\ \A i \in Tids : \A b \in S[i] : \E e \in line :
       e[1] = Dimension(num[b], t[i], w)

\* It has the numbers of the things.
LEMMA LineCoded ==
  ASSUME NEW t, \A i \in Tids : t[i].fake_tid = i - 1,
         NEW line, NEW num, NEW w, NEW S, Line(line, t, num, w, S)
  PROVE  Numbered(line, num, w, S)
<1>1. ASSUME NEW e \in line
      PROVE  \E p \in Pairs(Tids, S) : e[1] = num[p[2]] + (p[1] - 1) * w
  <2>1. PICK i \in Tids : \E b \in S[i] : e[1] = Dimension(num[b], t[i], w)
    BY DEF Line
  <2>2. PICK b \in S[i] : e[1] = Dimension(num[b], t[i], w)
    BY <2>1
  <2> DEFINE p == <<i, b>>
  <2>3. p \in Pairs(Tids, S) /\ p[1] = i /\ p[2] = b
    BY DEF Pairs
  <2>4. e[1] = num[b] + (i - 1) * w
    BY <2>2 DEF Dimension
  <2> HIDE DEF p
  <2> QED
    BY <2>3, <2>4
<1>2. ASSUME NEW p \in Pairs(Tids, S)
      PROVE  \E e \in line : e[1] = num[p[2]] + (p[1] - 1) * w
  <2>1. PICK i \in Tids : p \in {i} \X S[i]
    BY DEF Pairs
  <2>2. p[1] = i /\ p[2] \in S[i]
    BY <2>1
  <2>3. PICK e \in line : e[1] = Dimension(num[p[2]], t[i], w)
    BY <2>2 DEF Line
  <2> QED
    BY <2>2, <2>3 DEF Dimension
<1> QED
  BY <1>1, <1>2 DEF Numbered

\* What the sets of a table hold.
Everything(own) == UNION {own[i][k] : i \in Tids, k \in Ids}

\* It is finite when they are.
LEMMA TableFinite ==
  ASSUME Given, NEW own, \A i \in Tids : \A k \in Ids : IsFiniteSet(own[i][k])
  PROVE  /\ IsFiniteSet(Everything(own))
         /\ \A b : b \in Everything(own) <=>
                     \E i \in Tids : \E k \in Ids : b \in own[i][k]
<1>1. \A b : b \in Everything(own) <=>
               \E i \in Tids : \E k \in Ids : b \in own[i][k]
  <2> DEFINE e(i, k) == own[i][k]
  <2>1. \A b : b \in UNION {e(i, k) : i \in Tids, k \in Ids} <=>
                 \E i \in Tids : \E k \in Ids : b \in e(i, k)
    <3> HIDE DEF e
    <3> QED
      OBVIOUS
  <2> QED
    BY <2>1 DEF Everything
<1>2. IsFiniteSet(Tids) /\ IsFiniteSet(Ids)
  BY CountAssumption, FS_Interval DEF Tids, Ids, Given
<1> DEFINE row(i) == [k \in Ids |-> own[i][k]]
           f == [i \in Tids |-> AllOf(row(i))]
<1>3. ASSUME NEW i \in Tids
      PROVE  IsFiniteSet(AllOf(row(i)))
  <2> DEFINE g == row(i)
  <2>1. DOMAIN g = Ids /\ \A k \in Ids : IsFiniteSet(g[k])
    OBVIOUS
  <2> HIDE DEF g
  <2>2. IsFiniteSet(AllOf(g))
    BY <1>2, <2>1, FiniteFamily
  <2> QED
    BY <2>2 DEF g
<1>4. \A i \in Tids : \A b :
        b \in AllOf(row(i)) <=> \E k \in Ids : b \in own[i][k]
  BY DEF AllOf
<1> HIDE DEF row
<1>5. DOMAIN f = Tids /\ \A i \in Tids : f[i] = AllOf(row(i))
  OBVIOUS
<1> HIDE DEF f
<1>6. IsFiniteSet(AllOf(f))
  BY <1>2, <1>3, <1>5, FiniteFamily
<1>7. \A b : b \in AllOf(f) <=> \E i \in Tids : b \in f[i]
  BY <1>5 DEF AllOf
<1>8. \A b : b \in AllOf(f) <=> b \in Everything(own)
  BY <1>1, <1>4, <1>5, <1>7
<1>9. Everything(own) = AllOf(f)
  BY <1>8
<1> QED
  BY <1>1, <1>6, <1>9

\* The blocks are finitely many, so that they can be numbered.
LEMMA BlocksFinite ==
  ASSUME TypeInv, BlocksInv,
         pc \notin {"generate_fake_tid", "align_synch_bb", "done"}
  PROVE  /\ IsFiniteSet(Blocks)
         /\ \A i \in Tids : \A k \in Ids : OwnBlocks[i][k] \in SUBSET Blocks
<1>1. /\ DOMAIN threads = Tids /\ Given
      /\ \A i \in Tids : \A k \in Ids :
           DOMAIN threads[i].regions[k].bbv = OwnBlocks[i][k]
  BY Aligned DEF TypeInv
<1>2. Blocks = Everything(OwnBlocks)
  BY <1>1 DEF Blocks, Everything
<1>3. /\ IsFiniteSet(Everything(OwnBlocks))
      /\ \A b : b \in Everything(OwnBlocks) <=>
                  \E i \in Tids : \E k \in Ids : b \in OwnBlocks[i][k]
  <2>1. \A i \in Tids : \A k \in Ids : IsFiniteSet(OwnBlocks[i][k])
    BY <1>1, OwnFinite
  <2> QED
    BY <1>1, <2>1, TableFinite
<1> QED
  BY <1>2, <1>3

\* No histogram is longer than MaxHist.
LEMMA HistsFit ==
  ASSUME TypeInv, BlocksInv,
         pc \notin {"generate_fake_tid", "align_synch_bb", "done"}
  PROVE  /\ MaxHist \in Nat
         /\ \A i \in Tids : \A k \in Ids :
              OwnBuckets[i][k] \in SUBSET (1..MaxHist)
<1> DEFINE h(i, k) == given[i].regions[k].lru_hist
           own == [i \in Tids |-> [k \in Ids |-> {Len(h(i, k))}]]
           S == {Len(threads[i].regions[k].lru_hist) :
                   i \in DOMAIN threads, k \in Ids}
<1>1. /\ DOMAIN threads = Tids /\ Given
      /\ \A i \in Tids : \A k \in Ids :
           threads[i].regions[k].lru_hist = h(i, k)
  BY Aligned DEF TypeInv
<1>2. \A i \in Tids : \A k \in Ids :
        /\ h(i, k) \in Seq(Nat)
        /\ Len(h(i, k)) \in Nat /\ DOMAIN h(i, k) = 1..Len(h(i, k))
  <2> SUFFICES ASSUME NEW i \in Tids, NEW k \in Ids
               PROVE  h(i, k) \in Seq(Nat)
    BY LenProperties
  <2>1. given[i].regions[k] \in Region
    BY <1>1 DEF Given, Thread
  <2> QED
    BY <2>1 DEF Region
<1>3. \A n : n \in S <=> \E i \in Tids : \E k \in Ids : n = Len(h(i, k))
  BY <1>1
<1>4. \A i \in Tids : \A k \in Ids :
        own[i][k] = {Len(h(i, k))} /\ IsFiniteSet(own[i][k])
  BY FS_Singleton
<1>5. \A i \in Tids : \A k \in Ids :
        OwnBuckets[i][k] \in SUBSET (1..Len(h(i, k)))
  BY <1>2 DEF OwnBuckets
<1>6. MaxHist = Max(S)
  BY DEF MaxHist
<1> HIDE DEF own, S, h
<1>7. /\ IsFiniteSet(Everything(own))
      /\ \A b : b \in Everything(own) <=>
                  \E i \in Tids : \E k \in Ids : b \in own[i][k]
  BY <1>1, <1>4, TableFinite
<1>8. IsFiniteSet(S)
  <2>1. \A b : b \in Everything(own) <=> b \in S
    BY <1>3, <1>4, <1>7
  <2>2. Everything(own) = S
    BY <2>1
  <2> QED
    BY <1>7, <2>2
<1>9. S \in SUBSET Nat /\ S # {}
  <2>1. 1 \in Tids /\ 0 \in Ids
    BY <1>1, CountAssumption DEF Tids, Ids, Given
  <2> QED
    BY <1>2, <1>3, <2>1
<1>10. Max(S) \in S /\ \A m \in S : m <= Max(S)
  BY <1>8, <1>9, FiniteMax
<1>11. MaxHist \in Nat /\ \A i \in Tids : \A k \in Ids :
         Len(h(i, k)) <= MaxHist
  BY <1>3, <1>6, <1>9, <1>10
<1> QED
  BY <1>2, <1>5, <1>11

\* What save_bbv_count writes.
LEMMA BbvCoded ==
  ASSUME TypeInv, BlocksInv, save_bbv_count
  PROVE  Coded(bbv_file', OwnBlocks)
<1> DEFINE w == Cardinality(Blocks)
<1>1. /\ pc = "save_bbv_count" /\ Given
      /\ synch_count \in Nat \ {0} /\ Ids = 0..(synch_count - 1)
  BY DEF save_bbv_count, Then, TypeInv, Given, Ids
<1>2. /\ threads \in [Tids -> Thread]
      /\ \A i \in Tids :
           /\ threads[i].fake_tid = i - 1
           /\ \A k \in Ids :
                DOMAIN threads[i].regions[k].bbv = OwnBlocks[i][k]
  BY <1>1, Aligned
<1>3. /\ w \in Nat
      /\ \A i \in Tids : \A k \in Ids : OwnBlocks[i][k] \in SUBSET Blocks
  BY <1>1, BlocksFinite, FS_CardinalityType
<1>4. PICK num \in Numberings :
        bbv_file' = [k \in 1 .. synch_count |->
            UNION {LET bbv == t.regions[k - 1].bbv
                       dim(b) == Dimension(num[b], t, Cardinality(Blocks))
                   IN  {<<dim(b), bbv[b]>> : b \in DOMAIN bbv} :
                   t \in ToSet(threads)}]
  BY DEF save_bbv_count
<1>5. /\ num \in [Blocks -> 1..w]
      /\ \A a, b \in Blocks : num[a] = num[b] => a = b
  BY DEF Numberings
<1> HIDE DEF w
<1>6. DOMAIN bbv_file' = 1..synch_count
  BY <1>4
<1>7. ASSUME NEW k \in Ids
      PROVE  Numbered(bbv_file'[k + 1], num, w, Column(OwnBlocks, k))
  <2> DEFINE S == Column(OwnBlocks, k)
             item(t) == {<<Dimension(num[b], t, w), t.regions[k].bbv[b]>> :
                           b \in DOMAIN t.regions[k].bbv}
             line == UNION {item(t) : t \in ToSet(threads)}
  <2>1. bbv_file'[k + 1] = line
    <3>1. k + 1 \in 1..synch_count /\ (k + 1) - 1 = k
      BY <1>1
    <3> QED
      BY <1>4, <3>1 DEF w
  <2>2. \A i \in Tids : S[i] = DOMAIN threads[i].regions[k].bbv
    BY <1>2 DEF Column
  <2>3. Line(line, threads, num, w, S)
    <3>1. ASSUME NEW e \in line
          PROVE  \E i \in Tids : \E b \in S[i] :
                   e[1] = Dimension(num[b], threads[i], w)
      <4>1. PICK t \in ToSet(threads) : e \in item(t)
        OBVIOUS
      <4>2. PICK i \in Tids : t = threads[i]
        BY <1>2 DEF ToSet
      <4> QED
        BY <2>2, <4>1, <4>2
    <3>2. ASSUME NEW i \in Tids, NEW b \in S[i]
          PROVE  \E e \in line : e[1] = Dimension(num[b], threads[i], w)
      <4> DEFINE e == <<Dimension(num[b], threads[i], w),
                        threads[i].regions[k].bbv[b]>>
      <4>1. e \in item(threads[i]) /\ threads[i] \in ToSet(threads)
        BY <1>2, <2>2 DEF ToSet
      <4>2. e[1] = Dimension(num[b], threads[i], w)
        OBVIOUS
      <4> HIDE DEF e, item
      <4> QED
        BY <4>1, <4>2
    <3> HIDE DEF line, S
    <3> QED
      BY <3>1, <3>2 DEF Line
  <2> HIDE DEF line, S
  <2>4. Numbered(line, num, w, S)
    BY <1>2, <2>3, LineCoded
  <2> QED
    BY <2>1, <2>4 DEF S
<1>8. /\ \A i \in Tids : \A k \in Ids :
           \A a \in OwnBlocks[i][k] : num[a] \in 1..w
      /\ \A i, j \in Tids : \A k, m \in Ids :
           \A a \in OwnBlocks[i][k] : \A b \in OwnBlocks[j][m] :
             num[a] = num[b] => a = b
  BY <1>3, <1>5
<1>9. CodedBy(bbv_file', OwnBlocks, num, w)
  BY <1>6, <1>7, <1>8 DEF CodedBy
<1> QED
  BY <1>3, <1>9 DEF Coded

\* What save_ldv_bb writes.
LEMMA LdvCoded ==
  ASSUME TypeInv, BlocksInv, save_ldv_bb
  PROVE  Coded(ldv_bb_file', OwnBuckets)
<1> DEFINE w == MaxHist
           num == [j \in 1..w |-> j]
<1>1. /\ pc = "save_ldv_bb" /\ Given
      /\ synch_count \in Nat \ {0} /\ Ids = 0..(synch_count - 1)
  BY DEF save_ldv_bb, Then, TypeInv, Given, Ids
<1>2. /\ threads \in [Tids -> Thread]
      /\ \A i \in Tids :
           /\ threads[i].fake_tid = i - 1
           /\ \A k \in Ids : threads[i].regions[k].lru_hist =
                               given[i].regions[k].lru_hist
  BY <1>1, Aligned
<1>3. /\ w \in Nat
      /\ \A i \in Tids : \A k \in Ids : OwnBuckets[i][k] \in SUBSET (1..w)
  BY <1>1, HistsFit
<1>4. ldv_bb_file' = [k \in 1 .. synch_count |->
          UNION {LET h == t.regions[k - 1].lru_hist
                 IN  {<<Dimension(j, t, MaxHist), h[j]>> :
                         j \in {j \in DOMAIN h : h[j] # 0}} :
                 t \in ToSet(threads)}]
  BY DEF save_ldv_bb
<1>5. \A j \in 1..w : num[j] = j
  OBVIOUS
<1> HIDE DEF w, num
<1>6. DOMAIN ldv_bb_file' = 1..synch_count
  BY <1>4
<1>7. ASSUME NEW k \in Ids
      PROVE  Numbered(ldv_bb_file'[k + 1], num, w, Column(OwnBuckets, k))
  <2> DEFINE S == Column(OwnBuckets, k)
             full(t) == {j \in DOMAIN t.regions[k].lru_hist :
                           t.regions[k].lru_hist[j] # 0}
             item(t) == {<<Dimension(j, t, w), t.regions[k].lru_hist[j]>> :
                           j \in full(t)}
             line == UNION {item(t) : t \in ToSet(threads)}
  <2>1. ldv_bb_file'[k + 1] = line
    <3>1. k + 1 \in 1..synch_count /\ (k + 1) - 1 = k
      BY <1>1
    <3> QED
      BY <1>4, <3>1 DEF w
  <2>2. \A i \in Tids : S[i] = full(threads[i])
    BY <1>2 DEF Column, OwnBuckets
  <2>3. \A i \in Tids : \A j \in S[i] : num[j] = j
    BY <1>3, <1>5 DEF Column
  <2>4. Line(line, threads, num, w, S)
    <3>1. ASSUME NEW e \in line
          PROVE  \E i \in Tids : \E b \in S[i] :
                   e[1] = Dimension(num[b], threads[i], w)
      <4>1. PICK t \in ToSet(threads) : e \in item(t)
        OBVIOUS
      <4>2. PICK i \in Tids : t = threads[i]
        BY <1>2 DEF ToSet
      <4>3. PICK j \in full(t) : e[1] = Dimension(j, t, w)
        BY <4>1
      <4> QED
        BY <2>2, <2>3, <4>2, <4>3
    <3>2. ASSUME NEW i \in Tids, NEW b \in S[i]
          PROVE  \E e \in line : e[1] = Dimension(num[b], threads[i], w)
      <4> DEFINE e == <<Dimension(b, threads[i], w),
                        threads[i].regions[k].lru_hist[b]>>
      <4>1. e \in item(threads[i]) /\ threads[i] \in ToSet(threads)
        BY <1>2, <2>2 DEF ToSet
      <4>2. e[1] = Dimension(num[b], threads[i], w)
        BY <2>3
      <4> HIDE DEF e, item
      <4> QED
        BY <4>1, <4>2
    <3> HIDE DEF line, S
    <3> QED
      BY <3>1, <3>2 DEF Line
  <2> HIDE DEF line, S
  <2>5. Numbered(line, num, w, S)
    BY <1>2, <2>4, LineCoded
  <2> QED
    BY <2>1, <2>5 DEF S
<1>8. /\ \A i \in Tids : \A k \in Ids :
           \A a \in OwnBuckets[i][k] : num[a] \in 1..w
      /\ \A i, j \in Tids : \A k, m \in Ids :
           \A a \in OwnBuckets[i][k] : \A b \in OwnBuckets[j][m] :
             num[a] = num[b] => a = b
  BY <1>3, <1>5
<1>9. CodedBy(ldv_bb_file', OwnBuckets, num, w)
  BY <1>6, <1>7, <1>8 DEF CodedBy
<1> QED
  BY <1>3, <1>9 DEF Coded

\* The vector files, once written.
CodesInv ==
  /\ pc \in {"save_ldv_hist", "save_ldv_bb", "free", "done"} =>
       Coded(bbv_file, OwnBlocks)
  /\ pc \in {"free", "done"} => Coded(ldv_bb_file, OwnBuckets)

\* No step takes that away.
LEMMA CodesStep ==
  ASSUME TypeInv, BlocksInv, CodesInv, [Next]_vars
  PROVE  CodesInv'
<1>1. UNCHANGED <<given, synch_count>>
  BY DEF Next, vars, generate_fake_tid, AlignRegion, AlignFunction,
         save_bbv_inst_count, save_bp_id, save_bbv_count, save_ldv_hist,
         save_ldv_bb, free, Done
<1>2. OwnBlocks' = OwnBlocks /\ OwnBuckets' = OwnBuckets
  BY <1>1 DEF OwnBlocks, OwnBuckets, Ids
<1>3. \A file, own : (Coded(file, own))' <=> Coded(file', own')
  BY <1>1 DEF Coded, CodedBy, Numbered, Column, Ids
<1>4. CASE save_bbv_count
  <2>1. Coded(bbv_file', OwnBlocks) /\ pc' = "save_ldv_hist"
    BY <1>4, BbvCoded DEF save_bbv_count, Then
  <2> QED
    BY <1>2, <1>3, <2>1 DEF CodesInv
<1>5. CASE save_ldv_bb
  <2>1. /\ Coded(ldv_bb_file', OwnBuckets) /\ pc' = "free"
        /\ pc = "save_ldv_bb" /\ UNCHANGED bbv_file
    BY <1>5, LdvCoded DEF save_ldv_bb, Then
  <2> QED
    BY <1>2, <1>3, <2>1 DEF CodesInv
<1>6. CASE ~save_bbv_count /\ ~save_ldv_bb
  <2>1. /\ UNCHANGED <<bbv_file, ldv_bb_file>>
        /\ pc' \in {"save_ldv_hist", "save_ldv_bb", "free", "done"} =>
             pc \in {"save_ldv_hist", "save_ldv_bb", "free", "done"}
        /\ pc' \in {"free", "done"} => pc \in {"free", "done"}
    BY <1>6 DEF Next, vars, generate_fake_tid, AlignRegion, AlignFunction,
         save_bbv_inst_count, save_bp_id, save_ldv_hist, free, Done, Then,
         files
  <2> QED
    BY <1>2, <1>3, <2>1 DEF CodesInv
<1> QED
  BY <1>4, <1>5, <1>6

\* So it is an invariant.
LEMMA CodesAlways == Spec => [](Given /\ CodesInv)
<1>1. Init => CodesInv
  BY DEF Init, CodesInv
<1>2. TypeInv /\ BlocksInv /\ CodesInv /\ [Next]_vars => CodesInv'
  BY CodesStep
<1>3. TypeInv => Given
  BY DEF TypeInv
<1> QED
  BY <1>1, <1>2, <1>3, BlocksAlways, PTL DEF Spec

\* A dimension of .bbv_count stands for one block of one thread: the numbers
\* of bb_ids and the offset by fake_tid never meet.
THEOREM VectorsDecode == Spec => []BbvDecodes
<1>1. Given /\ CodesInv => BbvDecodes
  <2> SUFFICES ASSUME Given, CodesInv
               PROVE  BbvDecodes
    OBVIOUS
  <2>1. \A i \in Tids : \A k \in Ids :
          /\ OwnBlocks[i][k] =
               DOMAIN given[i].regions[k].bbv \ Fn
          /\ IsFiniteSet(OwnBlocks[i][k])
    BY OwnFinite DEF OwnBlocks
  <2>2. Finished => Coded(bbv_file, OwnBlocks)
    BY DEF CodesInv, Finished
  <2>3. Finished => Decodes(bbv_file, OwnBlocks)
    BY <2>1, <2>2, CodedDecodes
  <2> DEFINE own(i, k) ==
               DOMAIN given[i].regions[k].bbv \ Fn
             all == UNION {{i} \X own(i, k) : i \in Tids, k \in Ids}
  <2>4. \A i \in Tids : \A k \in Ids : own(i, k) = OwnBlocks[i][k]
    BY <2>1
  <2>5. /\ all = UNION {{i} \X OwnBlocks[i][k] : i \in Tids, k \in Ids}
        /\ \A k \in Ids : [i \in Tids |-> Cardinality(own(i, k))] =
                          [i \in Tids |-> Cardinality(OwnBlocks[i][k])]
    <3> HIDE DEF own
    <3> QED
      BY <2>4
  <2>6. Finished =>
          /\ Cardinality({e[1] : e \in UNION Range(bbv_file)}) =
               Cardinality(all)
          /\ \A k \in Ids :
               Cardinality({e[1] : e \in bbv_file[k + 1]}) =
               SumOf([i \in Tids |-> Cardinality(own(i, k))])
    <3> HIDE DEF own, all
    <3> QED
      BY <2>3, <2>5 DEF Decodes
  <2> QED
    BY <2>6, SMTT(30) DEF BbvDecodes, Tids
<1> QED
  BY <1>1, CodesAlways, PTL

\* A dimension of .ldv_bb stands for one bucket of one thread, because the
\* longest histogram of all threads gives the offset.
THEOREM HistogramsDecode == Spec => []LdvDecodes
<1>1. Given /\ CodesInv => LdvDecodes
  <2> SUFFICES ASSUME Given, CodesInv
               PROVE  LdvDecodes
    OBVIOUS
  <2>1. \A i \in Tids : \A k \in Ids :
          /\ OwnBuckets[i][k] =
               {j \in DOMAIN given[i].regions[k].lru_hist :
                  given[i].regions[k].lru_hist[j] # 0}
          /\ IsFiniteSet(OwnBuckets[i][k])
    BY OwnFinite DEF OwnBuckets
  <2>2. Finished => Coded(ldv_bb_file, OwnBuckets)
    BY DEF CodesInv, Finished
  <2>3. Finished => Decodes(ldv_bb_file, OwnBuckets)
    BY <2>1, <2>2, CodedDecodes
  <2> DEFINE own(i, k) ==
               {j \in DOMAIN given[i].regions[k].lru_hist :
                  given[i].regions[k].lru_hist[j] # 0}
             all == UNION {{i} \X own(i, k) : i \in Tids, k \in Ids}
  <2>4. \A i \in Tids : \A k \in Ids : own(i, k) = OwnBuckets[i][k]
    BY <2>1
  <2>5. /\ all = UNION {{i} \X OwnBuckets[i][k] : i \in Tids, k \in Ids}
        /\ \A k \in Ids : [i \in Tids |-> Cardinality(own(i, k))] =
                          [i \in Tids |-> Cardinality(OwnBuckets[i][k])]
    <3> HIDE DEF own
    <3> QED
      BY <2>4
  <2>6. Finished =>
          /\ Cardinality({e[1] : e \in UNION Range(ldv_bb_file)}) =
               Cardinality(all)
          /\ \A k \in Ids :
               Cardinality({e[1] : e \in ldv_bb_file[k + 1]}) =
               SumOf([i \in Tids |-> Cardinality(own(i, k))])
    <3> HIDE DEF own, all
    <3> QED
      BY <2>3, <2>5 DEF Decodes
  <2> QED
    BY <2>6, SMTT(30) DEF LdvDecodes, Tids
<1> QED
  BY <1>1, CodesAlways, PTL


----------------------------------------------------------------------------
(* The rows of .bp_id.                                                     *)

\* Row k, counting from 1, for the regions r of the master.
Row(r, k) ==
  IF k = 1 THEN <<0, 0, "ROI_Start">>
  ELSE <<k - 1, TimesSeen(r, k - 2), r[k - 2].name>>

\* Only the exit of the thread ends a region with that name.
ExitsLast(r) ==
  \A k \in Ids :
    /\ r[k].name = "thread_exit" <=> k = synch_count - 1
    /\ r[k].name # "ROI_Start"

\* The loop has a row for each region but the last, after that of the start.
LEMMA RowsAre ==
  ASSUME synch_count \in Nat \ {0}, NEW r, ExitsLast(r)
  PROVE  BpIdRows(r) = [k \in 1..synch_count |-> Row(r, k)]
<1> DEFINE n == synch_count
           turn(g, k) ==
             IF k = 0 THEN <<<<0, 0, "ROI_Start">>>>
             ELSE IF r[k - 1].name = "thread_exit" THEN g[k - 1]
             ELSE Append(g[k - 1], <<k, TimesSeen(r, k - 1), r[k - 1].name>>)
           Right(g) == g = [k \in 0..n |-> turn(g, k)]
           len(k) == IF k = n THEN n ELSE k + 1
           rows(k) == [j \in 1..len(k) |-> Row(r, j)]
           f == [k \in 0..n |-> rows(k)]
<1>1. n \in Nat /\ n # 0 /\ Ids = 0..(n - 1)
  BY DEF Ids
<1>2. \A k \in 1..n : r[k - 1].name = "thread_exit" <=> k = n
  <2> SUFFICES ASSUME NEW k \in 1..n
               PROVE  r[k - 1].name = "thread_exit" <=> k = n
    OBVIOUS
  <2>1. k - 1 \in Ids /\ (k - 1 = n - 1 <=> k = n)
    BY <1>1
  <2> QED
    BY <2>1 DEF ExitsLast
<1> HIDE DEF n
<1>3. rows(0) = <<<<0, 0, "ROI_Start">>>>
  <2>1. len(0) = 1
    BY <1>1
  <2>2. Row(r, 1) = <<0, 0, "ROI_Start">>
    BY DEF Row
  <2>3. rows(0) = [j \in 1..1 |-> Row(r, j)]
    BY <2>1
  <2>4. [j \in 1..1 |-> Row(r, j)] = <<Row(r, 1)>>
    <3> DEFINE w == [j \in 1..1 |-> Row(r, j)]
    <3>1. w = [j \in 1..1 |-> w[j]] /\ w[1] = Row(r, 1)
      OBVIOUS
    <3> HIDE DEF w
    <3> QED
      BY <3>1
  <2> QED
    BY <2>2, <2>3, <2>4
<1>4. ASSUME NEW k \in 1..n
      PROVE  rows(k) = turn(f, k)
  <2>1. k - 1 \in 0..n /\ k # 0 /\ f[k - 1] = rows(k - 1) /\ len(k - 1) = k
    BY <1>1
  <2>2. CASE k = n
    <3>1. len(k) = k
      BY <2>2
    <3>2. rows(k) = rows(k - 1)
      BY <2>1, <3>1
    <3> QED
      BY <1>2, <2>1, <2>2, <3>2
  <2>3. CASE k # n
    <3>1. len(k) = k + 1 /\ k \in Nat
      BY <1>1, <2>3
    <3> DEFINE a == [j \in 1..k |-> Row(r, j)]
               b == [j \in 1..(k + 1) |-> Row(r, j)]
               e == <<k, TimesSeen(r, k - 1), r[k - 1].name>>
    <3>2. Row(r, k + 1) = e
      BY <3>1 DEF Row
    <3>3. b = Append(a, e)
      <4>1. /\ a = [j \in 1..k |-> a[j]] /\ b = [j \in 1..(k + 1) |-> b[j]]
            /\ \A j \in 1..k : a[j] = b[j]
            /\ b[k + 1] = Row(r, k + 1)
        BY <3>1
      <4> DEFINE A == {a[j] : j \in 1..k} \cup {e}
      <4>2. a \in Seq(A) /\ Len(a) = k /\ e \in A
        <5>1. e \in A /\ \A j \in 1..k : a[j] \in A
          OBVIOUS
        <5> HIDE DEF a, A
        <5> QED
          BY <3>1, <4>1, <5>1
      <4> HIDE DEF a, b, e, A
      <4>3. /\ Append(a, e) \in Seq(A)
            /\ Len(Append(a, e)) = k + 1
            /\ \A j \in 1..k : Append(a, e)[j] = a[j]
            /\ Append(a, e)[k + 1] = e
        BY <4>2, AppendProperties
      <4> DEFINE c == Append(a, e)
      <4>4. c = [j \in 1..(k + 1) |-> c[j]]
        BY <4>3, LenProperties
      <4>5. \A j \in 1..(k + 1) : c[j] = b[j]
        <5> HIDE DEF c
        <5>1. \A j \in 1..(k + 1) : j \in 1..k \/ j = k + 1
          BY <3>1
        <5> QED
          BY <3>1, <3>2, <4>1, <4>3, <5>1 DEF c
      <4> HIDE DEF c
      <4> QED
        BY <4>1, <4>4, <4>5 DEF c
    <3>4. rows(k) = b /\ rows(k - 1) = a
      BY <2>1, <3>1
    <3> HIDE DEF rows, f, a, b
    <3> QED
      BY <1>2, <2>1, <2>3, <3>3, <3>4
  <2> QED
    BY <2>2, <2>3
<1>5. Right(f)
  <2>1. ASSUME NEW k \in 0..n
        PROVE  f[k] = turn(f, k)
    <3>1. CASE k = 0
      BY <1>3, <3>1
    <3>2. CASE k # 0
      <4>1. k \in 1..n
        BY <1>1, <3>2
      <4> HIDE DEF turn, rows
      <4> QED
        BY <1>4, <4>1
    <3> QED
      BY <3>1, <3>2
  <2> HIDE DEF turn, rows
  <2> QED
    BY <2>1
<1> DEFINE g == CHOOSE z : Right(z)
<1>6. Right(g)
  <2> HIDE DEF Right, f
  <2> QED
    BY <1>5
<1>7. BpIdRows(r) = g[n]
  BY DEF BpIdRows, n
<1> HIDE DEF g
<1>8. /\ \A k \in 0..n : g[k] = turn(g, k)
      /\ \A k \in 0..n : f[k] = turn(f, k)
  <2> HIDE DEF f, turn
  <2> QED
    BY <1>5, <1>6
<1>9. f[n] = [k \in 1..n |-> Row(r, k)]
  BY <1>1
<1> HIDE DEF Right, f, rows, len
<1> DEFINE T == {k \in Nat : k \in 0..n => g[k] = f[k]}
<1>10. 0 \in T
  BY <1>1, <1>8
<1>11. \A k \in 0..(n - 1) : k \in T => k + 1 \in T
  <2> SUFFICES ASSUME NEW k \in 0..(n - 1), k \in T
               PROVE  k + 1 \in T
    OBVIOUS
  <2>1. k \in 0..n /\ k + 1 \in 0..n /\ (k + 1) - 1 = k /\ k + 1 \in Nat
    BY <1>1
  <2>2. g[k] = f[k]
    BY <2>1
  <2>3. turn(g, k + 1) = turn(f, k + 1)
    BY <2>1, <2>2
  <2> HIDE DEF turn
  <2>4. g[k + 1] = f[k + 1]
    BY <1>8, <2>1, <2>3
  <2> QED
    BY <2>1, <2>4
<1>12. g[n] = f[n]
  <2> HIDE DEF T
  <2>1. \A k \in 0..n : k \in T
    BY <1>1, <1>10, <1>11, UpTo
  <2> QED
    BY <1>1, <2>1 DEF T
<1> QED
  BY <1>7, <1>9, <1>12 DEF n

\* A later region of a name has seen it once more.
LEMMA SeenMore ==
  ASSUME NEW r, NEW a \in Nat, NEW b \in Nat, a < b, r[a].name = r[b].name
  PROVE  TimesSeen(r, a) # TimesSeen(r, b)
<1> DEFINE A == {j \in 0..(a - 1) : r[j].name = r[a].name}
           B == {j \in 0..(b - 1) : r[j].name = r[b].name}
<1>1. A \cup {a} \subseteq B /\ a \notin A
  OBVIOUS
<1>2. IsFiniteSet(0..(a - 1)) /\ IsFiniteSet(0..(b - 1))
  <2>1. \A m \in Int : IsFiniteSet(0..m)
    <3> SUFFICES ASSUME NEW m \in Int
                 PROVE  IsFiniteSet(0..m)
      OBVIOUS
    <3>1. 0 \in Int
      OBVIOUS
    <3> QED
      BY <3>1, FS_Interval
  <2>2. a - 1 \in Int /\ b - 1 \in Int
    OBVIOUS
  <2> QED
    BY <2>1, <2>2
<1>3. A \subseteq 0..(a - 1) /\ B \subseteq 0..(b - 1)
  OBVIOUS
<1>4. TimesSeen(r, a) = Cardinality(A) /\ TimesSeen(r, b) = Cardinality(B)
  BY DEF TimesSeen
<1> HIDE DEF A, B
<1>5. IsFiniteSet(A) /\ IsFiniteSet(B)
  BY <1>2, <1>3, FS_Subset
<1>6. Cardinality(A \cup {a}) = Cardinality(A) + 1
  BY <1>1, <1>5, FS_AddElement
<1>7. Cardinality(A \cup {a}) <= Cardinality(B)
  BY <1>1, <1>5, FS_Subset
<1>8. Cardinality(A) \in Nat /\ Cardinality(B) \in Nat
  BY <1>5, FS_CardinalityType
<1> QED
  BY <1>4, <1>6, <1>7, <1>8

\* The keys of a file.
Keys(file) ==
  /\ Len(file) = synch_count
  /\ \A k \in DOMAIN file : file[k][1] = k - 1
  /\ \A j, k \in DOMAIN file : Tail(file[j]) = Tail(file[k]) => j = k

\* So the rows name each region once.
LEMMA RowsKeys ==
  ASSUME synch_count \in Nat \ {0}, NEW r, ExitsLast(r)
  PROVE  Keys([k \in 1..synch_count |-> Row(r, k)])
<1> DEFINE n == synch_count
           file == [k \in 1..n |-> Row(r, k)]
<1>1. n \in Nat /\ Len(file) = n /\ DOMAIN file = 1..n
      /\ \A k \in 1..n : file[k] = Row(r, k)
  OBVIOUS
<1>2. \A x, y, z : Tail(<<x, y, z>>) = <<y, z>>
  OBVIOUS
<1>3. ASSUME NEW k \in 1..n
      PROVE  /\ Row(r, k)[1] = k - 1
             /\ k = 1 => Tail(Row(r, k)) = <<0, "ROI_Start">>
             /\ k # 1 => Tail(Row(r, k)) =
                           <<TimesSeen(r, k - 2), r[k - 2].name>>
  BY <1>2 DEF Row
<1>4. ASSUME NEW j \in 1..n, NEW k \in 1..n, j < k,
             Tail(Row(r, j)) = Tail(Row(r, k))
      PROVE  FALSE
  <2>1. k # 1 /\ k - 2 \in Nat /\ k - 2 \in Ids
    BY <1>4 DEF Ids
  <2> DEFINE times == TimesSeen(r, k - 2)
             routine == r[k - 2].name
             seen == TimesSeen(r, j - 2)
             called == r[j - 2].name
  <2>2. Tail(Row(r, k)) = <<times, routine>>
    BY <1>3, <2>1
  <2>3. CASE j = 1
    <3>1. routine # "ROI_Start"
      BY <2>1 DEF ExitsLast
    <3>2. Tail(Row(r, j)) = <<0, "ROI_Start">>
      BY <1>3, <2>3
    <3> HIDE DEF times, routine
    <3>3. <<0, "ROI_Start">> = <<times, routine>>
      BY <1>4, <2>2, <3>2
    <3> QED
      BY <3>1, <3>3
  <2>4. CASE j # 1
    <3>1. j - 2 \in Nat /\ j - 2 < k - 2
      BY <1>4, <2>4
    <3>2. Tail(Row(r, j)) = <<seen, called>>
      BY <1>3, <2>4
    <3>3. called = routine => seen # times
      BY <2>1, <3>1, SeenMore
    <3> HIDE DEF times, routine, seen, called
    <3>4. <<seen, called>> = <<times, routine>>
      BY <1>4, <2>2, <3>2
    <3> QED
      BY <3>3, <3>4
  <2> QED
    BY <2>3, <2>4
<1>5. ASSUME NEW j \in 1..n, NEW k \in 1..n,
             Tail(Row(r, j)) = Tail(Row(r, k))
      PROVE  j = k
  <2>1. j < k \/ k < j \/ j = k
    BY <1>1
  <2> QED
    BY <1>4, <1>5, <2>1
<1> HIDE DEF file
<1> QED
  BY <1>1, <1>3, <1>5 DEF Keys, file

\* There is one master, and its regions have the names of the points.
MasterGiven ==
  \A i \in Tids :
    /\ given[i].is_master <=> i = 1
    /\ ExitsLast(given[i].regions)

\* So it is among the threads that are written, and once the rows are, they
\* are keys.
KeysInv ==
  /\ MasterGiven
  /\ pc \notin {"generate_fake_tid", "done"} =>
       \A i \in Tids : threads[i].is_master <=> i = 1
  /\ pc \in {"save_bbv_count", "save_ldv_hist", "save_ldv_bb", "free", "done"}
       => Keys(bp_id_file)

\* The master is the thread with the smallest tid, and a program's point has
\* the name of a routine.
LEMMA InitKeys == Init => KeysInv
<1> SUFFICES ASSUME Init
             PROVE  KeysInv
  OBVIOUS
<1>1. PICK n \in 1..MaxRegions :
      \E points \in [1 .. n - 1 -> Fn \cup {"GOMP_barrier"}] :
      \E profile \in [1 .. NumThreads -> [0 .. n - 1 -> Profiles]] :
      \E order \in [1 .. NumThreads -> 1 .. NumThreads] :
        LET name(k) == IF k = n - 1 THEN "thread_exit" ELSE points[k + 1]
            thread(tid) ==
                [tid |-> tid, is_master |-> tid = 1, fake_tid |-> 0,
                 regions |-> [k \in 0 .. n - 1 |->
                                 RegionOf(name(k), profile[tid][k])]]
        IN  /\ given = [i \in 1 .. NumThreads |-> thread(i)]
            /\ synch_count = n
            /\ pc = "generate_fake_tid"
  BY ZenonT(30) DEF Init
<1>2. PICK points \in [1 .. n - 1 -> Fn \cup {"GOMP_barrier"}],
           profile \in [Tids -> [0 .. n - 1 -> Profiles]] :
        LET name(k) == IF k = n - 1 THEN "thread_exit" ELSE points[k + 1]
            thread(tid) ==
                [tid |-> tid, is_master |-> tid = 1, fake_tid |-> 0,
                 regions |-> [k \in 0 .. n - 1 |->
                                 RegionOf(name(k), profile[tid][k])]]
        IN  /\ given = [i \in Tids |-> thread(i)]
            /\ synch_count = n
            /\ pc = "generate_fake_tid"
  BY <1>1 DEF Tids
<1> DEFINE name(k) == IF k = n - 1 THEN "thread_exit" ELSE points[k + 1]
           regions(t) == [k \in Ids |-> RegionOf(name(k), profile[t][k])]
           thread(t) == [tid |-> t, is_master |-> t = 1, fake_tid |-> 0,
                         regions |-> regions(t)]
<1>3. synch_count = n /\ n \in Nat \ {0} /\ Ids = 0..(n - 1)
  BY <1>2, CountAssumption DEF Ids
<1>4. given = [i \in Tids |-> thread(i)]
  BY <1>2, <1>3
<1>5. ASSUME NEW k \in Ids
      PROVE  /\ name(k) = "thread_exit" <=> k = synch_count - 1
             /\ name(k) # "ROI_Start"
  <2>1. CASE k = n - 1
    BY <1>3, <2>1
  <2>2. CASE k # n - 1
    <3>1. points[k + 1] \in Fn \cup {"GOMP_barrier"}
      BY <1>3, <2>2
    <3> QED
      BY <1>3, <2>2, <3>1, NameAssumption
  <2> QED
    BY <2>1, <2>2
<1> HIDE DEF name
<1>6. ASSUME NEW t, NEW k \in Ids
      PROVE  regions(t)[k].name = name(k)
  BY DEF RegionOf
<1>7. \A t : ExitsLast(regions(t))
  BY <1>5, <1>6 DEF ExitsLast
<1> HIDE DEF regions
<1>8. ASSUME NEW i \in Tids
      PROVE  given[i].regions = regions(i) /\ (given[i].is_master <=> i = 1)
  BY <1>4
<1>9. MasterGiven
  BY <1>7, <1>8 DEF MasterGiven
<1> QED
  BY <1>2, <1>9 DEF KeysInv

\* save_bp_id writes the rows of one thread, the first.
LEMMA MasterRows ==
  ASSUME TypeInv, BlocksInv, KeysInv, save_bp_id
  PROVE  Keys(bp_id_file')
<1> DEFINE r == threads[1].regions
           file == BpIdRows(r)
           ss == [i \in DOMAIN threads |->
                    IF threads[i].is_master THEN BpIdRows(threads[i].regions)
                    ELSE <<>>]
<1>1. /\ synch_count \in Nat \ {0} /\ NumThreads \in Nat \ {0}
      /\ DOMAIN threads = 1..NumThreads /\ 1 \in Tids
      /\ \A i \in Tids : threads[i].is_master <=> i = 1
      /\ bp_id_file' = FlattenSeq(ss)
  BY CountAssumption DEF TypeInv, Given, KeysInv, save_bp_id, Then, Tids
<1>2. ExitsLast(r)
  <2>1. \A k \in Ids : r[k].name = given[1].regions[k].name
    BY <1>1 DEF BlocksInv, Rest, save_bp_id, Then
  <2> QED
    BY <1>1, <2>1 DEF KeysInv, MasterGiven, ExitsLast
<1> DEFINE n == synch_count
           rows == [k \in 1..n |-> Row(r, k)]
           S == {Row(r, k) : k \in 1..n}
<1> HIDE DEF r
<1>3. file = rows /\ Keys(rows)
  BY <1>1, <1>2, RowsAre, RowsKeys
<1>4. rows \in Seq(S)
  BY <1>1
<1>5. ss = [i \in 1..NumThreads |-> IF i = 1 THEN file ELSE <<>>]
  BY <1>1 DEF Tids, r
<1> HIDE DEF ss, rows, file, S
<1>6. FlattenSeq(ss) = file
  BY <1>1, <1>3, <1>4, <1>5, FlattenFirst
<1> QED
  BY <1>1, <1>3, <1>6

\* Every action keeps the master where it is.
LEMMA MasterStays ==
  ASSUME TypeInv, KeysInv, [Next]_vars
  PROVE  pc' \notin {"generate_fake_tid", "done"} =>
           \A i \in Tids : threads'[i].is_master <=> i = 1
<1> SUFFICES ASSUME pc' \notin {"generate_fake_tid", "done"},
                    NEW i \in Tids
             PROVE  threads'[i].is_master <=> i = 1
  OBVIOUS
<1>1. CASE generate_fake_tid
  <2>1. threads' = [j \in Tids |-> [given[j] EXCEPT !.fake_tid = j - 1]]
    BY <1>1, TidOrder
  <2>2. given[i] \in Thread
    BY DEF TypeInv, Given
  <2>3. threads'[i].is_master = given[i].is_master
    BY <2>1, <2>2 DEF Thread
  <2> QED
    BY <2>3 DEF KeysInv, MasterGiven
<1>2. ASSUME UNCHANGED threads, pc \notin {"generate_fake_tid", "done"}
      PROVE  threads'[i].is_master <=> i = 1
  BY <1>2 DEF KeysInv
<1>3. CASE AlignRegion
  <2>1. pc = "align_synch_bb"
    BY <1>3 DEF AlignRegion
  <2>2. CASE ti \in Tids
    <3>1. Replaced(threads, threads', ti, id,
                   Counted(threads[ti].regions[id], balance))
      BY <1>3, <2>2, RegionStep
    <3>2. threads'[i].is_master = threads[i].is_master
      BY <3>1 DEF Replaced
    <3> QED
      BY <2>1, <3>2 DEF KeysInv
  <2>3. CASE ti \notin Tids
    <3>1. ti > NumThreads /\ threads \in [1..NumThreads -> Thread]
      BY <2>1, <2>3, CountAssumption DEF TypeInv, Tids
    <3>2. threads \in Seq(Thread) /\ DOMAIN threads = 1..NumThreads
      BY <3>1, CountAssumption
    <3>3. Len(threads) = NumThreads
      BY <3>2, CountAssumption, LenProperties
    <3>4. UNCHANGED threads
      BY <1>3, <3>1, <3>3 DEF AlignRegion
    <3> QED
      BY <1>2, <2>1, <3>4
  <2> QED
    BY <2>2, <2>3
<1>4. ASSUME NEW f \in Fn, AlignFunction(f)
      PROVE  threads'[i].is_master <=> i = 1
  <2>1. pc = "align_synch_bb"
    BY <1>4 DEF AlignFunction
  <2>2. CASE f \in DOMAIN threads[ti].regions[id].bbv
    <3>1. Replaced(threads, threads', ti, id,
                   TakenOut(threads[ti].regions[id], f, balance'))
      BY <1>4, <2>2, FunctionStep
    <3>2. threads'[i].is_master = threads[i].is_master
      BY <3>1 DEF Replaced
    <3> QED
      BY <2>1, <3>2 DEF KeysInv
  <2>3. CASE f \notin DOMAIN threads[ti].regions[id].bbv
    <3>1. UNCHANGED threads
      BY <1>4, <2>3 DEF AlignFunction
    <3> QED
      BY <1>2, <2>1, <3>1
  <2> QED
    BY <2>2, <2>3
<1>5. CASE save_bbv_inst_count
  BY <1>2, <1>5 DEF save_bbv_inst_count, Then
<1>6. CASE save_bp_id
  BY <1>2, <1>6 DEF save_bp_id, Then
<1>7. CASE save_bbv_count
  BY <1>2, <1>7 DEF save_bbv_count, Then
<1>8. CASE save_ldv_hist
  BY <1>2, <1>8 DEF save_ldv_hist, Then
<1>9. CASE save_ldv_bb
  BY <1>2, <1>9 DEF save_ldv_bb, Then
<1>10. CASE free
  BY <1>10 DEF free, Then
<1>11. CASE Done \/ UNCHANGED vars
  BY <1>2, <1>11 DEF Done, vars
<1> QED
  BY <1>1, <1>3, <1>4, <1>5, <1>6, <1>7, <1>8, <1>9, <1>10, <1>11 DEF Next

\* The rows are written once.
LEMMA KeysStep ==
  ASSUME TypeInv, BlocksInv, KeysInv, [Next]_vars
  PROVE  KeysInv'
<1>1. UNCHANGED <<given, synch_count>>
  BY DEF Next, vars, generate_fake_tid, AlignRegion, AlignFunction,
         save_bbv_inst_count, save_bp_id, save_bbv_count, save_ldv_hist,
         save_ldv_bb, free, Done
<1>2. MasterGiven'
  <2>1. \A r : ExitsLast(r) => (ExitsLast(r))'
    BY <1>1 DEF ExitsLast, Ids
  <2>2. MasterGiven
    BY DEF KeysInv
  <2> QED
    BY <1>1, <2>1, <2>2 DEF MasterGiven
<1>3. \/ save_bp_id
      \/ /\ UNCHANGED bp_id_file
         /\ pc' \in {"save_bbv_count", "save_ldv_hist", "save_ldv_bb",
                     "free", "done"}
              => pc \in {"save_bbv_count", "save_ldv_hist", "save_ldv_bb",
                         "free", "done"}
  BY DEF Next, vars, generate_fake_tid, AlignRegion, AlignFunction,
         save_bbv_inst_count, save_bbv_count, save_ldv_hist,
         save_ldv_bb, free, Done, Then, files
<1>4. pc' \in {"save_bbv_count", "save_ldv_hist", "save_ldv_bb", "free",
               "done"} => (Keys(bp_id_file))'
  <2>1. CASE save_bp_id
    <3>1. Keys(bp_id_file')
      BY <2>1, MasterRows
    <3> QED
      BY <1>1, <3>1 DEF Keys
  <2>2. CASE ~save_bp_id
    BY <1>1, <1>3, <2>2 DEF KeysInv, Keys
  <2> QED
    BY <2>1, <2>2
<1> QED
  BY <1>2, <1>4, MasterStays DEF KeysInv, Tids

\* What save_bp_id writes of the regions of the master: the number of each,
\* in order, and a routine with the times it has been seen, never the same
\* pair twice.
THEOREM KeysUnique == Spec => []BpIdKeys
<1>1. TypeInv /\ BlocksInv /\ KeysInv /\ [Next]_vars => KeysInv'
  BY KeysStep
<1>2. KeysInv => BpIdKeys
  BY DEF KeysInv, BpIdKeys, Keys, Finished
<1> QED
  BY <1>1, <1>2, BlocksAlways, InitKeys, PTL DEF Spec
=============================================================================
