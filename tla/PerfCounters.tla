---------------------------- MODULE PerfCounters ----------------------------
(***************************************************************************)
(* libbp_perfcntrs.so (bp_perfcntrs.cc, omp_counters.h), preloaded when a  *)
(* program is measured: its GOMP_parallel and GOMP_barrier cut the         *)
(* counters of each thread into phases, and the barrier that ends the      *)
(* region of interest appends all phases to the output file.               *)
(*                                                                         *)
(* What a counter holds is the set of stretches of the program its thread  *)
(* has run since the counter was last reset: this tells whether a phase    *)
(* measures what it should.  A handler takes the stretch the thread has    *)
(* just run as an argument.  It is one step: no other thread of the team   *)
(* reads what it writes before the next barrier, save _inside_roi, in      *)
(* which all of them write the same value.                                 *)
(*                                                                         *)
(* The file is kept as one sequence for each thread.  Threads write their  *)
(* lines in any order, and the reader puts them in a list per thread.      *)
(***************************************************************************)
EXTENDS RoiMarker, Integers

CONSTANT MaxPhases  \* MAX_PARALLEL_PHASES

ASSUME PhasesAssumption == MaxPhases \in Nat

VARIABLES
  per_region,   \* BP_PERFCNTRS_OMPPARALLEL; otherwise _SAMPLING is set
  BP_number,    \* _BP_number
  started,      \* PERF_CNTRS_STARTED
  running,      \* per thread: its event set is counting
  counters,     \* per thread: what has run since the last reset
  count,        \* per thread: perfc_omp_parallel_region_count
  pbarrier,     \* per thread: event_values_pbarrier
  outfile,      \* per thread: the lines this process has appended
  exit_status   \* "running", "ok" or "failed"

storeVars == <<started, running, count, pbarrier>>
perfVars == <<per_region, BP_number, storeVars, counters, outfile,
              exit_status>>

PerfInit ==
  /\ BP_number = -1
  /\ started = FALSE
  /\ running = [t \in Threads |-> FALSE]
  /\ counters = [t \in Threads |-> {}]
  /\ count = [t \in Threads |-> 0]
  /\ pbarrier = [t \in Threads |-> <<>>]
  /\ outfile = [t \in Threads |-> <<>>]
  /\ exit_status = "running"

\* What a read past the end of event_values_pbarrier gives: it measures
\* nothing.
Garbage == {-1}

\* The counters once t has run stretch x.
Ran(t, x) == [counters EXCEPT ![t] = IF running[t] THEN @ \cup {x} ELSE @]

\* BarrierPoints(), with the value _inside_roi has by then.
BarrierPoints(t, roi) ==
  IF roi /\ t = Master THEN BP_number + 1 ELSE BP_number

----------------------------------------------------------------------------
(* The phases.                                                             *)

StoresPhases == per_region /\ started

HasRoomAlways(t) == TRUE  \* faulty: the limit is not tested

HasRoomLess(t) == count[t] < MaxPhases - 1  \* faulty: one too early

HasRoom(t) == count[t] < MaxPhases

ResetMaster(members, ran) ==  \* faulty: the other threads go on counting
  [ran EXCEPT ![Master] = {}]

Reset(members, ran) ==
  [t \in Threads |-> IF t \in members THEN {} ELSE ran[t]]

\* PAPI_read, the store, and PAPI_reset, in
\* parallelRegionPerformanceCounters and barrierRegionPerformanceCounters.
StorePhase(members, ran) ==
  /\ pbarrier' = [t \in Threads |->
       IF t \in members /\ HasRoom(t) THEN Append(pbarrier[t], ran[t])
       ELSE pbarrier[t]]
  /\ count' = [t \in Threads |->
       IF t \in members THEN count[t] + 1 ELSE count[t]]
  /\ counters' = Reset(members, ran)
  /\ UNCHANGED <<started, running>>

Region(members, ran) ==
  IF StoresPhases THEN StorePhase(members, ran)
                  ELSE counters' = ran /\ UNCHANGED storeVars

----------------------------------------------------------------------------
(* GOMP_parallel.  A team is formed by the master alone, so that           *)
(* omp_in_parallel() is 0 and a parallel region of the library's own reads *)
(* the counters of all threads, also of those that join no team.           *)

PerfParallel(members, x) ==
  /\ Fork(members)
  /\ BP_number' = BarrierPoints(Master, inside_roi)
  /\ IF inside_roi THEN Region(Threads, Ran(Master, x))
     ELSE counters' = Ran(Master, x) /\ UNCHANGED storeVars
  /\ UNCHANGED <<per_region, outfile, exit_status>>

PerfFinish(t, x) ==
  /\ Finish(t)
  /\ counters' = Ran(t, x)
  /\ UNCHANGED <<per_region, BP_number, storeVars, outfile, exit_status>>

----------------------------------------------------------------------------
(* GOMP_barrier.  Each action ends in libgomp's barrier.                   *)

\* The program's setenv, when the barrier delimits the region of interest,
\* and the library's getenv.
Enters(t, env) ==
  /\ t \in Active
  /\ pc[t] = "out"
  /\ roi_bp' = env
  /\ inside_roi' = IF env = "unset" THEN inside_roi ELSE env = "1"
  /\ UNCHANGED <<team, per_region>>

EntersRealNotMaster(t) ==  \* faulty: the master returns, as in bp_dr.cc
  pc' = [pc EXCEPT ![t] = IF t = Master THEN "out" ELSE "real"]

EntersReal(t) == GoesTo(t, "real")

\* The barrier is none of a region of interest.
PerfPass(t, env, x) ==
  /\ Enters(t, env)
  /\ ~inside_roi' /\ BP_number = -1
  /\ EntersReal(t)
  /\ counters' = Ran(t, x)
  /\ UNCHANGED <<BP_number, storeVars, outfile, exit_status>>

\* The start.  initPerformanceCounters() contains a barrier, which calls
\* GOMP_barrier again: the number of the barrier point becomes 1.
PerfStart(t, env, x) ==
  /\ Enters(t, env)
  /\ inside_roi' /\ BarrierPoints(t, inside_roi') = 0
  /\ BP_number' = 1
  /\ EntersReal(t)
  /\ started' = TRUE
  /\ running' = [u \in Threads |-> TRUE]
  /\ count' = [u \in Threads |-> 0]
  /\ counters' = [u \in Threads |-> {}]
  /\ UNCHANGED <<pbarrier, outfile, exit_status>>

PerfRegion(t, env, x) ==
  /\ Enters(t, env)
  /\ inside_roi' /\ BarrierPoints(t, inside_roi') # 0
  /\ BP_number' = BarrierPoints(t, inside_roi')
  /\ EntersReal(t)
  /\ Region({t}, Ran(t, x))
  /\ UNCHANGED <<outfile, exit_status>>

\* The lines stopPerformanceCounters() prints for u: one for each phase, and
\* one for what has run since.
Phase(u, j) ==
  IF j < Len(pbarrier[u]) THEN pbarrier[u][j + 1] ELSE Garbage

StoredLines(u) ==
  IF per_region THEN [n \in 1..count[u] |->
                        [bid |-> n - 1, work |-> Phase(u, n - 1)]]
  ELSE <<>>

LinesOfPhases(u, ran) ==  \* faulty: the last phase is forgotten
  IF per_region THEN StoredLines(u) ELSE <<[bid |-> 0, work |-> ran[u]]>>

Lines(u, ran) ==
  Append(StoredLines(u), [bid |-> count[u], work |-> ran[u]])

Stops(t, env) == Enters(t, env) /\ ~inside_roi' /\ BP_number # -1

\* The end: all threads stop and print.
PerfStop(t, env, x) ==
  /\ Stops(t, env)
  /\ team = {} /\ \A u \in Threads : running[u]
  /\ EntersReal(t)
  /\ counters' = Ran(t, x)
  /\ outfile' = [u \in Threads |-> outfile[u] \o Lines(u, Ran(t, x))]
  /\ running' = [u \in Threads |-> FALSE]
  /\ started' = FALSE
  /\ UNCHANGED <<BP_number, count, pbarrier, exit_status>>

\* A later barrier: PAPI_stop fails, and _papi_error() ends the process.
PerfStopAgain(t, env, x) ==
  /\ Stops(t, env)
  /\ ~running[t]
  /\ exit_status' = "failed"
  /\ UNCHANGED <<pc, BP_number, storeVars, counters, outfile>>

\* A thread cannot stop its counters or open the file, and ends the process
\* when only some of the threads have printed.
PerfStopFails(t, env, x) ==
  /\ Stops(t, env)
  /\ team = {} /\ \A u \in Threads : running[u]
  /\ \E done \in SUBSET Threads :
       /\ done # Threads
       /\ outfile' = [u \in Threads |->
            IF u \in done THEN outfile[u] \o Lines(u, Ran(t, x))
            ELSE outfile[u]]
  /\ exit_status' = "failed"
  /\ UNCHANGED <<pc, BP_number, storeVars, counters>>

\* The lines that some threads have printed never reach the file, the disk
\* being full: nothing looks at what fprintf and fclose return.
PerfWriteFails ==
  /\ \E lost \in SUBSET Threads :
       outfile' = [u \in Threads |-> IF u \in lost THEN <<>> ELSE outfile[u]]
  /\ outfile' # outfile
  /\ UNCHANGED <<processVars, per_region, BP_number, storeVars, counters,
                 exit_status>>
=============================================================================
