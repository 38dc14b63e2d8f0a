---------------------------- MODULE Measurement ----------------------------
(***************************************************************************)
(* The methodology from end to end, for one program: it is run under       *)
(* DynamoRIO with libbp_dr.so, where the client numbers its regions; then  *)
(* RunBenchmarks.py runs it over and over with libbp_perfcntrs.so and      *)
(* makes tables of what was measured; then errorEstimate.py looks regions  *)
(* up in the tables.  The driver may be started again, as a dry run too,   *)
(* and killed at any time.                                                 *)
(*                                                                         *)
(* The program is a sequence of operations, the same in every execution:   *)
(* "on" and "off" delimit the region of interest, "par" starts a parallel  *)
(* region of all threads and "sub" one of the master alone, "bar" is an    *)
(* explicit barrier, "join" the end of a parallel region.  A point of the  *)
(* program is a "par", "sub" or "bar" in the region of interest, and       *)
(* stretch k is what lies between its points k and k + 1.                  *)
(***************************************************************************)
EXTENDS PerfCounters, Statistics

CONSTANTS
  Texts,      \* programs
  Platforms,  \* what platform.uname() may answer
  MaxRuns,    \* bound: how often the driver is started
  MaxFaults   \* bound: failures of a program, of the disk, and kills

\* The operations a program is made of.
Operations == {"on", "off", "par", "sub", "bar", "join"}

\* There is one region of interest, and it ends after its start (README.md).
OneRoi(x) ==
  \A i, j \in DOMAIN x :
    x[i] = "on" /\ x[j] \in {"on", "off"} /\ i # j => x[j] = "off" /\ i < j

ASSUME MeasurementAssumption ==
  /\ Threads = Tids /\ Master = 0 /\ MaxRuns \in Nat /\ MaxFaults \in Nat
  /\ Texts \subseteq Seq(Operations)
  /\ \A x \in Texts : OneRoi(x)

VARIABLES
  text,         \* the program
  at,           \* per thread: the operation it meets next
  in_roi,       \* the client's in_roi
  synch_count,  \* the client's synch_count
  regions,      \* how many regions the identification has found
  platform,
  run,          \* invocations of RunBenchmarks.main
  dry,          \* dry_run
  barriers,     \* the mode: 0 whole application, 1 per parallel region
  stage,        \* what is executed now
  rep, round,   \* the loops of the .sh file
  papi,         \* per mode and repetition: the .papi file
  csv,          \* per mode: the tables
  estimate,     \* how the last errorEstimate ended, and what it took
  faults

clientVars == <<in_roi, synch_count, regions>>
driverVars == <<run, dry, barriers, stage, rep, round, papi, csv, estimate,
                faults>>
vars == <<roiVars, perfVars, text, at, clientVars, platform, driverVars>>

Modes == {0, 1}
NoFile == [t \in Threads |-> <<>>]
NoTable == [run |-> 0, dry |-> FALSE, finished |-> FALSE, rows |-> <<>>,
            avg |-> <<>>]
NoEstimate == [result |-> "none", bp |-> 0, taken |-> <<>>]

----------------------------------------------------------------------------
(* The program.                                                            *)

IsPoint(i) ==
  /\ text[i] \in {"par", "sub", "bar"}
  /\ \E j \in 1..i : text[j] = "on"
  /\ \A j \in 1..i : text[j] # "off"

Points == {i \in DOMAIN text : IsPoint(i)}

\* The stretch that ends at operation i.
Stretch(i) == Cardinality({j \in Points : j < i})

Meets(t, ops) == at[t] <= Len(text) /\ text[at[t]] \in ops
Members(op) == IF op = "par" THEN Threads ELSE {Master}
RoiValue(op) == CASE op = "on" -> "1" [] op = "off" -> "0" [] OTHER -> roi_bp
Past(t) == at' = [at EXCEPT ![t] = @ + 1]

\* A team starts after the operation that the master has met.
TeamPast(members) ==
  at' = [t \in Threads |-> IF t \in members THEN at[Master] + 1 ELSE at[t]]

ReleaseAll ==
  /\ Release
  /\ at' = [t \in Threads |-> IF t \in Active THEN at[t] + 1 ELSE at[t]]

JoinAll ==
  /\ Join
  /\ at' = [at EXCEPT ![Master] = @ + 1]

ProgramInit ==
  RoiInit /\ PerfInit /\ per_region = FALSE /\ at = [t \in Threads |-> 1]

\* Nothing of a process outlives it but its file: ProgramInit again.
Gone ==
  LET each(x) == [t \in Threads |-> x]
  IN  /\ team' = {} /\ pc' = each("out") /\ roi_bp' = "unset"
      /\ inside_roi' = FALSE /\ dr_flag' = FALSE /\ marks' = <<>>
      /\ per_region' = FALSE /\ BP_number' = -1 /\ started' = FALSE
      /\ running' = each(FALSE) /\ counters' = each({}) /\ count' = each(0)
      /\ pbarrier' = each(<<>>) /\ outfile' = each(<<>>)
      /\ exit_status' = "running" /\ at' = each(1)

AtEnd == team = {} /\ pc[Master] = "out" /\ at[Master] = Len(text) + 1

----------------------------------------------------------------------------
(* The program under DynamoRIO: the steps of RoiMarker, and what the       *)
(* client counts on the master (see BarrierClient for all of it).          *)

Saved(counts) == synch_count' = synch_count + (IF counts THEN 1 ELSE 0)

DrSetRoi ==
  /\ team = {} /\ Meets(Master, {"on", "off"})
  /\ SetRoi(RoiValue(text[at[Master]]))
  /\ UNCHANGED <<markerVars, at, in_roi, synch_count>>

DrCallBarrier(t) ==
  /\ Meets(t, {"bar"})
  /\ CallBarrier(t)
  /\ UNCHANGED <<markerVars, at, in_roi, synch_count>>

DrReadEnv(t) ==
  ReadEnv(t) /\ UNCHANGED <<markerVars, at, in_roi, synch_count>>

\* libgomp's barrier is wrapped by the client: event_barrier.
DrTestFlag(t) ==
  /\ TestFlag(t)
  /\ Saved(in_roi /\ t = Master /\ pc'[t] = "real")
  /\ UNCHANGED <<markerVars, at, in_roi>>

\* event_roi_init and event_roi_end.
DrMark(t) ==
  /\ Mark(t)
  /\ in_roi' = (pc[t] = "start")
  /\ Saved(pc[t] = "end")
  /\ Past(t)

\* event_omp_parallel.
DrFork ==
  /\ Meets(Master, {"par", "sub"})
  /\ Fork(Members(text[at[Master]]))
  /\ TeamPast(Members(text[at[Master]]))
  /\ Saved(in_roi)
  /\ UNCHANGED <<markerVars, in_roi>>

DrFinish(t) ==
  /\ Meets(t, {"join"})
  /\ Finish(t)
  /\ UNCHANGED <<markerVars, at, in_roi, synch_count>>

DrLibgomp ==
  /\ ReleaseAll \/ JoinAll
  /\ UNCHANGED <<markerVars, in_roi, synch_count>>

DrProgram ==
  /\ \/ DrSetRoi \/ DrFork \/ DrLibgomp
     \/ \E t \in Threads : \/ DrCallBarrier(t) \/ DrReadEnv(t)
                           \/ DrTestFlag(t) \/ DrMark(t) \/ DrFinish(t)
  /\ UNCHANGED <<perfVars, regions, driverVars>>

DrEnds ==
  /\ AtEnd
  /\ regions' = synch_count
  /\ stage' = "idle"
  /\ Gone
  /\ UNCHANGED <<in_roi, synch_count, run, dry, barriers, rep, round, papi,
                 csv, estimate, faults>>

Identify ==
  /\ stage = "identify"
  /\ DrProgram \/ DrEnds
  /\ UNCHANGED <<text, platform>>

----------------------------------------------------------------------------
(* The program with performance counters.                                  *)

CountedFork ==
  /\ Meets(Master, {"par", "sub"})
  /\ PerfParallel(Members(text[at[Master]]), Stretch(at[Master]))
  /\ TeamPast(Members(text[at[Master]]))

CountedFinish(t) ==
  /\ Meets(t, {"join"})
  /\ PerfFinish(t, Stretch(at[t]))
  /\ UNCHANGED at

CountedBarrier(t) ==
  /\ IF team = {} THEN Meets(t, {"on", "off", "bar"}) ELSE Meets(t, {"bar"})
  /\ LET env == RoiValue(text[at[t]])
         x == Stretch(at[t])
     IN  \/ PerfPass(t, env, x) \/ PerfStart(t, env, x)
         \/ PerfRegion(t, env, x) \/ PerfStop(t, env, x)
         \/ PerfStopAgain(t, env, x)
  /\ at' = IF pc'[t] = "out" /\ exit_status' = "running"
           THEN [at EXCEPT ![t] = @ + 1] ELSE at

CountedLibgomp ==
  /\ ReleaseAll \/ JoinAll
  /\ UNCHANGED perfVars

CountedExit ==
  /\ AtEnd
  /\ exit_status' = "ok"
  /\ UNCHANGED <<processVars, at, per_region, BP_number, storeVars,
                 counters, outfile>>

Fault == faults < MaxFaults /\ faults' = faults + 1

CountedFails ==
  /\ Fault
  /\ \/ \E t \in Threads :
          /\ Meets(t, {"off"})
          /\ PerfStopFails(t, RoiValue("off"), Stretch(at[t]))
          /\ UNCHANGED at
     \/ PerfWriteFails /\ UNCHANGED at
     \/ /\ exit_status' = "failed"
        /\ UNCHANGED <<processVars, at, per_region, BP_number, storeVars,
                       counters, outfile>>

CountedProgram ==
  /\ stage = "program" /\ exit_status = "running"
  /\ \/ /\ \/ CountedFork \/ CountedLibgomp \/ CountedExit
           \/ \E t \in Threads : CountedFinish(t) \/ CountedBarrier(t)
        /\ UNCHANGED faults
     \/ CountedFails
  /\ UNCHANGED <<text, platform, markerVars, clientVars, run, dry, barriers,
                 stage, rep, round, papi, csv, estimate>>

----------------------------------------------------------------------------
(* RunBenchmarks.main and Experiment.                                      *)

StaysOut == UNCHANGED <<roiVars, perfVars, at, text, platform, clientVars>>

\* One invocation.  The product() of main() visits mode 0 first.
StartBenchmarks(d) ==
  /\ stage = "idle" /\ run < MaxRuns
  /\ run' = run + 1
  /\ dry' = d
  /\ barriers' = 0
  /\ stage' = "create"
  /\ estimate' = NoEstimate
  /\ StaysOut
  /\ UNCHANGED <<rep, round, papi, csv, faults>>

CreateExperimentBatch ==
  /\ stage = "create"
  /\ \/ platform \in Supported /\ stage' = "script" /\ UNCHANGED faults
     \/ platform \notin Supported /\ stage' = "idle" /\ UNCHANGED faults
     \/ Fault /\ stage' = "idle"
  /\ StaysOut
  /\ UNCHANGED <<run, dry, barriers, rep, round, papi, csv, estimate>>

RemovedOwn == {barriers}  \* faulty: the other mode's tables are kept

\* The tables that "rm -f" finds: without .BP. the pattern matches all.
Removed == IF barriers = 0 THEN Modes ELSE {1}

ClearedFirst == {0}  \* faulty: the loop ends too early

\* The repetitions whose files are removed: seq 0 (iterations - 1).
Cleared == 0..(Iterations - 1)

RemoveOld ==
  /\ stage = "script" /\ ~dry
  /\ csv' = [m \in Modes |-> IF m \in Removed THEN NoTable ELSE csv[m]]
  /\ papi' = [papi EXCEPT ![barriers] =
                [i \in DOMAIN @ |-> IF i \in Cleared THEN NoFile ELSE @[i]]]
  /\ rep' = 0 /\ round' = 1
  /\ stage' = "launch"
  /\ StaysOut
  /\ UNCHANGED <<run, dry, barriers, estimate, faults>>

DryRun ==
  /\ stage = "script" /\ dry
  /\ stage' = "parse"
  /\ StaysOut
  /\ UNCHANGED <<run, dry, barriers, rep, round, papi, csv, estimate,
                 faults>>

LaunchProgram ==
  /\ stage = "launch"
  /\ per_region' = (barriers = 1)
  /\ stage' = "program"
  /\ UNCHANGED <<roiVars, BP_number, storeVars, counters, outfile,
                 exit_status, at, text, platform, clientVars, run, dry,
                 barriers, rep, round, papi, csv, estimate, faults>>

\* The file after what the process has appended to it.
Appended ==
  [papi EXCEPT ![barriers][rep] =
     [t \in Threads |-> @[t] \o
        [n \in DOMAIN outfile[t] |->
           [run |-> run, rep |-> rep, round |-> round,
            bid |-> outfile[t][n].bid, work |-> outfile[t][n].work]]]]

LastRound == Len(PAPI_rounds[platform])

\* The shell goes on whatever the status of a program; it ends with that of
\* the last one, and RunExperimentBatch gives up if that is a failure.
ProgramEnds ==
  /\ stage = "program" /\ exit_status # "running"
  /\ papi' = Appended
  /\ \/ round < LastRound /\ round' = round + 1 /\ UNCHANGED rep
        /\ stage' = "launch"
     \/ round = LastRound /\ rep < Iterations - 1
        /\ round' = 1 /\ rep' = rep + 1 /\ stage' = "launch"
     \/ round = LastRound /\ rep = Iterations - 1 /\ UNCHANGED <<rep, round>>
        /\ stage' = IF exit_status = "ok" THEN "parse" ELSE "idle"
  /\ Gone
  /\ UNCHANGED <<text, platform, clientVars, run, dry, barriers, csv,
                 estimate, faults>>

Table(STATS) ==
  LET check == CheckTable(platform, STATS)
  IN  [run |-> run, dry |-> dry, finished |-> check.finished,
       rows |-> check.rows,
       avg |-> IF check.finished THEN AverageTable(platform, STATS)
               ELSE <<>>]

\* The statistics are parsed and both tables written.  An exception in
\* between ends the driver and leaves the rows written so far.
ParseAndWrite ==
  /\ stage = "parse"
  /\ LET st == StatsPerfCounters(platform, papi[barriers])
         table == Table(st.STATS)
     IN  IF st.raised THEN stage' = "idle" /\ UNCHANGED <<csv, barriers>>
         ELSE /\ csv' = [csv EXCEPT ![barriers] = table]
              /\ IF table.finished /\ barriers = 0
                 THEN barriers' = 1 /\ stage' = "create"
                 ELSE stage' = "idle" /\ UNCHANGED barriers
  /\ StaysOut
  /\ UNCHANGED <<run, dry, rep, round, papi, estimate, faults>>

\* The table cannot be opened, or the disk is full after n rows.
WriteFails ==
  /\ stage = "parse" /\ Fault
  /\ LET st == StatsPerfCounters(platform, papi[barriers])
         table == Table(st.STATS)
         cut(n) == [table EXCEPT
                      !.rows = SubSeq(@, 1, n), !.avg = <<>>,
                      !.finished = table.finished /\ n = Len(table.rows)]
     IN  \/ UNCHANGED csv
         \/ /\ ~st.raised
            /\ \E n \in 0..Len(table.rows) :
                 csv' = [csv EXCEPT ![barriers] = cut(n)]
  /\ stage' = "idle"
  /\ StaysOut
  /\ UNCHANGED <<run, dry, barriers, rep, round, papi, estimate>>

\* The user kills the driver, and the process with it.
Interrupt ==
  /\ stage \in {"create", "script", "launch", "program", "parse"} /\ Fault
  /\ papi' = IF stage = "program" THEN Appended ELSE papi
  /\ stage' = "idle"
  /\ Gone
  /\ UNCHANGED <<text, platform, clientVars, run, dry, barriers, rep, round,
                 csv, estimate>>

----------------------------------------------------------------------------
(* errorEstimate.main, for one row of a .barrierpoints file.               *)

\* find_csv_file.
FindsTables == \A m \in Modes : csv[m].run > 0

EstimateError(bp) ==
  /\ stage = "idle" /\ estimate.result = "none"
  /\ LET whole == ReadTable(csv[0].rows)
         parts == ReadTable(csv[1].rows)
         raises == whole.raised \/ parts.raised
                   \/ PlotRaises(whole.stats, parts.stats, bp)
     IN  estimate' =
           CASE ~FindsTables -> [NoEstimate EXCEPT !.result = "exit"]
             [] FindsTables /\ raises ->
                  [NoEstimate EXCEPT !.result = "raised"]
             [] OTHER ->
                  [result |-> "plotted", bp |-> bp,
                   taken |-> [i \in DOMAIN whole.stats |->
                                EstMetric(parts.stats, i - 1, bp)]]
  /\ StaysOut
  /\ UNCHANGED <<run, dry, barriers, stage, rep, round, papi, csv, faults>>

----------------------------------------------------------------------------
Init ==
  /\ ProgramInit
  /\ text \in Texts
  /\ in_roi = FALSE /\ synch_count = 0 /\ regions = 0
  /\ platform \in Platforms
  /\ run = 0 /\ dry = FALSE /\ barriers = 0
  /\ stage = "identify"
  /\ rep = 0 /\ round = 1
  /\ papi = [m \in Modes |-> [i \in 0..(Iterations - 1) |-> NoFile]]
  /\ csv = [m \in Modes |-> NoTable]
  /\ estimate = NoEstimate
  /\ faults = 0

Next ==
  \/ Identify
  \/ \E d \in BOOLEAN : StartBenchmarks(d)
  \/ CreateExperimentBatch \/ RemoveOld \/ DryRun \/ LaunchProgram
  \/ CountedProgram \/ ProgramEnds
  \/ ParseAndWrite \/ WriteFails \/ Interrupt
  \/ \E bp \in 1..(regions - 1) : EstimateError(bp)

Spec == Init /\ [][Next]_vars

\* The programs end and the system schedules their threads; the driver and
\* the shell are sequential.  Nobody has to start the driver again.
Proceeds ==
  \/ Identify \/ CreateExperimentBatch \/ RemoveOld \/ DryRun
  \/ LaunchProgram \/ CountedProgram \/ ProgramEnds

\* Parsing ends, with tables or an exception.
ParsingEnds == stage = "parse" /\ stage' \in {"create", "idle"}

FairSpec == Spec /\ WF_vars(Proceeds) /\ WF_stage(ParsingEnds)

----------------------------------------------------------------------------
(* Properties.                                                             *)

\* Every variable is in its domain; event_values_pbarrier does not overflow
\* (omp_counters.h:340, 378).
TypeOK ==
  /\ team \subseteq Threads
  /\ pc \in [Threads -> {"out", "env", "flag", "start", "end", "real",
                         "joined"}]
  /\ roi_bp \in {"unset", "0", "1"}
  /\ {inside_roi, dr_flag, per_region, started, in_roi, dry} \subseteq BOOLEAN
  /\ BP_number \in -1..(Cardinality(Points) + 1)
  /\ running \in [Threads -> BOOLEAN]
  /\ \A t \in Threads :
       /\ counters[t] \subseteq 0..Cardinality(Points)
       /\ count[t] \in 0..Cardinality(Points)
       /\ Len(pbarrier[t]) <= MaxPhases
       /\ at[t] \in 1..(Len(text) + 1)
  /\ exit_status \in {"running", "ok", "failed"}
  /\ synch_count \in 0..(Cardinality(Points) + 1)
  /\ run \in 0..MaxRuns /\ barriers \in Modes /\ faults \in 0..MaxFaults
  /\ stage \in {"identify", "idle", "create", "script", "launch", "program",
                "parse"}
  /\ rep \in 0..(Iterations - 1) /\ round \in 1..3
  /\ \A m \in Modes : csv[m].run \in 0..run

\* The stretches thread t runs in the region of interest: those that end at
\* an operation it meets there.
Runs(t) ==
  LET inRoi(i) == /\ \E j \in 1..(i - 1) : text[j] = "on"
                  /\ \A j \in 1..(i - 1) : text[j] # "off"
      inTeam(i) == \E j \in 1..(i - 1) :
                     /\ text[j] = "par"
                     /\ \A n \in j..(i - 1) : text[n] # "join"
  IN  {Stretch(i) : i \in {n \in DOMAIN text :
                             inRoi(n) /\ (t = Master \/ inTeam(n))}}

LastPhase == Cardinality(Points)
Unstored(k) == k >= MaxPhases /\ k < LastPhase

\* What a row of the table for mode m should be about.
Due(m, tid, bid) == IF m = 0 THEN Runs(tid) ELSE Runs(tid) \cap {bid}

TrueValue(v, m, tid, itr, bid, stat) ==
  /\ ~(m = 1 /\ Unstored(bid)) => v.work = Due(m, tid, bid)
  /\ stat # "TOT_INS" => v.rep = itr /\ v.round = RoundOf(platform, stat)

\* A dry run that finds no .papi file leaves headers only.
Measured(m) == csv[m].finished /\ csv[m].rows # <<>>

\* A finished check table never shows one thing under the name of another: a
\* row of thread, repetition and region holds what that thread did in that
\* region in that repetition, all rows from one invocation.  This is about
\* all of it together: phases reset, numbered and printed
\* (omp_counters.h:261-276, 340-350), files removed before they are appended
\* to (RunBenchmarks.py:480-501), missing ones skipped (:111-113), lists
\* indexed by repetition.  A missing repetition moves the others up, but then
\* the last index raises, so that the table is not finished.  This holds as
\* long as what is lost of a thread is lost whole (PerfWriteFails).
\* Instructions are exempt from the repetition, see InstructionsOfIteration.
RowsTrue ==
  \A m \in Modes : Measured(m) =>
    \A n \in DOMAIN csv[m].rows :
      LET row == csv[m].rows[n]
      IN  \A s \in Stats(platform) :
            /\ TrueValue(row.val[s], m, row.tid, row.itr, row.bid, s)
            /\ row.val[s].run = csv[m].rows[1].val["TOT_CYC"].run

\* getTotalInstructions says "For a given iteration, return the number of
\* instructions executed for threadID and barrierID" (RunBenchmarks.py:141).
\* Expected to fail: there is an entry for each round, not for each
\* repetition.
InstructionsOfIteration ==
  \A m \in Modes : Measured(m) =>
    \A n \in DOMAIN csv[m].rows :
      csv[m].rows[n].val["TOT_INS"].rep = csv[m].rows[n].itr

\* The counters and the client number the same regions: a finished table has
\* for each thread as many regions as the client has found
\* (bp_perfcntrs.cc:49-102 against main.cpp:219-304).
SameNumbering ==
  Measured(1) =>
    \A tid \in Tids :
      {csv[1].rows[n].bid :
         n \in {i \in DOMAIN csv[1].rows : csv[1].rows[i].tid = tid}}
        = 0..(regions - 1)

\* A tuple pairs an event with the instructions of the same execution, of the
\* same thread and region (RunBenchmarks.py:67-69, 99-104).
TuplesOfOneRun ==
  \A m \in Modes : \A k \in DOMAIN csv[m].avg : \A s \in Stats(platform) :
    \A n \in DOMAIN csv[m].avg[k][s] :
      csv[m].avg[k][s][n][1] = csv[m].avg[k][s][n][2]

\* An average is taken over each repetition once, and that of the
\* instructions over each execution once (RunBenchmarks.py:130-160).
AveragesComplete ==
  \A m \in Modes : \A k \in DOMAIN csv[m].avg : \A s \in Stats(platform) :
    LET entries == csv[m].avg[k][s]
        rounds == IF s = "TOT_INS" THEN LastRound ELSE 1
    IN  /\ Len(entries) = Iterations * rounds
        /\ \A n \in DOMAIN entries :
             /\ entries[n][2].rep = (n - 1) \div rounds
             /\ s = "TOT_INS" =>
                  entries[n][2].round = 1 + ((n - 1) % rounds)

\* Tables of two invocations are never found together, wherever the driver
\* fails or is killed, unless a dry run has written one of them: the script
\* of mode 0 removes the tables of both modes (RunBenchmarks.py:476,
\* errorEstimate.py:299-322).
TablesOfOneRun ==
  (\A m \in Modes : csv[m].run > 0 /\ ~csv[m].dry)
    => csv[0].run = csv[1].run

\* The two modes measure the same thing: what a thread does in the whole
\* region of interest is what it does in its phases together, each part once,
\* save for phases beyond MAX_PARALLEL_PHASES.  This is what the error
\* estimate compares (errorEstimate.py:161-176).
PhasesCoverWhole ==
  Measured(0) /\ Measured(1) =>
    \A n \in DOMAIN csv[0].rows :
      LET whole == csv[0].rows[n]
          parts == {i \in DOMAIN csv[1].rows :
                      /\ csv[1].rows[i].tid = whole.tid
                      /\ csv[1].rows[i].itr = whole.itr}
          work(i) == csv[1].rows[i].val["TOT_CYC"].work \ Garbage
          all == UNION {work(i) : i \in parts}
      IN  /\ all \subseteq whole.val["TOT_CYC"].work
          /\ \A k \in whole.val["TOT_CYC"].work \ all : Unstored(k)
          /\ \A i, j \in parts : i # j => work(i) \cap work(j) = {}

\* With finished tables the estimate neither fails nor leaves a barrier point
\* out, and reads for each thread and repetition the region that the client
\* has given that number: "bp > len" (errorEstimate.py:171) never decides.
EstimateSound ==
  Measured(0) /\ Measured(1) /\ estimate.result # "none" =>
    /\ estimate.result = "plotted"
    /\ Len(estimate.taken) = NThreads
    /\ \A tid \in Tids :
         /\ Len(estimate.taken[tid + 1]) = Iterations
         /\ \A itr \in 0..(Iterations - 1) : \A s \in Stats(platform) :
              TrueValue(estimate.taken[tid + 1][itr + 1][s], 1, tid, itr,
                        estimate.bp, s)

\* Every invocation, and the identification, comes to an end: no thread is
\* left behind in a barrier by a library that replaces it (bp_dr.cc:45, 54,
\* bp_perfcntrs.cc:101), whatever fails.
ScriptEnds == (stage # "idle") ~> (stage = "idle")
=============================================================================
