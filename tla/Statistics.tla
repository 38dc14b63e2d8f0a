----------------------------- MODULE Statistics -----------------------------
(***************************************************************************)
(* What RunBenchmarks.py makes of the output files of the measured         *)
(* programs (StatsPerfCounters and the tables of RunExperimentBatch), and  *)
(* what errorEstimate.py reads from those tables.                          *)
(*                                                                         *)
(* A value stands for where it was measured: in which invocation of the    *)
(* driver, repetition and round, and which stretches of the program it     *)
(* covers.  Events that no column of a table uses are left out.            *)
(***************************************************************************)
EXTENDS Integers, SequencesExt

CONSTANTS
  NThreads,   \* the program's threads are 0 .. NThreads - 1
  Iterations  \* Perfcntrs_iterations

ASSUME StatisticsAssumption ==
  NThreads \in Nat \ {0} /\ Iterations \in Nat \ {0}

Tids == 0..(NThreads - 1)

\* The events that are measured together.  A repetition runs the program
\* once for each set.
PAPI_rounds ==
  [x86_64 |-> << <<"TOT_INS", "TOT_CYC">>,
                 <<"TOT_INS", "L1_DCM", "L1_ICM">>,
                 <<"TOT_INS", "L2_DCM", "L2_DCA">> >>,
   aarch64 |-> << <<"TOT_INS", "TOT_CYC", "L1_DCA", "L1_DCM">>,
                  <<"TOT_INS", "L1_ICM", "L1_ICA", "L2_DCM">> >>]

Supported == DOMAIN PAPI_rounds

Stats(platform) == UNION {ToSet(PAPI_rounds[platform][r]) :
                            r \in DOMAIN PAPI_rounds[platform]}

\* The round an event is measured in, TOT_INS excepted.
RoundOf(platform, stat) ==
  CHOOSE r \in DOMAIN PAPI_rounds[platform] :
    stat \in ToSet(PAPI_rounds[platform][r])

----------------------------------------------------------------------------
(* StatsPerfCounters.                                                      *)

\* The lines of one file: PAPI_<stat>[<tid>][<pid>][<bid>]=<value>.
LinesOf(platform, file, tid) ==
  LET line(rec, stat) ==
        [stat |-> stat, tid |-> tid, bid |-> rec.bid,
         value |-> [run |-> rec.run, rep |-> rec.rep, round |-> rec.round,
                    work |-> rec.work]]
      group(rec) == [e \in DOMAIN PAPI_rounds[platform][rec.round] |->
                       line(rec, PAPI_rounds[platform][rec.round][e])]
  IN  FlattenSeq([n \in DOMAIN file[tid] |-> group(file[tid][n])])

\* All lines, file after file.  A missing file is skipped.
Parsed(platform, files) ==
  LET ofFile(file) ==
        FlattenSeq([i \in 1..NThreads |-> LinesOf(platform, file, i - 1)])
  IN  FlattenSeq([i \in 1..Iterations |-> ofFile(files[i - 1])])

NoValue == [run |-> 0, rep |-> 0, round |-> 0, work |-> {}]

\* One more barrier in STATS, when the line is of one that is not there yet.
Grown(platform, st, bid) ==
  IF Len(st.STATS) >= bid + 1 THEN st
  ELSE [st EXCEPT
          !.STATS = Append(@, [t \in Tids |->
                                 [s \in Stats(platform) |-> <<>>]]),
          !.t_inst = Append(@, [t \in Tids |-> NoValue])]

TupleOfLast(before, after, b, line) ==  \* faulty: appended too early
  <<before[b][line.tid], line.value>>

Tuple(before, after, b, line) == <<after[b][line.tid], line.value>>

ParseLine(platform, st, line) ==
  LET grown == Grown(platform, st, line.bid)
      b == line.bid + 1
      inst == IF line.stat = "TOT_INS"
              THEN [grown.t_inst EXCEPT ![b][line.tid] = line.value]
              ELSE grown.t_inst
  IN  IF st.raised \/ b > Len(grown.STATS)
      THEN [st EXCEPT !.raised = TRUE]
      ELSE [grown EXCEPT
              !.STATS[b][line.tid][line.stat] =
                 Append(@, Tuple(grown.t_inst, inst, b, line)),
              !.t_inst = inst]

StatsPerfCounters(platform, files) ==
  FoldLeft(LAMBDA st, line : ParseLine(platform, st, line),
           [STATS |-> <<>>, t_inst |-> <<>>, raised |-> FALSE],
           Parsed(platform, files))

----------------------------------------------------------------------------
(* The getters and the tables.  The accesses a platform does not count are *)
(* 0.0 and left out of the rows.                                           *)

\* getTotal...(tid, itr, bid) finds no entry: an IndexError, but for
\* getTotalL2DataMisses, which logs it and returns 0.
Found(STATS, stat, tid, itr, bid) == itr < Len(STATS[bid + 1][tid][stat])

GetTotal(STATS, stat, tid, itr, bid) ==
  IF Found(STATS, stat, tid, itr, bid)
  THEN STATS[bid + 1][tid][stat][itr + 1][2] ELSE NoValue

GetTotalRaises(STATS, stat, tid, itr, bid) ==
  stat # "L2_DCM" /\ ~Found(STATS, stat, tid, itr, bid)

\* getAvg...(tid, bid): the entries whose mean is taken.
GetAvg(STATS, stat, tid, bid) == STATS[bid + 1][tid][stat]

\* The rows of <prefix>.check.csv, up to one that raises.
CheckTable(platform, STATS) ==
  LET nb == Len(STATS)
      key == [n \in 1..(NThreads * Iterations * nb) |->
                [tid |-> (n - 1) \div (Iterations * nb),
                 itr |-> ((n - 1) \div nb) % Iterations,
                 bid |-> (n - 1) % nb]]
      row(k) == [tid |-> k.tid, itr |-> k.itr, bid |-> k.bid,
                 val |-> [s \in Stats(platform) |->
                            GetTotal(STATS, s, k.tid, k.itr, k.bid)]]
      raises == {n \in DOMAIN key : \E s \in Stats(platform) :
                   GetTotalRaises(STATS, s, key[n].tid, key[n].itr,
                                  key[n].bid)}
      whole == {n \in 0..Len(key) : \A m \in 1..n : m \notin raises}
  IN  [rows |-> [n \in 1..Max(whole) |-> row(key[n])],
       finished |-> raises = {}]

\* <prefix>.csv, written after it: for each thread and region the entries
\* averaged.
AverageTable(platform, STATS) ==
  [k \in Tids \X (0..(Len(STATS) - 1)) |->
     [s \in Stats(platform) |-> GetAvg(STATS, s, k[1], k[2])]]

----------------------------------------------------------------------------
(* errorEstimate.                                                          *)

\* Element n of a list that grows by one element at most.
GrowTo(list, n, element) ==
  IF Len(list) < n + 1 THEN Append(list, element) ELSE list

\* STATSt or STATSbp: for each thread and repetition the values of the
\* regions.  The columns have the same shape and are read as one.
ReadRow(st, row) ==
  LET threads == GrowTo(st.stats, row.tid, <<>>)
      reps == GrowTo(threads[row.tid + 1], row.itr, <<>>)
      values == Append(reps[row.itr + 1], row.val)
  IN  IF st.raised \/ row.tid >= Len(threads) \/ row.itr >= Len(reps)
         \/ Len(values) # row.bid + 1
      THEN [st EXCEPT !.raised = TRUE]
      ELSE [stats |-> [threads EXCEPT ![row.tid + 1] =
                         [reps EXCEPT ![row.itr + 1] = values]],
            raised |-> FALSE]

\* A table without rows leaves tid unbound.
ReadTable(rows) ==
  IF rows = <<>> THEN [stats |-> <<>>, raised |-> TRUE]
  ELSE FoldLeft(ReadRow, [stats |-> <<>>, raised |-> FALSE], rows)

DroppedLast(bp, regions) == bp >= regions - 1  \* faulty: the last one, too

\* EstMetric drops a barrier point that the table has no region for.
Dropped(bp, regions) == bp > regions

\* What EstMetric(metric, tid) takes from the table for barrier point bp.
EstMetricRaises(STATSbp, tid, bp) ==
  \/ tid >= Len(STATSbp)
  \/ /\ ~Dropped(bp, Len(STATSbp[tid + 1][1]))
     /\ \E i \in DOMAIN STATSbp[tid + 1] :
          bp >= Len(STATSbp[tid + 1][i])

EstMetric(STATSbp, tid, bp) ==
  IF Dropped(bp, Len(STATSbp[tid + 1][1])) THEN <<>>
  ELSE [i \in DOMAIN STATSbp[tid + 1] |-> STATSbp[tid + 1][i][bp + 1]]

\* plotError asks for each thread of the whole table.
PlotRaises(STATSt, STATSbp, bp) ==
  \E tid \in 0..(Len(STATSt) - 1) : EstMetricRaises(STATSbp, tid, bp)
=============================================================================
