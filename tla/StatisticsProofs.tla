-------------------------- MODULE StatisticsProofs --------------------------
(***************************************************************************)
(* What RunBenchmarks.py makes of the output files, and what               *)
(* errorEstimate.py reads from its tables, for any number of threads and   *)
(* of repetitions, any files and any platform.                             *)
(*                                                                         *)
(* The lines of the files: those of an event are led by those of the       *)
(* instructions of the same thread, region and execution (Led), and come   *)
(* in ascending order of their repetitions, and for the instructions of    *)
(* their rounds (Ascending). So the reader that takes one line after the   *)
(* other has all values in STATS, in that order (StatsTaken, StatsHold).   *)
(* If every getter finds an entry, there is one for each repetition,       *)
(* because they ascend, and the table shows what its rows say              *)
(* (TableComplete).                                                        *)
(*                                                                         *)
(* errorEstimate.py builds its lists by appending: row n of a table of nb  *)
(* regions is the next of its thread, repetition and region, whose numbers *)
(* are digits of n - 1, and ReadTable makes the lists complete without     *)
(* ever raising (TableRead).                                               *)
(***************************************************************************)
EXTENDS Statistics, NumberFacts, SequenceTheorems

----------------------------------------------------------------------------
(* The files that StatsPerfCounters reads.                                 *)

\* What a line gives, and what it is given for.
Value == [run : Nat, rep : Nat, round : Nat, work : SUBSET Int]
FileLine(p) == [stat : Stats(p), tid : Tids, bid : Nat, value : Value]

\* A record of a .papi file of platform p.
PapiRecord(p) == [run : Nat, rep : Nat, round : 1..Len(PAPI_rounds[p]),
                  bid : Nat, work : SUBSET Int]

\* Before the value of an event comes that of the instructions in the same
\* thread, region and execution, with nothing but others of them between.
Led(lines) ==
  \A k \in DOMAIN lines : lines[k].stat # "TOT_INS" =>
    /\ k - 1 \in DOMAIN lines
    /\ lines[k].tid = lines[k - 1].tid
    /\ lines[k].bid = lines[k - 1].bid
    /\ lines[k].value = lines[k - 1].value

LedLines(p) == {lines \in Seq(FileLine(p)) : Led(lines)}

\* Files that are read one after the other: no line is taken to belong to
\* the last of another file.
LEMMA LedJoined ==
  ASSUME NEW p
  PROVE  /\ <<>> \in LedLines(p)
         /\ \A x, y \in LedLines(p) : x \o y \in LedLines(p)
<1>1. <<>> \in LedLines(p)
  BY DEF LedLines, Led
<1>2. ASSUME NEW x \in LedLines(p), NEW y \in LedLines(p)
      PROVE  x \o y \in LedLines(p)
  <2> DEFINE z == x \o y
  <2>1. x \in Seq(FileLine(p)) /\ y \in Seq(FileLine(p)) /\ Led(x) /\ Led(y)
    BY DEF LedLines
  <2>2. /\ z \in Seq(FileLine(p)) /\ Len(z) = Len(x) + Len(y)
        /\ \A k \in 1..Len(x) : z[k] = x[k]
        /\ \A k \in (Len(x) + 1)..Len(z) :
             z[k] = y[k - Len(x)] /\ k - Len(x) \in 1..Len(y)
        /\ Len(x) \in Nat /\ Len(y) \in Nat
        /\ DOMAIN x = 1..Len(x) /\ DOMAIN y = 1..Len(y)
        /\ DOMAIN z = 1..Len(z)
    BY <2>1
  <2> HIDE DEF z
  <2>3. ASSUME NEW k \in DOMAIN z, z[k].stat # "TOT_INS"
        PROVE  /\ k - 1 \in DOMAIN z
               /\ z[k].tid = z[k - 1].tid
               /\ z[k].bid = z[k - 1].bid
               /\ z[k].value = z[k - 1].value
    <3>1. CASE k \in 1..Len(x)
      <4>1. z[k] = x[k]
        BY <2>2, <3>1
      <4>2. k - 1 \in 1..Len(x)
        BY <2>1, <2>2, <2>3, <3>1, <4>1 DEF Led
      <4>3. z[k - 1] = x[k - 1] /\ k - 1 \in DOMAIN z
        BY <2>2, <4>2
      <4> QED
        BY <2>1, <2>2, <2>3, <3>1, <4>1, <4>3 DEF Led
    <3>2. CASE k \in (Len(x) + 1)..Len(z)
      <4> DEFINE j == k - Len(x)
      <4>1. z[k] = y[j] /\ j \in 1..Len(y)
        BY <2>2, <3>2
      <4>2. j - 1 \in 1..Len(y)
        BY <2>1, <2>2, <2>3, <4>1 DEF Led
      <4>3. /\ k - 1 \in (Len(x) + 1)..Len(z) /\ (k - 1) - Len(x) = j - 1
            /\ k - 1 \in DOMAIN z
        BY <2>2, <3>2, <4>2
      <4>4. z[k - 1] = y[j - 1]
        BY <2>2, <4>3
      <4> QED
        BY <2>1, <2>2, <2>3, <4>1, <4>3, <4>4 DEF Led
    <3> QED
      BY <2>2, <3>1, <3>2
  <2>4. Led(z)
    BY <2>3 DEF Led
  <2> QED
    BY <2>2, <2>4 DEF LedLines, z
<1> QED
  BY <1>1, <1>2

\* Each round begins with the instructions, and counts some events.
LEMMA RoundsBegin ==
  ASSUME NEW p \in Supported, NEW r \in 1..Len(PAPI_rounds[p])
  PROVE  /\ PAPI_rounds[p][r] \in Seq(Stats(p))
         /\ PAPI_rounds[p][r][1] = "TOT_INS"
         /\ Len(PAPI_rounds[p][r]) >= 1
<1> DEFINE R == PAPI_rounds[p]
           Events == {"TOT_INS", "TOT_CYC", "L1_DCA", "L1_DCM", "L1_ICM",
                      "L1_ICA", "L2_DCM", "L2_DCA"}
           Begins(s) == /\ s \in Seq(Events)
                        /\ s[1] = "TOT_INS"
                        /\ Len(s) >= 1
<1>1. p \in {"x86_64", "aarch64"}
  BY DEF Supported, PAPI_rounds
<1>2. DOMAIN R = 1..Len(R) /\ Begins(R[r])
  <2>1. CASE p = "x86_64"
    <3>1. R = << <<"TOT_INS", "TOT_CYC">>,
                 <<"TOT_INS", "L1_DCM", "L1_ICM">>,
                 <<"TOT_INS", "L2_DCM", "L2_DCA">> >>
      BY <2>1 DEF PAPI_rounds
    <3>2. Len(R) = 3 /\ DOMAIN R = 1..3
      BY <3>1
    <3>3. r = 1 \/ r = 2 \/ r = 3
      BY <3>2
    <3>4. \/ R[r] = <<"TOT_INS", "TOT_CYC">>
          \/ R[r] = <<"TOT_INS", "L1_DCM", "L1_ICM">>
          \/ R[r] = <<"TOT_INS", "L2_DCM", "L2_DCA">>
      BY <3>1, <3>3
    <3>5. /\ Begins(<<"TOT_INS", "TOT_CYC">>)
          /\ Begins(<<"TOT_INS", "L1_DCM", "L1_ICM">>)
          /\ Begins(<<"TOT_INS", "L2_DCM", "L2_DCA">>)
      OBVIOUS
    <3> HIDE DEF R, Begins
    <3> QED
      BY <3>2, <3>4, <3>5
  <2>2. CASE p = "aarch64"
    <3>1. R = << <<"TOT_INS", "TOT_CYC", "L1_DCA", "L1_DCM">>,
                 <<"TOT_INS", "L1_ICM", "L1_ICA", "L2_DCM">> >>
      BY <2>2 DEF PAPI_rounds
    <3>2. Len(R) = 2 /\ DOMAIN R = 1..2
      BY <3>1
    <3>3. r = 1 \/ r = 2
      BY <3>2
    <3>4. \/ R[r] = <<"TOT_INS", "TOT_CYC", "L1_DCA", "L1_DCM">>
          \/ R[r] = <<"TOT_INS", "L1_ICM", "L1_ICA", "L2_DCM">>
      BY <3>1, <3>3
    <3>5. /\ Begins(<<"TOT_INS", "TOT_CYC", "L1_DCA", "L1_DCM">>)
          /\ Begins(<<"TOT_INS", "L1_ICM", "L1_ICA", "L2_DCM">>)
      OBVIOUS
    <3> HIDE DEF R, Begins
    <3> QED
      BY <3>2, <3>4, <3>5
  <2> QED
    BY <1>1, <2>1, <2>2
<1>3. \A e \in 1..Len(R[r]) : R[r][e] \in Stats(p)
  BY <1>2 DEF Stats, ToSet
<1>4. R[r] \in Seq(Stats(p))
  <2> HIDE DEF R
  <2> QED
    BY <1>2, <1>3
<1> QED
  BY <1>2, <1>4

\* There are up to three rounds for each platform.
LEMMA RoundsCount ==
  ASSUME NEW p \in Supported
  PROVE  /\ Len(PAPI_rounds[p]) \in Nat
         /\ Len(PAPI_rounds[p]) >= 1 /\ Len(PAPI_rounds[p]) <= 3
<1>1. p \in {"x86_64", "aarch64"}
  BY DEF Supported, PAPI_rounds
<1>2. CASE p = "x86_64"
  <2>1. PAPI_rounds[p] = << <<"TOT_INS", "TOT_CYC">>,
                            <<"TOT_INS", "L1_DCM", "L1_ICM">>,
                            <<"TOT_INS", "L2_DCM", "L2_DCA">> >>
    BY <1>2 DEF PAPI_rounds
  <2>2. Len(PAPI_rounds[p]) = 3
    BY <2>1
  <2> QED
    BY <2>2
<1>3. CASE p = "aarch64"
  <2>1. PAPI_rounds[p] = << <<"TOT_INS", "TOT_CYC", "L1_DCA", "L1_DCM">>,
                            <<"TOT_INS", "L1_ICM", "L1_ICA", "L2_DCM">> >>
    BY <1>3 DEF PAPI_rounds
  <2>2. Len(PAPI_rounds[p]) = 2
    BY <2>1
  <2> QED
    BY <2>2
<1> QED
  BY <1>1, <1>2, <1>3

\* What one process has written for a thread, line by line.
LEMMA FileLed ==
  ASSUME NEW p \in Supported, NEW tid \in Tids, NEW file,
         file[tid] \in Seq(PapiRecord(p))
  PROVE  LinesOf(p, file, tid) \in LedLines(p)
<1> DEFINE line(rec, stat) ==
             [stat |-> stat, tid |-> tid, bid |-> rec.bid,
              value |-> [run |-> rec.run, rep |-> rec.rep,
                         round |-> rec.round, work |-> rec.work]]
           group(rec) == [e \in DOMAIN PAPI_rounds[p][rec.round] |->
                            line(rec, PAPI_rounds[p][rec.round][e])]
           groups == [n \in DOMAIN file[tid] |-> group(file[tid][n])]
<1>1. ASSUME NEW rec \in PapiRecord(p)
      PROVE  group(rec) \in LedLines(p)
  <2> DEFINE R == PAPI_rounds[p][rec.round]
             g == group(rec)
  <2>1. R \in Seq(Stats(p)) /\ R[1] = "TOT_INS"
    <3>1. rec.round \in 1..Len(PAPI_rounds[p])
      BY DEF PapiRecord
    <3> QED
      BY <3>1, RoundsBegin
  <2>2. ASSUME NEW e \in DOMAIN R
        PROVE  g[e] = line(rec, R[e])
    OBVIOUS
  <2>3. DOMAIN g = DOMAIN R
    OBVIOUS
  <2> DEFINE v == [run |-> rec.run, rep |-> rec.rep,
                   round |-> rec.round, work |-> rec.work]
  <2>4. v \in Value /\ rec.bid \in Nat
    BY DEF Value, PapiRecord
  <2>5. ASSUME NEW stat
        PROVE  /\ line(rec, stat).stat = stat
               /\ line(rec, stat).tid = tid
               /\ line(rec, stat).bid = rec.bid
               /\ line(rec, stat).value = v
    OBVIOUS
  <2>6. ASSUME NEW stat \in Stats(p)
        PROVE  line(rec, stat) \in FileLine(p)
    <3>1. line(rec, stat) = [stat |-> stat, tid |-> tid, bid |-> rec.bid,
                             value |-> v]
      OBVIOUS
    <3> HIDE DEF v, line
    <3> QED
      BY <2>4, <3>1 DEF FileLine
  <2>7. g = [e \in DOMAIN R |-> line(rec, R[e])]
    OBVIOUS
  <2> HIDE DEF line, R, g, v
  <2>8. DOMAIN R = 1..Len(R) /\ Len(R) \in Nat
    BY <2>1
  <2>9. g \in Seq(FileLine(p))
    <3>1. \A e \in 1..Len(R) : line(rec, R[e]) \in FileLine(p)
      BY <2>1, <2>6
    <3> QED
      BY <2>7, <2>8, <3>1
  <2>10. Led(g)
    <3> SUFFICES ASSUME NEW k \in DOMAIN g, g[k].stat # "TOT_INS"
                 PROVE  /\ k - 1 \in DOMAIN g
                        /\ g[k].tid = g[k - 1].tid
                        /\ g[k].bid = g[k - 1].bid
                        /\ g[k].value = g[k - 1].value
      BY DEF Led
    <3>1. k \in 1..Len(R) /\ k # 1
      BY <2>1, <2>2, <2>3, <2>5, <2>8
    <3>2. k - 1 \in DOMAIN R
      BY <2>8, <3>1
    <3> QED
      BY <2>2, <2>3, <2>5, <3>2
  <2> QED
    BY <2>9, <2>10 DEF LedLines, g
<1>2. LinesOf(p, file, tid) = FlattenSeq(groups)
  BY DEF LinesOf
<1> HIDE DEF group, line
<1>3. groups \in Seq(LedLines(p))
  <2>1. \A n \in DOMAIN file[tid] : group(file[tid][n]) \in LedLines(p)
    BY <1>1
  <2>2. DOMAIN file[tid] = 1..Len(file[tid]) /\ Len(file[tid]) \in Nat
    OBVIOUS
  <2> QED
    BY <2>1, <2>2
<1> HIDE DEF groups
<1> QED
  BY <1>2, <1>3, FlattenIn, LedJoined

\* The files of all repetitions are there, each with a list for every thread.
PapiFiles(p) == [0..(Iterations - 1) -> [Tids -> Seq(PapiRecord(p))]]

\* All lines that are parsed for one table.
LEMMA ParsedLed ==
  ASSUME NEW p \in Supported, NEW files \in PapiFiles(p)
  PROVE  Parsed(p, files) \in LedLines(p)
<1> DEFINE ofFile(file) ==
             FlattenSeq([i \in 1..NThreads |-> LinesOf(p, file, i - 1)])
           all == [i \in 1..Iterations |-> ofFile(files[i - 1])]
<1> USE StatisticsAssumption
<1>1. ASSUME NEW file \in [Tids -> Seq(PapiRecord(p))]
      PROVE  ofFile(file) \in LedLines(p)
  <2> DEFINE lists == [i \in 1..NThreads |-> LinesOf(p, file, i - 1)]
  <2>1. ASSUME NEW i \in 1..NThreads
        PROVE  LinesOf(p, file, i - 1) \in LedLines(p)
    <3>1. i - 1 \in Tids
      BY DEF Tids
    <3> QED
      BY <3>1, FileLed
  <2>2. lists \in Seq(LedLines(p))
    BY <2>1
  <2> HIDE DEF lists
  <2>3. FlattenSeq(lists) \in LedLines(p)
    BY <2>2, FlattenIn, LedJoined
  <2> QED
    BY <2>3 DEF lists
<1>2. Parsed(p, files) = FlattenSeq(all)
  BY DEF Parsed
<1> HIDE DEF ofFile
<1>3. all \in Seq(LedLines(p))
  <2>1. ASSUME NEW i \in 1..Iterations
        PROVE  ofFile(files[i - 1]) \in LedLines(p)
    <3>1. i - 1 \in 0..(Iterations - 1)
      OBVIOUS
    <3>2. files[i - 1] \in [Tids -> Seq(PapiRecord(p))]
      BY <3>1 DEF PapiFiles
    <3> QED
      BY <1>1, <3>2
  <2> QED
    BY <2>1
<1> HIDE DEF all
<1> QED
  BY <1>2, <1>3, FlattenIn, LedJoined

----------------------------------------------------------------------------
(* The statistics.                                                         *)

\* A tuple whose parts are of the same execution.
Same == {<<v, v>> : v \in Value}

\* What StatsPerfCounters has after some lines.
ReadStates(p) ==
  [STATS : Seq([Tids -> [Stats(p) -> Seq(Same)]]),
   t_inst : Seq([Tids -> Value]),
   raised : BOOLEAN]

Reads(p, st) == st \in ReadStates(p) /\ Len(st.STATS) = Len(st.t_inst)

\* t_inst is what the next event of the line's execution is paired with.
Current(st, line) ==
  ~st.raised =>
    /\ line.bid + 1 <= Len(st.t_inst)
    /\ st.t_inst[line.bid + 1][line.tid] = line.value

\* A new barrier has nothing yet, and those before it keep what they have
\* (RunBenchmarks.py:71-84).
LEMMA GrownReads ==
  ASSUME NEW p, NEW st, Reads(p, st), NEW bid \in Nat
  PROVE  /\ Reads(p, Grown(p, st, bid))
         /\ Grown(p, st, bid).raised = st.raised
         /\ Len(st.t_inst) <= Len(Grown(p, st, bid).t_inst)
         /\ \A b \in 1..Len(st.t_inst) :
              Grown(p, st, bid).t_inst[b] = st.t_inst[b]
<1>1. CASE Len(st.STATS) >= bid + 1
  BY <1>1 DEF Grown, Reads, ReadStates
<1>2. CASE ~(Len(st.STATS) >= bid + 1)
  <2> DEFINE S == Append(st.STATS, [t \in Tids |->
                                      [s \in Stats(p) |-> <<>>]])
             I == Append(st.t_inst, [t \in Tids |-> NoValue])
  <2>1. /\ st.STATS \in Seq([Tids -> [Stats(p) -> Seq(Same)]])
        /\ st.t_inst \in Seq([Tids -> Value])
        /\ st = [STATS |-> st.STATS, t_inst |-> st.t_inst,
                 raised |-> st.raised]
        /\ st.raised \in BOOLEAN
    BY DEF Reads, ReadStates
  <2>2. Grown(p, st, bid) = [STATS |-> S, t_inst |-> I,
                             raised |-> st.raised]
    BY <1>2, <2>1 DEF Grown
  <2>3. /\ S \in Seq([Tids -> [Stats(p) -> Seq(Same)]])
        /\ Len(S) = Len(st.STATS) + 1
    <3>1. [t \in Tids |-> [s \in Stats(p) |-> <<>>]]
            \in [Tids -> [Stats(p) -> Seq(Same)]]
      OBVIOUS
    <3> QED
      BY <2>1, <3>1
  <2>4. /\ I \in Seq([Tids -> Value])
        /\ Len(I) = Len(st.t_inst) + 1
        /\ \A b \in 1..Len(st.t_inst) : I[b] = st.t_inst[b]
    <3>1. [t \in Tids |-> NoValue] \in [Tids -> Value]
      BY DEF NoValue, Value
    <3> QED
      BY <2>1, <3>1
  <2>5. Len(st.t_inst) \in Nat /\ Len(st.STATS) = Len(st.t_inst)
    BY <2>1 DEF Reads
  <2> HIDE DEF S, I
  <2> QED
    BY <2>1, <2>2, <2>3, <2>4, <2>5 DEF Reads, ReadStates
<1> QED
  BY <1>1, <1>2

\* A line of the instructions is remembered before it is paired with itself;
\* any other is paired with what is remembered (RunBenchmarks.py:96-104).
LEMMA ParseLineReads ==
  ASSUME NEW p, NEW st, Reads(p, st), NEW line \in FileLine(p),
         line.stat # "TOT_INS" => Current(st, line)
  PROVE  /\ Reads(p, ParseLine(p, st, line))
         /\ Current(ParseLine(p, st, line), line)
<1> DEFINE grown == Grown(p, st, line.bid)
           b == line.bid + 1
           inst == IF line.stat = "TOT_INS"
                   THEN [grown.t_inst EXCEPT ![b][line.tid] = line.value]
                   ELSE grown.t_inst
           after == ParseLine(p, st, line)
<1>1. /\ line.bid \in Nat /\ b \in Nat /\ b >= 1 /\ line.tid \in Tids
      /\ line.stat \in Stats(p) /\ line.value \in Value
  BY DEF FileLine
<1>2. /\ Reads(p, grown) /\ grown.raised = st.raised
      /\ Len(st.t_inst) <= Len(grown.t_inst)
      /\ \A i \in 1..Len(st.t_inst) : grown.t_inst[i] = st.t_inst[i]
  <2> DEFINE bid == line.bid
  <2>1. bid \in Nat
    BY <1>1
  <2> HIDE DEF bid
  <2>2. /\ Reads(p, Grown(p, st, bid))
        /\ Grown(p, st, bid).raised = st.raised
        /\ Len(st.t_inst) <= Len(Grown(p, st, bid).t_inst)
        /\ \A i \in 1..Len(st.t_inst) :
             Grown(p, st, bid).t_inst[i] = st.t_inst[i]
    BY <2>1, GrownReads
  <2> QED
    BY <2>2 DEF bid
<1>3. CASE st.raised \/ b > Len(grown.STATS)
  <2>1. after = [st EXCEPT !.raised = TRUE]
    BY <1>3 DEF ParseLine
  <2> HIDE DEF after
  <2>2. Reads(p, after) /\ after.raised
    BY <2>1 DEF Reads, ReadStates
  <2> QED
    BY <2>2 DEF after, Current
<1>4. CASE ~(st.raised \/ b > Len(grown.STATS))
  <2> DEFINE tuple == Tuple(grown.t_inst, inst, b, line)
             row == grown.STATS[b][line.tid]
             list == row[line.stat]
             S == [grown.STATS EXCEPT
                     ![b][line.tid][line.stat] = Append(list, tuple)]
  <2>1. after = [grown EXCEPT !.STATS = S, !.t_inst = inst]
    BY <1>4 DEF ParseLine
  <2> HIDE DEF after, grown
  <2>2. /\ grown.STATS \in Seq([Tids -> [Stats(p) -> Seq(Same)]])
        /\ grown.t_inst \in Seq([Tids -> Value])
        /\ grown = [STATS |-> grown.STATS, t_inst |-> grown.t_inst,
                    raised |-> grown.raised]
        /\ grown.raised \in BOOLEAN
        /\ Len(grown.STATS) = Len(grown.t_inst)
        /\ Len(grown.t_inst) \in Nat
    BY <1>2 DEF Reads, ReadStates
  <2>3. b \in 1..Len(grown.STATS) /\ b \in 1..Len(grown.t_inst)
    BY <1>1, <1>4, <2>2
  <2>4. /\ inst \in Seq([Tids -> Value])
        /\ Len(inst) = Len(grown.t_inst)
        /\ inst[b][line.tid] = line.value
    <3>1. CASE line.stat = "TOT_INS"
      <4> DEFINE G == grown.t_inst
                 new == [G[b] EXCEPT ![line.tid] = line.value]
      <4>1. G[b] \in [Tids -> Value]
        BY <2>2, <2>3
      <4>2. new \in [Tids -> Value] /\ new[line.tid] = line.value
        BY <1>1, <4>1
      <4>3. inst = [G EXCEPT ![b] = new]
        BY <3>1
      <4> HIDE DEF new, inst
      <4> QED
        BY <2>2, <2>3, <4>2, <4>3
    <3>2. CASE line.stat # "TOT_INS"
      <4>1. inst = grown.t_inst
        BY <3>2
      <4>2. /\ b <= Len(st.t_inst)
            /\ st.t_inst[b][line.tid] = line.value
        BY <1>4, <3>2 DEF Current
      <4>3. b \in 1..Len(st.t_inst)
        BY <1>1, <4>2 DEF Reads, ReadStates
      <4>4. grown.t_inst[b] = st.t_inst[b]
        BY <1>2, <4>3
      <4> HIDE DEF inst, b
      <4> QED
        BY <2>2, <4>1, <4>2, <4>4
    <3> QED
      BY <3>1, <3>2
  <2>5. tuple \in Same
    <3>1. tuple = <<inst[b][line.tid], line.value>>
      BY DEF Tuple
    <3> HIDE DEF tuple, inst
    <3> QED
      BY <1>1, <2>4, <3>1 DEF Same
  <2>6. S \in Seq([Tids -> [Stats(p) -> Seq(Same)]])
        /\ Len(S) = Len(grown.STATS)
    <3> DEFINE G == grown.STATS
               newRow == [row EXCEPT ![line.stat] = Append(list, tuple)]
               new == [G[b] EXCEPT ![line.tid] = newRow]
    <3>1. G[b] \in [Tids -> [Stats(p) -> Seq(Same)]]
      BY <2>2, <2>3
    <3>2. row \in [Stats(p) -> Seq(Same)] /\ list \in Seq(Same)
      BY <1>1, <3>1
    <3> HIDE DEF tuple
    <3>3. Append(list, tuple) \in Seq(Same)
      BY <2>5, <3>2
    <3>4. newRow \in [Stats(p) -> Seq(Same)]
      <4> HIDE DEF row, list
      <4> QED
        BY <1>1, <3>2, <3>3
    <3>5. S = [G EXCEPT ![b] = new]
      OBVIOUS
    <3> HIDE DEF newRow, S, b
    <3>6. new \in [Tids -> [Stats(p) -> Seq(Same)]]
      BY <1>1, <3>1, <3>4
    <3> HIDE DEF new
    <3> QED
      BY <2>2, <2>3, <3>5, <3>6
  <2> HIDE DEF S, inst, tuple
  <2>7. /\ after.STATS = S /\ after.t_inst = inst
        /\ after.raised = grown.raised
        /\ after = [STATS |-> S, t_inst |-> inst, raised |-> grown.raised]
    BY <2>1, <2>2
  <2>8. Reads(p, after)
    BY <2>2, <2>4, <2>6, <2>7 DEF Reads, ReadStates
  <2>9. Current(after, line)
    BY <2>2, <2>3, <2>4, <2>7 DEF Current
  <2> QED
    BY <2>8, <2>9 DEF after
<1> QED
  BY <1>3, <1>4

AllRead(p, b, c) == FoldLeft(LAMBDA st, line : ParseLine(p, st, line), b, c)

\* One step of the recursion FoldLeft stands for: set is the domain of a
\* beginning of c.
ReadStep(p, b, c, g, set) ==
  IF set = {} THEN b ELSE ParseLine(p, g[set \ {Max(set)}], c[Max(set)])

\* StatsPerfCounters takes one line after the other: h[j] is what it has
\* after j lines.
LEMMA ReadSteps ==
  ASSUME NEW p, NEW S, NEW c \in Seq(S), NEW b
  PROVE  \E h : /\ h[0] = b
                /\ \A j \in 0..(Len(c) - 1) :
                     h[j + 1] = ParseLine(p, h[j], c[j + 1])
                /\ h[Len(c)] = AllRead(p, b, c)
<1> DEFINE m == Len(c)
           Steps(g, k) == g = [set \in SUBSET (1..k) |->
                                 ReadStep(p, b, c, g, set)]
           T == {k \in Nat : \E g : Steps(g, k)}
<1>1. m \in Nat /\ DOMAIN c = 1..m
  OBVIOUS
<1>2. \A k \in Nat : Max(1..(k + 1)) = k + 1
  BY DEF Max
<1>3. 0 \in T
  <2> DEFINE g == [set \in SUBSET (1..0) |-> b]
  <2>1. \A set \in SUBSET (1..0) : ReadStep(p, b, c, g, set) = b
    BY DEF ReadStep
  <2> QED
    BY <2>1
<1>4. \A k \in 0..(m - 1) : k \in T => k + 1 \in T
  <2> SUFFICES ASSUME NEW k \in Nat, k \in T
               PROVE  k + 1 \in T
    BY <1>1
  <2>1. PICK g : Steps(g, k)
    OBVIOUS
  <2> DEFINE n == k + 1
             G == [set \in SUBSET (1..n) |->
                     IF n \in set THEN ParseLine(p, g[set \ {n}], c[n])
                     ELSE g[set]]
  <2>2. ASSUME NEW set \in SUBSET (1..n)
        PROVE  G[set] = ReadStep(p, b, c, G, set)
    <3>1. CASE n \in set
      <4>1. \A y \in set : n >= y
        OBVIOUS
      <4>2. Max(set) = n
        <5>1. Max(set) \in set /\ \A y \in set : Max(set) >= y
          BY <3>1, <4>1 DEF Max
        <5> DEFINE z == Max(set)
        <5>2. z \in Nat /\ z <= n /\ n <= z
          <6> HIDE DEF z
          <6>1. z \in set /\ z >= n
            BY <3>1, <5>1 DEF z
          <6> QED
            BY <6>1
        <5> HIDE DEF z, G
        <5>3. z = n
          BY <5>2
        <5> QED
          BY <5>3 DEF z
      <4>3. set \ {n} \in SUBSET (1..n) /\ n \notin set \ {n}
        OBVIOUS
      <4>4. G[set \ {n}] = g[set \ {n}]
        <5> DEFINE rest == set \ {n}
        <5>1. rest \in SUBSET (1..n) /\ n \notin rest
          BY <4>3
        <5> HIDE DEF rest
        <5>2. G[rest] = g[rest]
          BY <5>1
        <5> QED
          BY <5>2 DEF rest
      <4>5. G[set] = ParseLine(p, g[set \ {n}], c[n])
        BY <3>1
      <4> HIDE DEF G, n
      <4> QED
        BY <3>1, <4>2, <4>4, <4>5 DEF ReadStep
    <3>2. CASE n \notin set
      <4>1. set \in SUBSET (1..k)
        BY <3>2
      <4>2. G[set] = g[set] /\ g[set] = ReadStep(p, b, c, g, set)
        BY <2>1, <3>2, <4>1
      <4>3. ASSUME set # {}
            PROVE  G[set \ {Max(set)}] = g[set \ {Max(set)}]
        <5> DEFINE rest == set \ {Max(set)}
        <5>1. rest \in SUBSET (1..n) /\ n \notin rest
          BY <3>2
        <5> HIDE DEF rest
        <5>2. G[rest] = g[rest]
          BY <5>1
        <5> QED
          BY <5>2 DEF rest
      <4> HIDE DEF G
      <4> QED
        BY <4>2, <4>3 DEF ReadStep
    <3> QED
      BY <3>1, <3>2
  <2>3. G = [set \in SUBSET (1..n) |-> ReadStep(p, b, c, G, set)]
    BY <2>2
  <2> HIDE DEF G
  <2>4. Steps(G, k + 1) /\ k + 1 \in Nat
    BY <2>3
  <2> HIDE DEF Steps
  <2> QED
    BY <2>4
<1>5. m \in T
  <2> HIDE DEF T, m
  <2>1. \A k \in 0..m : k \in T
    BY <1>1, <1>3, <1>4, UpTo
  <2> QED
    BY <1>1, <2>1
<1> DEFINE f == CHOOSE g : g = [set \in SUBSET (DOMAIN c) |->
                                  ReadStep(p, b, c, g, set)]
<1>6. f = [set \in SUBSET (1..m) |-> ReadStep(p, b, c, f, set)]
  BY <1>1, <1>5
<1>7. AllRead(p, b, c) = f[1..m]
  BY <1>1 DEF AllRead, FoldLeft, MapThenFoldSet, ReadStep
<1> HIDE DEF f, T
<1> DEFINE h == [j \in 0..m |-> f[1..j]]
<1>8. h[0] = b
  <2>1. (1..0) = {} /\ {} \in SUBSET (1..m) /\ 0 \in 0..m
    BY <1>1
  <2>2. f[{}] = b
    BY <1>6, <2>1 DEF ReadStep
  <2> QED
    BY <2>1, <2>2
<1>9. \A j \in 0..(m - 1) : h[j + 1] = ParseLine(p, h[j], c[j + 1])
  <2> SUFFICES ASSUME NEW j \in 0..(m - 1)
               PROVE  h[j + 1] = ParseLine(p, h[j], c[j + 1])
    OBVIOUS
  <2>1. /\ j \in Nat /\ 1..(j + 1) \in SUBSET (1..m) /\ 1..(j + 1) # {}
        /\ (1..(j + 1)) \ {j + 1} = 1..j
        /\ j \in 0..m /\ j + 1 \in 0..m
    <3> HIDE DEF h, m
    <3>1. j \in Nat /\ j \in 0..m /\ j + 1 \in 0..m /\ j + 1 \in 1..(j + 1)
      BY <1>1
    <3>2. 1..(j + 1) \in SUBSET (1..m)
      BY <1>1, <3>1
    <3>3. (1..(j + 1)) \ {j + 1} = 1..j
      BY <3>1
    <3> QED
      BY <3>1, <3>2, <3>3
  <2>2. Max(1..(j + 1)) = j + 1
    BY <1>2, <2>1
  <2>3. h[j] = f[1..j] /\ h[j + 1] = f[1..(j + 1)]
    BY <2>1
  <2> HIDE DEF h
  <2>4. f[1..(j + 1)] = ReadStep(p, b, c, f, 1..(j + 1))
    <3> DEFINE set == 1..(j + 1)
    <3>1. set \in SUBSET (1..m)
      BY <2>1
    <3> HIDE DEF set, m
    <3>2. f[set] = ReadStep(p, b, c, f, set)
      BY <1>6, <3>1
    <3> QED
      BY <3>2 DEF set
  <2> QED
    BY <2>1, <2>2, <2>3, <2>4, Zenon DEF ReadStep
<1>10. h[m] = f[1..m]
  BY <1>1
<1> HIDE DEF h
<1> QED
  BY <1>7, <1>8, <1>9, <1>10

NothingRead == [STATS |-> <<>>, t_inst |-> <<>>, raised |-> FALSE]

\* h[k] is what there is after k of the lines c.
ReadAs(p, c, h) ==
  /\ h[0] = NothingRead
  /\ \A k \in 0..(Len(c) - 1) : h[k + 1] = ParseLine(p, h[k], c[k + 1])
  /\ \A k \in 0..Len(c) : Reads(p, h[k])

\* Whatever the files of one platform hold, if they are complete lines: the
\* tuples are right (RunBenchmarks.py:60-117).
LEMMA StatsReadAs ==
  ASSUME NEW p \in Supported, NEW files \in PapiFiles(p)
  PROVE  \E h : /\ ReadAs(p, Parsed(p, files), h)
                /\ h[Len(Parsed(p, files))] = StatsPerfCounters(p, files)
<1> DEFINE c == Parsed(p, files)
           n == Len(c)
           b == NothingRead
<1>1. c \in Seq(FileLine(p)) /\ Led(c)
  BY ParsedLed DEF LedLines
<1>2. StatsPerfCounters(p, files) = AllRead(p, b, c)
  BY DEF StatsPerfCounters, AllRead, NothingRead
<1> HIDE DEF c
<1>3. n \in Nat /\ DOMAIN c = 1..n /\ \A k \in 1..n : c[k] \in FileLine(p)
  BY <1>1
<1>4. Reads(p, b)
  <2>1. /\ b.STATS = <<>> /\ b.t_inst = <<>> /\ b.raised = FALSE
        /\ Len(<<>>) = 0
    BY DEF NothingRead
  <2> QED
    BY <2>1 DEF Reads, ReadStates, NothingRead
<1> HIDE DEF b, n
<1>5. PICK h : /\ h[0] = b
               /\ \A j \in 0..(n - 1) :
                    h[j + 1] = ParseLine(p, h[j], c[j + 1])
               /\ h[n] = StatsPerfCounters(p, files)
  <2>1. \E h : /\ h[0] = b
               /\ \A j \in 0..(Len(c) - 1) :
                    h[j + 1] = ParseLine(p, h[j], c[j + 1])
               /\ h[Len(c)] = AllRead(p, b, c)
    BY <1>1, ReadSteps
  <2> QED
    BY <1>2, <2>1 DEF n
<1> DEFINE T == {k \in Nat : /\ Reads(p, h[k])
                             /\ k > 0 => Current(h[k], c[k])}
<1>6. 0 \in T
  BY <1>4, <1>5
<1>7. \A k \in 0..(n - 1) : k \in T => k + 1 \in T
  <2> SUFFICES ASSUME NEW k \in 0..(n - 1), k \in T
               PROVE  k + 1 \in T
    OBVIOUS
  <2>1. k + 1 \in 1..n /\ k \in Nat /\ (k + 1) - 1 = k
    BY <1>3
  <2>2. c[k + 1] \in FileLine(p) /\ h[k + 1] = ParseLine(p, h[k], c[k + 1])
    BY <1>3, <1>5, <2>1
  <2>3. ASSUME c[k + 1].stat # "TOT_INS"
        PROVE  Current(h[k], c[k + 1])
    <3>1. /\ k \in 1..n
          /\ c[k + 1].tid = c[k].tid /\ c[k + 1].bid = c[k].bid
          /\ c[k + 1].value = c[k].value
      BY <1>1, <1>3, <2>1, <2>3 DEF Led
    <3>2. Current(h[k], c[k])
      BY <3>1
    <3> QED
      BY <3>1, <3>2 DEF Current
  <2>4. Reads(p, h[k + 1]) /\ Current(h[k + 1], c[k + 1])
    BY <2>2, <2>3, ParseLineReads
  <2> QED
    BY <2>1, <2>4
<1>8. \A k \in 0..n : Reads(p, h[k])
  <2> HIDE DEF T
  <2>1. \A k \in 0..n : k \in T
    BY <1>3, <1>6, <1>7, UpTo
  <2> QED
    BY <2>1 DEF T
<1>9. ReadAs(p, c, h)
  BY <1>5, <1>8 DEF ReadAs, b, n
<1> QED
  BY <1>5, <1>9 DEF c, n

\* What there is after all lines.
LEMMA StatsRead ==
  ASSUME NEW p \in Supported, NEW files \in PapiFiles(p)
  PROVE  Reads(p, StatsPerfCounters(p, files))
<1> DEFINE c == Parsed(p, files)
<1>1. PICK h : ReadAs(p, c, h) /\ h[Len(c)] = StatsPerfCounters(p, files)
  BY StatsReadAs
<1>2. c \in Seq(FileLine(p))
  BY ParsedLed DEF LedLines
<1> HIDE DEF c
<1>3. Len(c) \in 0..Len(c)
  BY <1>2
<1> QED
  BY <1>1, <1>3 DEF ReadAs

----------------------------------------------------------------------------
(* Lists in the order of execution.                                        *)

\* Numbers below size that grow from one to the next, and at least as many
\* of them: all of them, in order.
LEMMA Filling ==
  ASSUME NEW n \in Nat, NEW size \in Nat, n >= size, NEW f,
         \A e \in 1..n : f[e] \in 0..(size - 1),
         \A e, d \in 1..n : e < d => f[e] < f[d]
  PROVE  n = size /\ \A e \in 1..n : f[e] = e - 1
<1> DEFINE Above == {k \in Nat : k < n => f[k + 1] >= k}
           Below == {k \in Nat : k < n => f[n - k] <= size - 1 - k}
<1>1. \A k \in 0..n : k \in Above
  <2>1. 0 \in Above
    OBVIOUS
  <2>2. \A k \in 0..(n - 1) : k \in Above => k + 1 \in Above
    <3> SUFFICES ASSUME NEW k \in Nat, k < n, f[k + 1] >= k, k + 1 < n
                 PROVE  f[k + 2] >= k + 1
      OBVIOUS
    <3>1. f[k + 1] < f[k + 2] /\ k + 1 \in 1..n /\ k + 2 \in 1..n
      OBVIOUS
    <3> QED
      BY <3>1
  <2> HIDE DEF Above
  <2> QED
    BY <2>1, <2>2, UpTo
<1>2. \A k \in 0..n : k \in Below
  <2>1. 0 \in Below
    OBVIOUS
  <2>2. \A k \in 0..(n - 1) : k \in Below => k + 1 \in Below
    <3> SUFFICES ASSUME NEW k \in Nat, k < n, f[n - k] <= size - 1 - k,
                        k + 1 < n
                 PROVE  f[n - (k + 1)] <= size - 1 - (k + 1)
      OBVIOUS
    <3>1. n - (k + 1) \in 1..n /\ n - k \in 1..n /\ n - (k + 1) < n - k
      OBVIOUS
    <3>2. f[n - (k + 1)] < f[n - k]
      BY <3>1
    <3> QED
      BY <3>1, <3>2
  <2> HIDE DEF Below
  <2> QED
    BY <2>1, <2>2, UpTo
<1>3. ASSUME NEW e \in 1..n
      PROVE  f[e] >= e - 1 /\ f[e] <= size - 1 - (n - e)
  <2>1. e - 1 \in 0..n /\ n - e \in 0..n /\ e - 1 < n /\ n - e < n
        /\ (e - 1) + 1 = e /\ n - (n - e) = e
    OBVIOUS
  <2>2. f[e] >= e - 1
    BY <1>1, <2>1
  <2>3. f[e] <= size - 1 - (n - e)
    BY <1>2, <2>1
  <2> QED
    BY <2>2, <2>3
<1>4. n = size
  <2>1. CASE n = 0
    BY <2>1
  <2>2. CASE n > 0
    <3>1. n \in 1..n
      BY <2>2
    <3>2. f[n] >= n - 1 /\ f[n] \in 0..(size - 1)
      BY <1>3, <3>1
    <3> QED
      BY <3>2
  <2> QED
    BY <2>1, <2>2
<1>5. \A e \in 1..n : f[e] = e - 1
  BY <1>3, <1>4
<1> QED
  BY <1>4, <1>5

\* Numbers that grow and leave none out are at least as many.
LEMMA Covering ==
  ASSUME NEW n \in Nat, NEW size \in Nat, NEW f,
         \A e \in 1..n : f[e] \in 0..(size - 1),
         \A e, d \in 1..n : e < d => f[e] < f[d],
         \A v \in 0..(size - 1) : \E e \in 1..n : f[e] = v
  PROVE  n >= size
<1> DEFINE T == {v \in Nat : v < size =>
                               \A e \in 1..n : f[e] = v => e >= v + 1}
<1>1. 0 \in T
  OBVIOUS
<1>2. \A v \in 0..(size - 1) : v \in T => v + 1 \in T
  <2> SUFFICES ASSUME NEW v \in Nat, v + 1 < size, v \in T,
                      NEW e \in 1..n, f[e] = v + 1
               PROVE  e >= v + 2
    OBVIOUS
  <2>1. PICK d \in 1..n : f[d] = v
    OBVIOUS
  <2>2. d >= v + 1
    BY <2>1
  <2>3. ~(e < d) /\ e # d
    BY <2>1
  <2> QED
    BY <2>2, <2>3
<1>3. \A v \in 0..size : v \in T
  <2> HIDE DEF T
  <2> QED
    BY <1>1, <1>2, UpTo
<1>4. CASE size = 0
  BY <1>4
<1>5. CASE size > 0
  <2>1. size - 1 \in 0..(size - 1) /\ size - 1 \in T
    BY <1>3, <1>5
  <2>2. PICK e \in 1..n : f[e] = size - 1
    BY <2>1
  <2>3. e >= (size - 1) + 1
    BY <2>1, <2>2
  <2> QED
    BY <2>3
<1> QED
  BY <1>4, <1>5

\* One execution of the program after another (RunBenchmarks.py:483-501).
Before(v, w) == v.rep < w.rep \/ (v.rep = w.rep /\ v.round < w.round)

\* Lines that go to the same list of STATS.
SameCell(l, m) == l.tid = m.tid /\ l.bid = m.bid /\ l.stat = m.stat

Ascending(lines) ==
  \A j, k \in DOMAIN lines :
    j < k /\ SameCell(lines[j], lines[k])
      => Before(lines[j].value, lines[k].value)

\* All lines of the first list are of earlier executions.
Precedes(x, y) ==
  \A j \in DOMAIN x : \A k \in DOMAIN y :
    SameCell(x[j], y[k]) => Before(x[j].value, y[k].value)

\* Two lists one after the other.
LEMMA AscendingJoined ==
  ASSUME NEW S, NEW x \in Seq(S), NEW y \in Seq(S),
         Ascending(x), Ascending(y), Precedes(x, y)
  PROVE  Ascending(x \o y) /\ ToSet(x \o y) = ToSet(x) \cup ToSet(y)
<1> DEFINE z == x \o y
<1>1. /\ z \in Seq(S) /\ Len(z) = Len(x) + Len(y)
      /\ \A k \in 1..Len(x) : z[k] = x[k]
      /\ \A k \in (Len(x) + 1)..Len(z) :
           z[k] = y[k - Len(x)] /\ k - Len(x) \in 1..Len(y)
      /\ Len(x) \in Nat /\ Len(y) \in Nat
      /\ DOMAIN x = 1..Len(x) /\ DOMAIN y = 1..Len(y)
      /\ DOMAIN z = 1..Len(z)
  OBVIOUS
<1> HIDE DEF z
<1>2. ASSUME NEW j \in DOMAIN z, NEW k \in DOMAIN z, j < k,
             SameCell(z[j], z[k])
      PROVE  Before(z[j].value, z[k].value)
  <2>1. CASE k \in 1..Len(x)
    <3>1. j \in 1..Len(x) /\ z[j] = x[j] /\ z[k] = x[k]
      BY <1>1, <1>2, <2>1
    <3> QED
      BY <1>1, <1>2, <2>1, <3>1 DEF Ascending
  <2>2. CASE k \in (Len(x) + 1)..Len(z)
    <3>1. z[k] = y[k - Len(x)] /\ k - Len(x) \in DOMAIN y
      BY <1>1, <2>2
    <3>2. CASE j \in 1..Len(x)
      <4>1. z[j] = x[j] /\ j \in DOMAIN x
        BY <1>1, <3>2
      <4> QED
        BY <1>2, <3>1, <4>1 DEF Precedes
    <3>3. CASE j \in (Len(x) + 1)..Len(z)
      <4>1. z[j] = y[j - Len(x)] /\ j - Len(x) \in DOMAIN y
            /\ j - Len(x) < k - Len(x)
        BY <1>1, <1>2, <2>2, <3>3
      <4> QED
        BY <1>2, <3>1, <4>1 DEF Ascending
    <3> QED
      BY <1>1, <3>2, <3>3
  <2> QED
    BY <1>1, <2>1, <2>2
<1>3. ToSet(z) = ToSet(x) \cup ToSet(y)
  <2>1. ASSUME NEW k \in DOMAIN z
        PROVE  z[k] \in ToSet(x) \cup ToSet(y)
    <3>1. CASE k \in 1..Len(x)
      BY <1>1, <3>1 DEF ToSet
    <3>2. CASE k \in (Len(x) + 1)..Len(z)
      <4>1. z[k] = y[k - Len(x)] /\ k - Len(x) \in DOMAIN y
        BY <1>1, <3>2
      <4> QED
        BY <4>1 DEF ToSet
    <3> QED
      BY <1>1, <3>1, <3>2
  <2>2. ASSUME NEW k \in DOMAIN x
        PROVE  x[k] \in ToSet(z)
    <3>1. k \in DOMAIN z /\ z[k] = x[k]
      BY <1>1
    <3> QED
      BY <3>1 DEF ToSet
  <2>3. ASSUME NEW k \in DOMAIN y
        PROVE  y[k] \in ToSet(z)
    <3>1. /\ k + Len(x) \in (Len(x) + 1)..Len(z)
          /\ (k + Len(x)) - Len(x) = k
      BY <1>1
    <3>2. k + Len(x) \in DOMAIN z /\ z[k + Len(x)] = y[k]
      BY <1>1, <3>1
    <3> QED
      BY <3>2 DEF ToSet
  <2> QED
    BY <2>1, <2>2, <2>3 DEF ToSet
<1> QED
  BY <1>2, <1>3 DEF Ascending, z

\* A list of what is in the first k lists.
Gathers(x, ls, k) ==
  \A l : l \in ToSet(x) <=> \E i \in 1..k : l \in ToSet(ls[i])

\* Any number of lists.
LEMMA AscendingLists ==
  ASSUME NEW S, NEW ls \in Seq(Seq(S)),
         \A i \in DOMAIN ls : Ascending(ls[i]),
         \A i, j \in DOMAIN ls : i < j => Precedes(ls[i], ls[j])
  PROVE  /\ FlattenSeq(ls) \in Seq(S)
         /\ Ascending(FlattenSeq(ls))
         /\ Gathers(FlattenSeq(ls), ls, Len(ls))
<1> DEFINE n == Len(ls)
           G == Seq(S)
<1>1. n \in Nat /\ DOMAIN ls = 1..n /\ \A i \in 1..n : ls[i] \in G
  OBVIOUS
<1>2. \A x, y \in G : x \o y \in G
  OBVIOUS
<1>3. CASE ls = <<>>
  <2> DEFINE E == {<<>>}
  <2>1. <<>> \o <<>> = <<>>
    OBVIOUS
  <2>2. <<>> \in E /\ \A x, y \in E : x \o y \in E
    BY <2>1
  <2>3. ls \in Seq(E)
    BY <1>3
  <2> HIDE DEF E
  <2>4. FlattenSeq(ls) \in E
    BY <2>2, <2>3, FlattenIn
  <2>5. FlattenSeq(ls) = <<>>
    BY <2>4 DEF E
  <2>6. Len(ls) = 0 /\ <<>> \in Seq(S) /\ DOMAIN <<>> = {} /\ 1..0 = {}
    BY <1>3
  <2>7. Gathers(<<>>, ls, 0)
    BY <2>6 DEF Gathers, ToSet
  <2>8. Ascending(<<>>)
    BY <2>6 DEF Ascending
  <2> QED
    BY <2>5, <2>6, <2>7, <2>8
<1>4. CASE ls # <<>>
  <2>1. ls \in Seq(G) /\ n >= 1
    BY <1>4
  <2> HIDE DEF G, n
  <2>2. PICK h \in [1..Len(ls) -> G] :
           /\ \A k \in 1..Len(ls) :
                h[k] = IF k = 1 THEN ls[k] ELSE h[k - 1] \o ls[k]
           /\ h[Len(ls)] = FlattenSeq(ls)
    BY <1>2, <1>4, <2>1, Flattens
  <2>3. /\ h[1] = ls[1] /\ h[n] = FlattenSeq(ls)
        /\ \A k \in 1..n : h[k] \in G
    <3>1. n = Len(ls)
      BY DEF n
    <3>2. 1 \in 1..Len(ls)
      BY <1>1, <2>1, <3>1
    <3>3. h[1] = ls[1]
      BY <2>2, <3>2
    <3> QED
      BY <2>2, <3>1, <3>3
  <2>4. ASSUME NEW k \in 1..(n - 1)
        PROVE  h[k + 1] = h[k] \o ls[k + 1]
    <3>1. k + 1 \in 1..n /\ k + 1 # 1 /\ (k + 1) - 1 = k
      BY <1>1
    <3> QED
      BY <2>2, <3>1 DEF n
  <2> DEFINE T == {k \in Nat : k \in 1..n =>
                                 Ascending(h[k]) /\ Gathers(h[k], ls, k)}
  <2>5. 0 \in T
    OBVIOUS
  <2>6. \A k \in 0..(n - 1) : k \in T => k + 1 \in T
    <3> SUFFICES ASSUME NEW k \in 0..(n - 1), k \in T
                 PROVE  Ascending(h[k + 1]) /\ Gathers(h[k + 1], ls, k + 1)
      <4>1. \A k \in 0..(n - 1) : k + 1 \in Nat
        BY <1>1
      <4> QED
        BY <4>1
    <3>1. k \in Nat /\ k + 1 \in 1..n /\ ls[k + 1] \in G
      BY <1>1
    <3>2. CASE k = 0
      <4>1. /\ Ascending(h[1])
            /\ \A i \in 1..1 : i = 1
            /\ 1 \in 1..1
        BY <1>1, <2>3, <3>1, <3>2
      <4>2. Gathers(h[1], ls, 1)
        BY <2>3, <4>1 DEF Gathers
      <4>3. k + 1 = 1
        BY <3>2
      <4> QED
        BY <4>1, <4>2, <4>3
    <3>3. CASE k > 0
      <4>1. k \in 1..n /\ h[k + 1] = h[k] \o ls[k + 1]
        <5>1. k \in 1..(n - 1) /\ k \in 1..n
          BY <1>1, <3>1, <3>3
        <5> QED
          BY <2>4, <5>1
      <4>2. Ascending(h[k]) /\ Gathers(h[k], ls, k) /\ h[k] \in G
        BY <2>3, <4>1
      <4>3. Precedes(h[k], ls[k + 1])
        <5> SUFFICES ASSUME NEW j \in DOMAIN h[k],
                            NEW b \in DOMAIN ls[k + 1],
                            SameCell(h[k][j], ls[k + 1][b])
                     PROVE  Before(h[k][j].value, ls[k + 1][b].value)
          BY DEF Precedes
        <5>1. h[k][j] \in ToSet(h[k])
          BY DEF ToSet
        <5>2. PICK i \in 1..k : h[k][j] \in ToSet(ls[i])
          BY <4>2, <5>1 DEF Gathers
        <5>3. PICK a \in DOMAIN ls[i] : h[k][j] = ls[i][a]
          BY <5>2 DEF ToSet
        <5>4. i \in DOMAIN ls /\ k + 1 \in DOMAIN ls /\ i < k + 1
          BY <1>1, <3>1
        <5>5. Precedes(ls[i], ls[k + 1])
          BY <5>4
        <5> QED
          BY <5>3, <5>5 DEF Precedes
      <4>4. Ascending(ls[k + 1])
        BY <1>1, <3>1
      <4>5. /\ Ascending(h[k] \o ls[k + 1])
            /\ ToSet(h[k] \o ls[k + 1]) = ToSet(h[k]) \cup ToSet(ls[k + 1])
        BY <3>1, <4>2, <4>3, <4>4, AscendingJoined DEF G
      <4>6. \A i : i \in 1..(k + 1) <=> i \in 1..k \/ i = k + 1
        BY <3>1
      <4>7. Gathers(h[k + 1], ls, k + 1)
        BY <4>1, <4>2, <4>5, <4>6 DEF Gathers
      <4> QED
        BY <4>1, <4>5, <4>7
    <3> QED
      BY <3>1, <3>2, <3>3
  <2>7. n \in T
    <3> HIDE DEF T
    <3>1. \A k \in 0..n : k \in T
      BY <1>1, <2>5, <2>6, UpTo
    <3> QED
      BY <1>1, <3>1
  <2>8. n \in 1..n
    BY <1>1, <2>1
  <2>9. Ascending(h[n]) /\ Gathers(h[n], ls, n) /\ h[n] \in G
    BY <2>3, <2>7, <2>8
  <2> QED
    BY <2>3, <2>9 DEF G, n
<1> QED
  BY <1>3, <1>4

----------------------------------------------------------------------------
(* The lines of the files.                                                 *)

\* The events of the rounds (RunBenchmarks.py:33-42).
RoundEvents(p) ==
  /\ p = "x86_64" =>
       /\ Len(PAPI_rounds[p]) = 3
       /\ ToSet(PAPI_rounds[p][1]) = {"TOT_INS", "TOT_CYC"}
       /\ ToSet(PAPI_rounds[p][2]) = {"TOT_INS", "L1_DCM", "L1_ICM"}
       /\ ToSet(PAPI_rounds[p][3]) = {"TOT_INS", "L2_DCM", "L2_DCA"}
  /\ p = "aarch64" =>
       /\ Len(PAPI_rounds[p]) = 2
       /\ ToSet(PAPI_rounds[p][1]) = {"TOT_INS", "TOT_CYC", "L1_DCA",
                                      "L1_DCM"}
       /\ ToSet(PAPI_rounds[p][2]) = {"TOT_INS", "L1_ICM", "L1_ICA",
                                      "L2_DCM"}

\* No event is measured twice in a round.
Distinct(s) == \A d, e \in DOMAIN s : s[d] = s[e] => d = e

\* The sets of events of both platforms.
LEMMA EventsOfRounds ==
  ASSUME NEW p \in Supported
  PROVE  /\ p \in {"x86_64", "aarch64"} /\ RoundEvents(p)
         /\ DOMAIN PAPI_rounds[p] = 1..Len(PAPI_rounds[p])
         /\ \A r \in 1..Len(PAPI_rounds[p]) : Distinct(PAPI_rounds[p][r])
<1> DEFINE R == PAPI_rounds[p]
<1>1. p \in {"x86_64", "aarch64"}
  BY DEF Supported, PAPI_rounds
<1>2. CASE p = "x86_64"
  <2>1. R = << <<"TOT_INS", "TOT_CYC">>,
               <<"TOT_INS", "L1_DCM", "L1_ICM">>,
               <<"TOT_INS", "L2_DCM", "L2_DCA">> >>
    BY <1>2 DEF PAPI_rounds
  <2> HIDE DEF R
  <2>2. /\ Len(R) = 3 /\ DOMAIN R = 1..3
        /\ R[1] = <<"TOT_INS", "TOT_CYC">>
        /\ R[2] = <<"TOT_INS", "L1_DCM", "L1_ICM">>
        /\ R[3] = <<"TOT_INS", "L2_DCM", "L2_DCA">>
    BY <2>1
  <2>3. ToSet(R[1]) = {"TOT_INS", "TOT_CYC"} /\ Distinct(R[1])
    <3>1. DOMAIN R[1] = {1, 2} /\ R[1][1] = "TOT_INS" /\ R[1][2] = "TOT_CYC"
      BY <2>2
    <3> QED
      BY <3>1 DEF ToSet, Distinct
  <2>4. ToSet(R[2]) = {"TOT_INS", "L1_DCM", "L1_ICM"} /\ Distinct(R[2])
    <3>1. /\ DOMAIN R[2] = {1, 2, 3}
          /\ R[2][1] = "TOT_INS" /\ R[2][2] = "L1_DCM" /\ R[2][3] = "L1_ICM"
      BY <2>2
    <3> QED
      BY <3>1 DEF ToSet, Distinct
  <2>5. ToSet(R[3]) = {"TOT_INS", "L2_DCM", "L2_DCA"} /\ Distinct(R[3])
    <3>1. /\ DOMAIN R[3] = {1, 2, 3}
          /\ R[3][1] = "TOT_INS" /\ R[3][2] = "L2_DCM" /\ R[3][3] = "L2_DCA"
      BY <2>2
    <3> QED
      BY <3>1 DEF ToSet, Distinct
  <2>6. \A r \in 1..3 : r = 1 \/ r = 2 \/ r = 3
    OBVIOUS
  <2>7. \A r \in 1..3 : Distinct(R[r])
    BY <2>3, <2>4, <2>5, <2>6
  <2> QED
    BY <1>2, <2>2, <2>3, <2>4, <2>5, <2>7 DEF RoundEvents, R
<1>3. CASE p = "aarch64"
  <2>1. R = << <<"TOT_INS", "TOT_CYC", "L1_DCA", "L1_DCM">>,
               <<"TOT_INS", "L1_ICM", "L1_ICA", "L2_DCM">> >>
    BY <1>3 DEF PAPI_rounds
  <2> HIDE DEF R
  <2>2. /\ Len(R) = 2 /\ DOMAIN R = 1..2
        /\ R[1] = <<"TOT_INS", "TOT_CYC", "L1_DCA", "L1_DCM">>
        /\ R[2] = <<"TOT_INS", "L1_ICM", "L1_ICA", "L2_DCM">>
    BY <2>1
  <2>3. /\ ToSet(R[1]) = {"TOT_INS", "TOT_CYC", "L1_DCA", "L1_DCM"}
        /\ Distinct(R[1])
    <3>1. /\ DOMAIN R[1] = {1, 2, 3, 4}
          /\ R[1][1] = "TOT_INS" /\ R[1][2] = "TOT_CYC"
          /\ R[1][3] = "L1_DCA" /\ R[1][4] = "L1_DCM"
      BY <2>2
    <3> QED
      BY <3>1 DEF ToSet, Distinct
  <2>4. /\ ToSet(R[2]) = {"TOT_INS", "L1_ICM", "L1_ICA", "L2_DCM"}
        /\ Distinct(R[2])
    <3>1. /\ DOMAIN R[2] = {1, 2, 3, 4}
          /\ R[2][1] = "TOT_INS" /\ R[2][2] = "L1_ICM"
          /\ R[2][3] = "L1_ICA" /\ R[2][4] = "L2_DCM"
      BY <2>2
    <3> QED
      BY <3>1 DEF ToSet, Distinct
  <2>5. \A r \in 1..2 : r = 1 \/ r = 2
    OBVIOUS
  <2>6. \A r \in 1..2 : Distinct(R[r])
    BY <2>3, <2>4, <2>5
  <2> QED
    BY <1>3, <2>2, <2>3, <2>4, <2>6 DEF RoundEvents, R
<1> QED
  BY <1>1, <1>2, <1>3

ValueOf(rec) == [run |-> rec.run, rep |-> rec.rep, round |-> rec.round,
                 work |-> rec.work]
LineOf(rec, tid, stat) ==
  [stat |-> stat, tid |-> tid, bid |-> rec.bid, value |-> ValueOf(rec)]

\* The lines a record stands for.
RecLines(p, rec, tid) ==
  {LineOf(rec, tid, s) : s \in ToSet(PAPI_rounds[p][rec.round])}

\* What such a line says.
LEMMA RecLine ==
  ASSUME NEW p, NEW rec, NEW tid, NEW l \in RecLines(p, rec, tid)
  PROVE  /\ l.tid = tid /\ l.bid = rec.bid /\ l.value = ValueOf(rec)
         /\ l.stat \in ToSet(PAPI_rounds[p][rec.round])
BY DEF RecLines, LineOf

\* What is in the file of repetition i for a thread, is of that repetition;
\* and a region of an earlier round comes first.
OrderedFile(file, tid, i) ==
  \A n \in DOMAIN file[tid] :
    /\ file[tid][n].rep = i
    /\ \A k \in DOMAIN file[tid] :
         k < n /\ file[tid][k].bid = file[tid][n].bid
           => file[tid][k].round < file[tid][n].round

\* The lines of a thread in one file.
LEMMA FileLines ==
  ASSUME NEW p \in Supported, NEW tid \in Tids, NEW i \in Nat, NEW file,
         file[tid] \in Seq(PapiRecord(p)), OrderedFile(file, tid, i)
  PROVE  /\ LinesOf(p, file, tid) \in Seq(FileLine(p))
         /\ Ascending(LinesOf(p, file, tid))
         /\ \A l : l \in ToSet(LinesOf(p, file, tid))
                     <=> \E n \in DOMAIN file[tid] :
                           l \in RecLines(p, file[tid][n], tid)
<1> DEFINE group(rec) == [e \in DOMAIN PAPI_rounds[p][rec.round] |->
                            LineOf(rec, tid, PAPI_rounds[p][rec.round][e])]
           groups == [n \in DOMAIN file[tid] |-> group(file[tid][n])]
           S == FileLine(p)
<1>1. LinesOf(p, file, tid) = FlattenSeq(groups)
  BY DEF LinesOf, LineOf, ValueOf
<1>2. ASSUME NEW rec \in PapiRecord(p)
      PROVE  /\ group(rec) \in Seq(S)
             /\ Ascending(group(rec))
             /\ ToSet(group(rec)) = RecLines(p, rec, tid)
  <2> DEFINE R == PAPI_rounds[p][rec.round]
  <2>1. rec.round \in 1..Len(PAPI_rounds[p])
    BY DEF PapiRecord
  <2>2. R \in Seq(Stats(p)) /\ Distinct(R)
    BY <2>1, RoundsBegin, EventsOfRounds
  <2>3. group(rec) = [e \in DOMAIN R |-> LineOf(rec, tid, R[e])]
    OBVIOUS
  <2> HIDE DEF R, group
  <2>4. DOMAIN R = 1..Len(R) /\ Len(R) \in Nat
    BY <2>2
  <2>5. ASSUME NEW s \in Stats(p)
        PROVE  LineOf(rec, tid, s) \in S
    <3>1. ValueOf(rec) \in Value /\ rec.bid \in Nat
      BY <2>1 DEF ValueOf, Value, PapiRecord
    <3> QED
      BY <3>1 DEF LineOf, FileLine
  <2>6. \A e \in 1..Len(R) : LineOf(rec, tid, R[e]) \in S
    BY <2>2, <2>5
  <2>7. group(rec) \in Seq(S)
    BY <2>3, <2>4, <2>6
  <2>8. ASSUME NEW d \in DOMAIN R, NEW e \in DOMAIN R,
               SameCell(group(rec)[d], group(rec)[e])
        PROVE  d = e
    <3>1. R[d] = R[e]
      BY <2>3, <2>8 DEF SameCell, LineOf
    <3> QED
      BY <2>2, <3>1 DEF Distinct
  <2>9. DOMAIN group(rec) = DOMAIN R
    BY <2>3
  <2>10. Ascending(group(rec))
    BY <2>4, <2>8, <2>9 DEF Ascending
  <2>11. ToSet(group(rec)) = RecLines(p, rec, tid)
    BY <2>3 DEF ToSet, RecLines, R
  <2> QED
    BY <2>7, <2>10, <2>11
<1> HIDE DEF group, S
<1>3. /\ DOMAIN file[tid] = 1..Len(file[tid]) /\ Len(file[tid]) \in Nat
      /\ \A n \in DOMAIN file[tid] : file[tid][n] \in PapiRecord(p)
  OBVIOUS
<1>4. /\ groups \in Seq(Seq(S)) /\ Len(groups) = Len(file[tid])
      /\ DOMAIN groups = 1..Len(file[tid])
  BY <1>2, <1>3
<1>5. \A n \in DOMAIN groups : /\ Ascending(groups[n])
                               /\ ToSet(groups[n])
                                    = RecLines(p, file[tid][n], tid)
  BY <1>2, <1>3
<1>6. ASSUME NEW k \in DOMAIN groups, NEW n \in DOMAIN groups, k < n
      PROVE  Precedes(groups[k], groups[n])
  <2> SUFFICES ASSUME NEW a \in DOMAIN groups[k], NEW b \in DOMAIN groups[n],
                      SameCell(groups[k][a], groups[n][b])
               PROVE  Before(groups[k][a].value, groups[n][b].value)
    BY DEF Precedes
  <2>1. /\ groups[k][a] \in RecLines(p, file[tid][k], tid)
        /\ groups[n][b] \in RecLines(p, file[tid][n], tid)
    BY <1>5 DEF ToSet
  <2>2. /\ groups[k][a].bid = file[tid][k].bid
        /\ groups[k][a].value = ValueOf(file[tid][k])
        /\ groups[n][b].bid = file[tid][n].bid
        /\ groups[n][b].value = ValueOf(file[tid][n])
    BY <2>1, RecLine
  <2>3. /\ file[tid][k].rep = i /\ file[tid][n].rep = i
        /\ file[tid][k].round < file[tid][n].round
    BY <1>3, <1>4, <1>6, <2>2 DEF OrderedFile, SameCell
  <2> QED
    BY <2>2, <2>3 DEF Before, ValueOf
<1> HIDE DEF groups
<1>7. /\ FlattenSeq(groups) \in Seq(S) /\ Ascending(FlattenSeq(groups))
      /\ Gathers(FlattenSeq(groups), groups, Len(groups))
  BY <1>4, <1>5, <1>6, AscendingLists
<1> QED
  BY <1>1, <1>3, <1>4, <1>5, <1>7 DEF Gathers, S

\* The files as RunBenchmarks.py makes them (RunBenchmarks.py:480-501).
OrderedFiles(p, files) ==
  /\ files \in PapiFiles(p)
  /\ \A i \in 0..(Iterations - 1) : \A t \in Tids : OrderedFile(files[i], t, i)

\* A line of one of the threads of one repetition.
FileHas(p, file, l) ==
  \E t \in Tids : \E n \in DOMAIN file[t] : l \in RecLines(p, file[t][n], t)

FilesHave(p, files, l) ==
  \E i \in 0..(Iterations - 1) : FileHas(p, files[i], l)

\* The lines of one file.
LEMMA OneFileLines ==
  ASSUME NEW p \in Supported, NEW i \in Nat,
         NEW file \in [Tids -> Seq(PapiRecord(p))],
         \A t \in Tids : OrderedFile(file, t, i),
         NEW ls, ls = [k \in 1..NThreads |-> LinesOf(p, file, k - 1)]
  PROVE  /\ FlattenSeq(ls) \in Seq(FileLine(p))
         /\ Ascending(FlattenSeq(ls))
         /\ \A l : l \in ToSet(FlattenSeq(ls)) <=> FileHas(p, file, l)
<1> DEFINE S == FileLine(p)
<1>1. \A k \in 1..NThreads : k - 1 \in Tids /\ k - 1 \in Int
  BY StatisticsAssumption DEF Tids
<1>2. ASSUME NEW k \in 1..NThreads
      PROVE  /\ LinesOf(p, file, k - 1) \in Seq(FileLine(p))
             /\ Ascending(LinesOf(p, file, k - 1))
             /\ \A l : l \in ToSet(LinesOf(p, file, k - 1))
                         <=> \E n \in DOMAIN file[k - 1] :
                               l \in RecLines(p, file[k - 1][n], k - 1)
  <2>1. k - 1 \in Tids
    BY <1>1
  <2> QED
    BY <2>1, FileLines
<1>3. NThreads \in Nat
  BY StatisticsAssumption
<1> HIDE DEF S
<1>4. ls \in Seq(Seq(S)) /\ Len(ls) = NThreads /\ DOMAIN ls = 1..NThreads
  BY <1>2, <1>3 DEF S
<1>5. \A k \in DOMAIN ls : Ascending(ls[k])
  BY <1>2, <1>4
<1>6. ASSUME NEW j \in DOMAIN ls, NEW k \in DOMAIN ls, j < k
      PROVE  Precedes(ls[j], ls[k])
  <2> SUFFICES ASSUME NEW a \in DOMAIN ls[j], NEW b \in DOMAIN ls[k],
                      SameCell(ls[j][a], ls[k][b])
               PROVE  FALSE
    BY DEF Precedes
  <2>1. ls[j][a] \in ToSet(ls[j]) /\ ls[k][b] \in ToSet(ls[k])
    BY DEF ToSet
  <2>2. PICK n \in DOMAIN file[j - 1] :
          ls[j][a] \in RecLines(p, file[j - 1][n], j - 1)
    BY <1>2, <1>4, <2>1
  <2>3. PICK n2 \in DOMAIN file[k - 1] :
          ls[k][b] \in RecLines(p, file[k - 1][n2], k - 1)
    BY <1>2, <1>4, <2>1
  <2>4. ls[j][a].tid = j - 1 /\ ls[k][b].tid = k - 1
    BY <2>2, <2>3, RecLine
  <2>5. j - 1 # k - 1
    BY <1>4, <1>6
  <2> QED
    BY <2>4, <2>5 DEF SameCell
<1>7. /\ FlattenSeq(ls) \in Seq(S) /\ Ascending(FlattenSeq(ls))
      /\ Gathers(FlattenSeq(ls), ls, NThreads)
  BY <1>4, <1>5, <1>6, AscendingLists
<1>8. ASSUME NEW l
      PROVE  (\E k \in 1..NThreads : l \in ToSet(ls[k]))
                <=> FileHas(p, file, l)
  <2>1. ASSUME NEW k \in 1..NThreads, l \in ToSet(ls[k])
        PROVE  FileHas(p, file, l)
    <3>1. \E n \in DOMAIN file[k - 1] :
            l \in RecLines(p, file[k - 1][n], k - 1)
      BY <1>2, <2>1
    <3> QED
      BY <1>1, <3>1 DEF FileHas
  <2>2. ASSUME NEW t \in Tids, NEW n \in DOMAIN file[t],
               l \in RecLines(p, file[t][n], t)
        PROVE  \E k \in 1..NThreads : l \in ToSet(ls[k])
    <3>1. t + 1 \in 1..NThreads /\ (t + 1) - 1 = t
      BY <1>3 DEF Tids
    <3>2. l \in ToSet(ls[t + 1])
      BY <1>2, <2>2, <3>1
    <3> QED
      BY <3>1, <3>2
  <2> QED
    BY <2>1, <2>2 DEF FileHas
<1> QED
  BY <1>7, <1>8 DEF Gathers, S

\* All lines that are parsed for one table: those of a list of STATS are in
\* the order of execution.
LEMMA ParsedLines ==
  ASSUME NEW p \in Supported, NEW files, OrderedFiles(p, files)
  PROVE  /\ Parsed(p, files) \in Seq(FileLine(p))
         /\ Ascending(Parsed(p, files))
         /\ \A l : l \in ToSet(Parsed(p, files)) <=> FilesHave(p, files, l)
<1> DEFINE ofFile(file) ==
             FlattenSeq([k \in 1..NThreads |-> LinesOf(p, file, k - 1)])
           ls == [k \in 1..Iterations |-> ofFile(files[k - 1])]
           S == FileLine(p)
<1>1. Parsed(p, files) = FlattenSeq(ls)
  BY DEF Parsed
<1>2. ASSUME NEW i \in 0..(Iterations - 1)
      PROVE  /\ ofFile(files[i]) \in Seq(S)
             /\ Ascending(ofFile(files[i]))
             /\ \A l : l \in ToSet(ofFile(files[i]))
                         <=> FileHas(p, files[i], l)
  <2> DEFINE file == files[i]
             lists == [k \in 1..NThreads |-> LinesOf(p, file, k - 1)]
  <2>1. i \in Nat /\ file \in [Tids -> Seq(PapiRecord(p))]
        /\ \A t \in Tids : OrderedFile(file, t, i)
    BY StatisticsAssumption DEF OrderedFiles, PapiFiles
  <2> HIDE DEF file
  <2>2. /\ FlattenSeq(lists) \in Seq(FileLine(p))
        /\ Ascending(FlattenSeq(lists))
        /\ \A l : l \in ToSet(FlattenSeq(lists)) <=> FileHas(p, file, l)
    BY <2>1, OneFileLines
  <2> QED
    BY <2>2 DEF file
<1> HIDE DEF ofFile, S
<1>3. Iterations \in Nat /\ \A k \in 1..Iterations :
        k - 1 \in 0..(Iterations - 1)
  BY StatisticsAssumption
<1>4. /\ ls \in Seq(Seq(S)) /\ Len(ls) = Iterations
      /\ DOMAIN ls = 1..Iterations
      /\ \A k \in DOMAIN ls : Ascending(ls[k])
      /\ \A k \in 1..Iterations : \A l :
           l \in ToSet(ls[k]) <=> FileHas(p, files[k - 1], l)
  <2>1. ASSUME NEW k \in 1..Iterations
        PROVE  /\ ls[k] \in Seq(S) /\ Ascending(ls[k])
               /\ \A l : l \in ToSet(ls[k]) <=> FileHas(p, files[k - 1], l)
    <3>1. k - 1 \in 0..(Iterations - 1) /\ ls[k] = ofFile(files[k - 1])
      BY <1>3
    <3> HIDE DEF ls
    <3> QED
      BY <1>2, <3>1
  <2>2. DOMAIN ls = 1..Iterations
    OBVIOUS
  <2>3. ls = [k \in 1..Iterations |-> ls[k]]
    OBVIOUS
  <2> HIDE DEF ls
  <2>4. ls \in Seq(Seq(S)) /\ Len(ls) = Iterations
    BY <1>3, <2>1, <2>3
  <2> QED
    BY <2>1, <2>2, <2>4
<1> HIDE DEF ls
<1>5. ASSUME NEW k \in 1..Iterations, NEW l \in ToSet(ls[k])
      PROVE  l.value.rep = k - 1
  <2>1. PICK t \in Tids : \E n \in DOMAIN files[k - 1][t] :
          l \in RecLines(p, files[k - 1][t][n], t)
    BY <1>4 DEF FileHas
  <2>2. PICK n \in DOMAIN files[k - 1][t] :
          l \in RecLines(p, files[k - 1][t][n], t)
    BY <2>1
  <2>3. l.value = ValueOf(files[k - 1][t][n])
    BY <2>2, RecLine
  <2>4. files[k - 1][t][n].rep = k - 1
    BY <1>3, <2>2 DEF OrderedFiles, OrderedFile
  <2> QED
    BY <2>3, <2>4 DEF ValueOf
<1>6. ASSUME NEW j \in DOMAIN ls, NEW k \in DOMAIN ls, j < k
      PROVE  Precedes(ls[j], ls[k])
  <2> SUFFICES ASSUME NEW a \in DOMAIN ls[j], NEW b \in DOMAIN ls[k]
               PROVE  Before(ls[j][a].value, ls[k][b].value)
    BY DEF Precedes
  <2>1. ls[j][a] \in ToSet(ls[j]) /\ ls[k][b] \in ToSet(ls[k])
    BY DEF ToSet
  <2>2. ls[j][a].value.rep = j - 1 /\ ls[k][b].value.rep = k - 1
    BY <1>4, <1>5, <2>1
  <2>3. j - 1 < k - 1
    BY <1>3, <1>4, <1>6
  <2> QED
    BY <2>2, <2>3 DEF Before
<1>7. /\ FlattenSeq(ls) \in Seq(S) /\ Ascending(FlattenSeq(ls))
      /\ Gathers(FlattenSeq(ls), ls, Iterations)
  BY <1>4, <1>6, AscendingLists
<1>8. ASSUME NEW l
      PROVE  (\E k \in 1..Iterations : l \in ToSet(ls[k]))
                <=> FilesHave(p, files, l)
  <2>1. ASSUME NEW i \in 0..(Iterations - 1), FileHas(p, files[i], l)
        PROVE  \E k \in 1..Iterations : l \in ToSet(ls[k])
    <3>1. i + 1 \in 1..Iterations /\ (i + 1) - 1 = i
      BY <1>3
    <3> QED
      BY <1>4, <2>1, <3>1
  <2> QED
    BY <1>3, <1>4, <2>1 DEF FilesHave
<1> QED
  BY <1>1, <1>7, <1>8 DEF Gathers, S

----------------------------------------------------------------------------
(* What is in STATS.                                                       *)

\* The list of a barrier, or none for a barrier that is not there yet.
ListOf(S, b, t, s) == IF b <= Len(S) THEN S[b][t][s] ELSE <<>>

\* S2 is S with the line added, and its barrier if need be.
Adds(p, S, S2, line) ==
  /\ line.bid + 1 <= Len(S2)
  /\ Len(S2) = Len(S) \/ (Len(S2) = Len(S) + 1 /\ line.bid + 1 = Len(S2))
  /\ \A b \in 1..Len(S2) : \A t \in Tids : \A s \in Stats(p) :
       IF b = line.bid + 1 /\ t = line.tid /\ s = line.stat
       THEN \E x : S2[b][t][s] = Append(ListOf(S, b, t, s), <<x, line.value>>)
       ELSE S2[b][t][s] = ListOf(S, b, t, s)

\* A new barrier comes last (RunBenchmarks.py:71-84).
LEMMA GrownLists ==
  ASSUME NEW p, NEW st, Reads(p, st), NEW bid \in Nat,
         NEW G, G = Grown(p, st, bid).STATS
  PROVE  /\ Len(G) = Len(st.STATS)
              \/ (Len(G) = Len(st.STATS) + 1 /\ bid + 1 > Len(st.STATS))
         /\ \A b \in 1..Len(G) : \A t \in Tids : \A s \in Stats(p) :
              G[b][t][s] = ListOf(st.STATS, b, t, s)
<1> DEFINE S == st.STATS
           none == [t \in Tids |-> [s \in Stats(p) |-> <<>>]]
<1>1. /\ S \in Seq([Tids -> [Stats(p) -> Seq(Same)]])
      /\ Len(S) \in Nat
      /\ st = [STATS |-> st.STATS, t_inst |-> st.t_inst,
               raised |-> st.raised]
  BY DEF Reads, ReadStates
<1>2. CASE Len(S) >= bid + 1
  BY <1>1, <1>2 DEF Grown, ListOf
<1>3. CASE ~(Len(S) >= bid + 1)
  <2>1. G = Append(S, none)
    BY <1>1, <1>3 DEF Grown
  <2>2. \A t \in Tids : \A s \in Stats(p) : none[t][s] = <<>>
    OBVIOUS
  <2>3. none \in [Tids -> [Stats(p) -> Seq(Same)]]
    OBVIOUS
  <2> HIDE DEF S, none
  <2>4. /\ Len(G) = Len(S) + 1
        /\ \A b \in 1..Len(S) : G[b] = S[b]
        /\ G[Len(S) + 1] = none
    BY <1>1, <2>1, <2>3
  <2>5. ASSUME NEW b \in 1..Len(G), NEW t \in Tids, NEW s \in Stats(p)
        PROVE  G[b][t][s] = ListOf(S, b, t, s)
    <3>1. CASE b \in 1..Len(S)
      BY <1>1, <2>4, <3>1 DEF ListOf
    <3>2. CASE b = Len(S) + 1
      BY <1>1, <2>2, <2>4, <3>2 DEF ListOf
    <3> QED
      BY <1>1, <2>4, <3>1, <3>2
  <2> QED
    BY <1>1, <1>3, <2>4, <2>5 DEF S
<1> QED
  BY <1>2, <1>3

\* A line is added to its list and to no other, or ends the program
\* (RunBenchmarks.py:92-106).
LEMMA ParseLineAdds ==
  ASSUME NEW p, NEW st, Reads(p, st), NEW line \in FileLine(p),
         ~ParseLine(p, st, line).raised
  PROVE  /\ ~st.raised
         /\ Adds(p, st.STATS, ParseLine(p, st, line).STATS, line)
<1> DEFINE grown == Grown(p, st, line.bid)
           b == line.bid + 1
           inst == IF line.stat = "TOT_INS"
                   THEN [grown.t_inst EXCEPT ![b][line.tid] = line.value]
                   ELSE grown.t_inst
           after == ParseLine(p, st, line)
           bid == line.bid
           tuple == Tuple(grown.t_inst, inst, b, line)
           G == grown.STATS
           newRow == [G[b][line.tid] EXCEPT
                        ![line.stat] = Append(@, tuple)]
           newB == [G[b] EXCEPT ![line.tid] = newRow]
           S2 == [G EXCEPT ![b] = newB]
<1>1. /\ bid \in Nat /\ b \in Nat /\ b >= 1 /\ line.tid \in Tids
      /\ line.stat \in Stats(p)
  BY DEF FileLine
<1>2. Reads(p, grown) /\ grown.raised = st.raised
  <2>1. bid \in Nat
    BY <1>1
  <2> HIDE DEF bid
  <2>2. Reads(p, Grown(p, st, bid)) /\ Grown(p, st, bid).raised = st.raised
    BY <2>1, GrownReads
  <2> QED
    BY <2>2 DEF bid
<1>3. ~(st.raised \/ b > Len(G))
  <2> SUFFICES ASSUME st.raised \/ b > Len(G)
               PROVE  FALSE
    OBVIOUS
  <2>1. after = [st EXCEPT !.raised = TRUE]
    BY DEF ParseLine
  <2>2. after.raised
    <3> HIDE DEF after
    <3> QED
      BY <2>1 DEF Reads, ReadStates
  <2> QED
    BY <2>2
<1>4. after = [grown EXCEPT !.STATS = S2, !.t_inst = inst]
  BY <1>3 DEF ParseLine
<1>5. /\ Len(G) = Len(st.STATS)
           \/ (Len(G) = Len(st.STATS) + 1 /\ bid + 1 > Len(st.STATS))
      /\ \A i \in 1..Len(G) : \A t \in Tids : \A s \in Stats(p) :
           G[i][t][s] = ListOf(st.STATS, i, t, s)
  <2>1. bid \in Nat /\ G = Grown(p, st, bid).STATS
    BY <1>1
  <2> HIDE DEF G, bid
  <2> QED
    BY <2>1, GrownLists
<1>6. tuple = <<inst[b][line.tid], line.value>>
  BY DEF Tuple
<1> HIDE DEF after, grown, inst, tuple
<1>7. /\ G \in Seq([Tids -> [Stats(p) -> Seq(Same)]])
      /\ Len(G) \in Nat
      /\ grown = [STATS |-> G, t_inst |-> grown.t_inst,
                  raised |-> grown.raised]
  BY <1>2 DEF Reads, ReadStates
<1>8. Len(st.STATS) \in Nat
  BY DEF Reads, ReadStates
<1>9. after.STATS = S2
  <2> HIDE DEF S2, G
  <2> QED
    BY <1>4, <1>7
<1>10. b \in 1..Len(G)
  BY <1>1, <1>3, <1>7
<1> HIDE DEF G
<1>11. G[b] \in [Tids -> [Stats(p) -> Seq(Same)]]
  BY <1>7, <1>10
<1>12. /\ newRow[line.stat] = Append(G[b][line.tid][line.stat], tuple)
       /\ \A s \in Stats(p) : s # line.stat =>
            newRow[s] = G[b][line.tid][s]
  BY <1>1, <1>11
<1>13. /\ newB[line.tid] = newRow
       /\ \A t \in Tids : t # line.tid => newB[t] = G[b][t]
  <2> HIDE DEF newRow
  <2> QED
    BY <1>1, <1>11
<1>14. /\ Len(S2) = Len(G) /\ S2[b] = newB
       /\ \A i \in 1..Len(G) : i # b => S2[i] = G[i]
  <2> HIDE DEF newB
  <2> QED
    BY <1>7, <1>10
<1> HIDE DEF S2, newB, newRow
<1>15. ASSUME NEW i \in 1..Len(S2), NEW t \in Tids, NEW s \in Stats(p)
       PROVE  IF i = b /\ t = line.tid /\ s = line.stat
              THEN \E x : S2[i][t][s]
                            = Append(ListOf(st.STATS, i, t, s),
                                     <<x, line.value>>)
              ELSE S2[i][t][s] = ListOf(st.STATS, i, t, s)
  <2>1. G[i][t][s] = ListOf(st.STATS, i, t, s) /\ i \in 1..Len(G)
    BY <1>5, <1>14
  <2>2. CASE i = b /\ t = line.tid /\ s = line.stat
    <3>1. S2[i][t][s] = Append(G[i][t][s], tuple)
      BY <1>12, <1>13, <1>14, <2>2
    <3> QED
      BY <1>6, <2>1, <2>2, <3>1
  <2>3. CASE ~(i = b /\ t = line.tid /\ s = line.stat)
    <3>1. S2[i][t][s] = G[i][t][s]
      BY <1>12, <1>13, <1>14, <2>1, <2>3
    <3> QED
      BY <2>1, <2>3, <3>1
  <2> QED
    BY <2>2, <2>3
<1>16. /\ b <= Len(S2)
       /\ Len(S2) = Len(st.STATS)
            \/ (Len(S2) = Len(st.STATS) + 1 /\ b = Len(S2))
  BY <1>1, <1>5, <1>8, <1>10, <1>14
<1>17. Adds(p, st.STATS, S2, line)
  BY <1>15, <1>16 DEF Adds
<1> QED
  BY <1>3, <1>9, <1>17 DEF after

\* The list a line goes to has its value.
HasValue(S, line) ==
  LET list == S[line.bid + 1][line.tid][line.stat]
  IN  \E e \in 1..Len(list) : list[e][2] = line.value

\* Each value of a list is that of a line read, and they are in the order of
\* execution.
Sorted(c, j, list, b, t, s) ==
  /\ \A e \in 1..Len(list) : \E k \in 1..j :
       /\ c[k].bid = b - 1 /\ c[k].tid = t /\ c[k].stat = s
       /\ c[k].value = list[e][2]
  /\ \A d, e \in 1..Len(list) : d < e => Before(list[d][2], list[e][2])

\* STATS has the first j lines of c, and nothing else.
Taken(p, c, j, S) ==
  /\ \A k \in 1..j : c[k].bid + 1 <= Len(S) /\ HasValue(S, c[k])
  /\ \A b \in 1..Len(S) : \E k \in 1..j : c[k].bid = b - 1
  /\ \A b \in 1..Len(S) : \A t \in Tids : \A s \in Stats(p) :
       Sorted(c, j, S[b][t][s], b, t, s)

\* Another line of the same list is of a later execution.
LEMMA SortedMore ==
  ASSUME NEW c, NEW j \in Nat, j + 1 \in DOMAIN c, 1..j \subseteq DOMAIN c,
         Ascending(c),
         NEW b, NEW t, NEW s, NEW list, list \in Seq(Same),
         Sorted(c, j, list, b, t, s),
         c[j + 1].bid = b - 1, c[j + 1].tid = t, c[j + 1].stat = s,
         NEW x, NEW list2, list2 = Append(list, <<x, c[j + 1].value>>)
  PROVE  Sorted(c, j + 1, list2, b, t, s)
<1> DEFINE n == Len(list)
<1>1. /\ n \in Nat /\ Len(list2) = n + 1
      /\ \A e \in 1..n : list2[e] = list[e]
      /\ list2[n + 1][2] = c[j + 1].value
  OBVIOUS
<1> HIDE DEF n
<1>2. \A e : e \in 1..(n + 1) <=> e \in 1..n \/ e = n + 1
  BY <1>1
<1>3. ASSUME NEW e \in 1..(n + 1)
      PROVE  \E k \in 1..(j + 1) :
               /\ c[k].bid = b - 1 /\ c[k].tid = t /\ c[k].stat = s
               /\ c[k].value = list2[e][2]
  <2>1. CASE e \in 1..n
    <3>1. PICK k \in 1..j : /\ c[k].bid = b - 1 /\ c[k].tid = t
                            /\ c[k].stat = s /\ c[k].value = list[e][2]
      BY <2>1 DEF Sorted, n
    <3>2. k \in 1..(j + 1) /\ list2[e] = list[e]
      BY <1>1, <2>1
    <3> QED
      BY <3>1, <3>2
  <2>2. CASE e = n + 1
    <3>1. j + 1 \in 1..(j + 1)
      OBVIOUS
    <3> QED
      BY <1>1, <2>2, <3>1
  <2> QED
    BY <1>2, <2>1, <2>2
<1>4. ASSUME NEW d \in 1..(n + 1), NEW e \in 1..(n + 1), d < e
      PROVE  Before(list2[d][2], list2[e][2])
  <2>1. d \in 1..n /\ list2[d] = list[d]
    BY <1>1, <1>4
  <2>2. CASE e \in 1..n
    BY <1>1, <1>4, <2>1, <2>2 DEF Sorted, n
  <2>3. CASE e = n + 1
    <3>1. PICK k \in 1..j : /\ c[k].bid = b - 1 /\ c[k].tid = t
                            /\ c[k].stat = s /\ c[k].value = list[d][2]
      BY <2>1 DEF Sorted, n
    <3>2. k < j + 1 /\ SameCell(c[k], c[j + 1]) /\ k \in DOMAIN c
      BY <3>1 DEF SameCell
    <3>3. Before(c[k].value, c[j + 1].value)
      BY <3>2 DEF Ascending
    <3> QED
      BY <1>1, <2>1, <2>3, <3>1, <3>3
  <2> QED
    BY <1>2, <2>2, <2>3
<1> QED
  BY <1>1, <1>3, <1>4 DEF Sorted

\* The next line is read.
LEMMA TakenMore ==
  ASSUME NEW p, NEW c \in Seq(FileLine(p)), Ascending(c),
         NEW j \in 0..(Len(c) - 1),
         NEW st, Reads(p, st), Taken(p, c, j, st.STATS),
         NEW S2, S2 \in Seq([Tids -> [Stats(p) -> Seq(Same)]]),
         Adds(p, st.STATS, S2, c[j + 1])
  PROVE  Taken(p, c, j + 1, S2)
<1> DEFINE S == st.STATS
           line == c[j + 1]
           Cells == [Tids -> [Stats(p) -> Seq(Same)]]
<1>1. /\ S \in Seq(Cells) /\ S2 \in Seq(Cells)
      /\ Len(S) \in Nat /\ Len(S2) \in Nat
  BY DEF Reads, ReadStates
<1>2. /\ Len(c) \in Nat /\ DOMAIN c = 1..Len(c) /\ j \in Nat
      /\ j + 1 \in DOMAIN c /\ 1..j \subseteq DOMAIN c
      /\ j + 1 \in 1..(j + 1) /\ 1..j \subseteq 1..(j + 1)
      /\ \A k : k \in 1..(j + 1) <=> k \in 1..j \/ k = j + 1
      /\ \A k \in DOMAIN c : c[k] \in FileLine(p)
  OBVIOUS
<1>3. /\ line \in FileLine(p) /\ line.bid \in Nat
      /\ line.tid \in Tids /\ line.stat \in Stats(p)
  BY <1>2 DEF FileLine
<1> HIDE DEF S
<1>4. /\ Taken(p, c, j, S) /\ Adds(p, S, S2, line)
  BY DEF S
<1>5. /\ line.bid + 1 <= Len(S2)
      /\ Len(S2) = Len(S) \/ (Len(S2) = Len(S) + 1 /\ line.bid + 1 = Len(S2))
  BY <1>4 DEF Adds
<1>11. Len(S) \in Nat /\ Len(S2) \in Nat /\ Len(S) <= Len(S2)
  BY <1>1, <1>5
<1>6. ASSUME NEW b \in 1..Len(S2), NEW t \in Tids, NEW s \in Stats(p)
      PROVE  /\ Sorted(c, j, ListOf(S, b, t, s), b, t, s)
             /\ ListOf(S, b, t, s) \in Seq(Same)
  <2>1. CASE b <= Len(S)
    <3>1. b \in 1..Len(S) /\ ListOf(S, b, t, s) = S[b][t][s]
      BY <1>1, <2>1 DEF ListOf
    <3>2. S[b] \in Cells
      BY <1>1, <3>1
    <3> QED
      BY <1>4, <3>1, <3>2 DEF Taken
  <2>2. CASE ~(b <= Len(S))
    <3>1. ListOf(S, b, t, s) = <<>> /\ Len(<<>>) = 0
      BY <2>2 DEF ListOf
    <3> QED
      BY <3>1 DEF Sorted
  <2> QED
    BY <2>1, <2>2
<1>10. ASSUME NEW b \in 1..Len(S2), NEW t \in Tids, NEW s \in Stats(p)
       PROVE  \/ S2[b][t][s] = ListOf(S, b, t, s)
              \/ \E x : S2[b][t][s]
                          = Append(ListOf(S, b, t, s), <<x, line.value>>)
  <2>1. CASE b = line.bid + 1 /\ t = line.tid /\ s = line.stat
    BY <1>4, <2>1, ZenonT(30) DEF Adds
  <2>2. CASE ~(b = line.bid + 1 /\ t = line.tid /\ s = line.stat)
    BY <1>4, <2>2 DEF Adds
  <2> QED
    BY <2>1, <2>2
<1>7. ASSUME NEW b \in 1..Len(S2), NEW t \in Tids, NEW s \in Stats(p)
      PROVE  Sorted(c, j + 1, S2[b][t][s], b, t, s)
  <2> DEFINE old == ListOf(S, b, t, s)
  <2>1. Sorted(c, j, old, b, t, s) /\ old \in Seq(Same)
    BY <1>6
  <2>2. CASE b = line.bid + 1 /\ t = line.tid /\ s = line.stat
    <3>1. PICK x : S2[b][t][s] = Append(old, <<x, line.value>>)
      BY <1>4, <2>2 DEF Adds
    <3>2. line.bid = b - 1
      BY <1>3, <2>2
    <3> HIDE DEF old
    <3> QED
      BY <1>2, <2>1, <2>2, <3>1, <3>2, SortedMore
  <2>3. CASE ~(b = line.bid + 1 /\ t = line.tid /\ s = line.stat)
    <3>1. S2[b][t][s] = old
      BY <1>4, <2>3 DEF Adds
    <3>2. Sorted(c, j + 1, old, b, t, s)
      <4> HIDE DEF old
      <4> QED
        BY <1>2, <2>1 DEF Sorted
    <3> QED
      BY <3>1, <3>2
  <2> QED
    BY <2>2, <2>3
<1>8. ASSUME NEW k \in 1..(j + 1)
      PROVE  c[k].bid + 1 <= Len(S2) /\ HasValue(S2, c[k])
  <2> DEFINE b == c[k].bid + 1
             t == c[k].tid
             s == c[k].stat
             old == ListOf(S, b, t, s)
  <2>1. c[k].bid \in Nat /\ t \in Tids /\ s \in Stats(p)
    BY <1>2, <1>3 DEF FileLine
  <2>2. CASE k = j + 1
    <3>1. b \in 1..Len(S2)
      BY <1>5, <2>1, <2>2
    <3>2. PICK x : S2[b][t][s] = Append(old, <<x, line.value>>)
      BY <1>4, <2>1, <2>2, <3>1 DEF Adds
    <3>3. old \in Seq(Same)
      BY <1>6, <2>1, <3>1
    <3> DEFINE new == S2[b][t][s]
    <3> HIDE DEF old, b, t, s
    <3>4. /\ Len(new) = Len(old) + 1 /\ Len(old) \in Nat
          /\ new[Len(old) + 1] = <<x, line.value>>
      <4>1. new = Append(old, <<x, line.value>>)
        BY <3>2
      <4> HIDE DEF new, line
      <4> QED
        BY <3>3, <4>1
    <3>5. /\ Len(old) + 1 \in 1..Len(S2[b][t][s])
          /\ S2[b][t][s][Len(old) + 1][2] = line.value
      BY <3>4
    <3> QED
      BY <1>5, <2>2, <3>5 DEF HasValue, b, t, s
  <2>3. CASE k \in 1..j
    <3>1. c[k].bid + 1 <= Len(S) /\ HasValue(S, c[k])
      BY <1>4, <2>3 DEF Taken
    <3>2. b \in 1..Len(S2) /\ b <= Len(S)
      <4>1. b \in Nat /\ 1 <= b /\ b <= Len(S)
        BY <2>1, <3>1
      <4> HIDE DEF b
      <4> QED
        BY <1>11, <4>1
    <3>3. PICK e \in 1..Len(old) : old[e][2] = c[k].value
      BY <3>1, <3>2 DEF HasValue, ListOf
    <3>4. old \in Seq(Same)
      BY <1>6, <2>1, <3>2
    <3>5. S2[b][t][s] = old
             \/ \E x : S2[b][t][s] = Append(old, <<x, line.value>>)
      BY <1>10, <2>1, <3>2
    <3> HIDE DEF old, b, t, s
    <3>6. /\ e \in 1..Len(S2[b][t][s])
          /\ S2[b][t][s][e] = old[e]
      <4> DEFINE new == S2[b][t][s]
      <4>1. CASE new = old
        BY <4>1
      <4>2. ASSUME NEW x, new = Append(old, <<x, line.value>>)
            PROVE  e \in 1..Len(new) /\ new[e] = old[e]
        <5> HIDE DEF new
        <5> QED
          BY <3>4, <4>2
      <4> QED
        BY <3>5, <4>1, <4>2
    <3>7. /\ e \in 1..Len(S2[b][t][s])
          /\ S2[b][t][s][e][2] = c[k].value
      BY <3>3, <3>6
    <3>8. HasValue(S2, c[k])
      BY <3>7 DEF HasValue, b, t, s
    <3>9. c[k].bid + 1 <= Len(S2)
      BY ONLY <1>11, <2>1, <3>1 DEF b
    <3> QED
      BY <3>8, <3>9
  <2> QED
    BY <1>2, <2>2, <2>3
<1>9. ASSUME NEW b \in 1..Len(S2)
      PROVE  \E k \in 1..(j + 1) : c[k].bid = b - 1
  <2>1. CASE b \in 1..Len(S)
    <3>1. PICK k \in 1..j : c[k].bid = b - 1
      BY <1>4, <2>1 DEF Taken
    <3> QED
      BY <1>2, <3>1
  <2>2. CASE b \notin 1..Len(S)
    <3>1. b = line.bid + 1
      BY <1>1, <1>5, <2>2
    <3>2. line.bid = b - 1
      BY <1>3, <3>1
    <3> QED
      BY <1>2, <3>2
  <2> QED
    BY <2>1, <2>2
<1> QED
  BY <1>7, <1>8, <1>9 DEF Taken

\* Unless it has ended in an exception, STATS has the lines of all files.
LEMMA StatsTaken ==
  ASSUME NEW p \in Supported, NEW files, OrderedFiles(p, files),
         ~StatsPerfCounters(p, files).raised
  PROVE  LET c == Parsed(p, files)
         IN  Taken(p, c, Len(c), StatsPerfCounters(p, files).STATS)
<1> DEFINE c == Parsed(p, files)
           n == Len(c)
<1>1. c \in Seq(FileLine(p)) /\ Ascending(c)
  BY ParsedLines
<1>2. PICK h : ReadAs(p, c, h) /\ h[n] = StatsPerfCounters(p, files)
  BY StatsReadAs DEF OrderedFiles
<1> HIDE DEF c
<1>3. n \in Nat /\ DOMAIN c = 1..n
  BY <1>1
<1> DEFINE T == {k \in Nat : ~h[k].raised => Taken(p, c, k, h[k].STATS)}
<1>4. 0 \in T
  <2>1. h[0].STATS = <<>> /\ Len(<<>>) = 0
    BY <1>2 DEF ReadAs, NothingRead
  <2>2. Taken(p, c, 0, <<>>)
    BY <2>1 DEF Taken
  <2> QED
    BY <2>1, <2>2
<1>5. \A k \in 0..(n - 1) : k \in T => k + 1 \in T
  <2> SUFFICES ASSUME NEW k \in 0..(n - 1), k \in T, ~h[k + 1].raised
               PROVE  Taken(p, c, k + 1, h[k + 1].STATS)
    BY <1>3
  <2> DEFINE line == c[k + 1]
             S2 == h[k + 1].STATS
  <2>1. /\ k + 1 \in 1..n /\ k + 1 \in 0..n /\ k \in 0..n /\ k \in Nat
        /\ k \in 0..(Len(c) - 1)
    BY <1>3
  <2>2. /\ line \in FileLine(p) /\ h[k + 1] = ParseLine(p, h[k], line)
        /\ Reads(p, h[k]) /\ Reads(p, h[k + 1])
    BY <1>1, <1>2, <1>3, <2>1 DEF ReadAs
  <2> HIDE DEF line
  <2>3. /\ ~h[k].raised
        /\ Adds(p, h[k].STATS, ParseLine(p, h[k], line).STATS, line)
    BY <2>2, ParseLineAdds
  <2>4. Adds(p, h[k].STATS, S2, line)
    BY <2>2, <2>3
  <2>5. S2 \in Seq([Tids -> [Stats(p) -> Seq(Same)]])
    BY <2>2 DEF Reads, ReadStates
  <2>6. Taken(p, c, k, h[k].STATS)
    BY <2>3
  <2> HIDE DEF S2, T
  <2>7. Adds(p, h[k].STATS, S2, c[k + 1])
    BY <2>4 DEF line
  <2>8. Taken(p, c, k + 1, S2)
    BY <1>1, <2>1, <2>2, <2>5, <2>6, <2>7, TakenMore
  <2> QED
    BY <2>8 DEF S2
<1>6. \A k \in 0..n : k \in T
  <2> HIDE DEF T
  <2> QED
    BY <1>3, <1>4, <1>5, UpTo
<1>7. n \in T
  <2> HIDE DEF T
  <2> QED
    BY <1>3, <1>6
<1> QED
  BY <1>2, <1>7 DEF c, n

\* What STATS is made of, in terms of the records of the files.
OfRecord(p, files, b, t, s, v) ==
  \E i \in 0..(Iterations - 1) : \E n \in DOMAIN files[i][t] :
    /\ files[i][t][n].bid = b - 1
    /\ s \in ToSet(PAPI_rounds[p][files[i][t][n].round])
    /\ v = ValueOf(files[i][t][n])

AllEntered(p, S, rec, t) ==
  /\ rec.bid + 1 <= Len(S)
  /\ \A s \in ToSet(PAPI_rounds[p][rec.round]) :
       LET list == S[rec.bid + 1][t][s]
       IN  \E e \in 1..Len(list) : list[e][2] = ValueOf(rec)

Holds(p, files, S) ==
  /\ S \in Seq([Tids -> [Stats(p) -> Seq(Same)]])
  /\ \A b \in 1..Len(S) :
       \E i \in 0..(Iterations - 1) : \E t \in Tids :
         \E n \in DOMAIN files[i][t] : files[i][t][n].bid = b - 1
  /\ \A i \in 0..(Iterations - 1) : \A t \in Tids :
       \A n \in DOMAIN files[i][t] : AllEntered(p, S, files[i][t][n], t)
  /\ \A b \in 1..Len(S) : \A t \in Tids : \A s \in Stats(p) :
       LET list == S[b][t][s]
       IN  /\ \A e \in 1..Len(list) : OfRecord(p, files, b, t, s, list[e][2])
           /\ \A d, e \in 1..Len(list) :
                d < e => Before(list[d][2], list[e][2])

\* Unless it ends in an exception: StatsPerfCounters has every record of
\* every file once, in the order of execution (RunBenchmarks.py:60-117).
LEMMA StatsHold ==
  ASSUME NEW p \in Supported, NEW files, OrderedFiles(p, files),
         ~StatsPerfCounters(p, files).raised
  PROVE  Holds(p, files, StatsPerfCounters(p, files).STATS)
<1> DEFINE c == Parsed(p, files)
           n == Len(c)
           S == StatsPerfCounters(p, files).STATS
           Reps == 0..(Iterations - 1)
<1>1. /\ c \in Seq(FileLine(p))
      /\ \A l : l \in ToSet(c) <=> FilesHave(p, files, l)
  BY ParsedLines
<1>2. Taken(p, c, n, S)
  BY StatsTaken
<1>3. S \in Seq([Tids -> [Stats(p) -> Seq(Same)]])
  BY StatsRead DEF OrderedFiles, Reads, ReadStates
<1> HIDE DEF c, S
<1>4. DOMAIN c = 1..n /\ n \in Nat /\ \A k \in 1..n : c[k] \in FileLine(p)
  BY <1>1
<1> HIDE DEF n
<1>5. ASSUME NEW k \in 1..n
      PROVE  \E i \in Reps : \E t \in Tids : \E m \in DOMAIN files[i][t] :
               c[k] \in RecLines(p, files[i][t][m], t)
  <2>1. c[k] \in ToSet(c)
    BY <1>4 DEF ToSet
  <2> QED
    BY <1>1, <2>1 DEF FilesHave, FileHas
<1>6. ASSUME NEW b \in 1..Len(S)
      PROVE  \E i \in Reps : \E t \in Tids : \E m \in DOMAIN files[i][t] :
               files[i][t][m].bid = b - 1
  <2>1. PICK k \in 1..n : c[k].bid = b - 1
    BY <1>2 DEF Taken
  <2>2. PICK i \in Reps, t \in Tids : \E m \in DOMAIN files[i][t] :
          c[k] \in RecLines(p, files[i][t][m], t)
    BY <1>5
  <2>3. PICK m \in DOMAIN files[i][t] :
          c[k] \in RecLines(p, files[i][t][m], t)
    BY <2>2
  <2>4. files[i][t][m].bid = b - 1
    BY <2>1, <2>3, RecLine
  <2> QED
    BY <2>4
<1>7. ASSUME NEW i \in Reps, NEW t \in Tids, NEW m \in DOMAIN files[i][t]
      PROVE  AllEntered(p, S, files[i][t][m], t)
  <2> DEFINE rec == files[i][t][m]
  <2>1. ASSUME NEW s \in ToSet(PAPI_rounds[p][rec.round])
        PROVE  \E k \in 1..n : c[k] = LineOf(rec, t, s)
    <3>1. LineOf(rec, t, s) \in RecLines(p, rec, t)
      BY DEF RecLines
    <3>2. FilesHave(p, files, LineOf(rec, t, s))
      BY <3>1 DEF FilesHave, FileHas
    <3>3. LineOf(rec, t, s) \in ToSet(c)
      BY <1>1, <3>2
    <3> QED
      BY <1>4, <3>3 DEF ToSet
  <2>2. ASSUME NEW s \in ToSet(PAPI_rounds[p][rec.round])
        PROVE  /\ rec.bid + 1 <= Len(S)
               /\ \E e \in 1..Len(S[rec.bid + 1][t][s]) :
                    S[rec.bid + 1][t][s][e][2] = ValueOf(rec)
    <3>1. PICK k \in 1..n : c[k] = LineOf(rec, t, s)
      BY <2>1
    <3>2. /\ c[k].bid = rec.bid /\ c[k].tid = t /\ c[k].stat = s
          /\ c[k].value = ValueOf(rec)
      BY <3>1 DEF LineOf
    <3>3. c[k].bid + 1 <= Len(S) /\ HasValue(S, c[k])
      BY <1>2 DEF Taken
    <3> QED
      BY <3>2, <3>3 DEF HasValue
  <2>3. "TOT_INS" \in ToSet(PAPI_rounds[p][rec.round])
    <3>1. files[i] \in [Tids -> Seq(PapiRecord(p))]
      BY DEF OrderedFiles, PapiFiles
    <3>2. files[i][t] \in Seq(PapiRecord(p))
      BY <3>1
    <3>3. rec \in PapiRecord(p)
      BY <3>2
    <3>4. rec.round \in 1..Len(PAPI_rounds[p])
      BY <3>3 DEF PapiRecord
    <3> HIDE DEF rec
    <3> DEFINE R == PAPI_rounds[p][rec.round]
    <3>5. R[1] = "TOT_INS" /\ Len(R) >= 1 /\ R \in Seq(Stats(p))
      BY <3>4, RoundsBegin
    <3> HIDE DEF R
    <3>6. 1 \in DOMAIN R
      BY <3>5
    <3>7. "TOT_INS" \in ToSet(R)
      BY <3>5, <3>6 DEF ToSet
    <3> QED
      BY <3>7 DEF R
  <2> QED
    BY <2>2, <2>3 DEF AllEntered
<1>8. ASSUME NEW b \in 1..Len(S), NEW t \in Tids, NEW s \in Stats(p),
             NEW e \in 1..Len(S[b][t][s])
      PROVE  OfRecord(p, files, b, t, s, S[b][t][s][e][2])
  <2>1. PICK k \in 1..n : /\ c[k].bid = b - 1 /\ c[k].tid = t
                          /\ c[k].stat = s
                          /\ c[k].value = S[b][t][s][e][2]
    <3>1. Sorted(c, n, S[b][t][s], b, t, s)
      BY <1>2 DEF Taken
    <3> QED
      BY <3>1 DEF Sorted
  <2>2. PICK i \in Reps, u \in Tids : \E m \in DOMAIN files[i][u] :
          c[k] \in RecLines(p, files[i][u][m], u)
    BY <1>5
  <2>3. PICK m \in DOMAIN files[i][u] :
          c[k] \in RecLines(p, files[i][u][m], u)
    BY <2>2
  <2>4. /\ u = t /\ files[i][u][m].bid = b - 1
        /\ S[b][t][s][e][2] = ValueOf(files[i][u][m])
        /\ s \in ToSet(PAPI_rounds[p][files[i][u][m].round])
    BY <2>1, <2>3, RecLine
  <2> QED
    BY <2>4 DEF OfRecord
<1>9. \A b \in 1..Len(S) : \A t \in Tids : \A s \in Stats(p) :
        \A d, e \in 1..Len(S[b][t][s]) :
          d < e => Before(S[b][t][s][d][2], S[b][t][s][e][2])
  BY <1>2 DEF Taken, Sorted
<1>10. Holds(p, files, S)
  BY <1>3, <1>6, <1>7, <1>8, <1>9 DEF Holds
<1> QED
  BY <1>10 DEF S

----------------------------------------------------------------------------
(* The table that is written from it.                                      *)

\* What row n of a table of nb regions is about.
KeyOf(n, nb) ==
  [tid |-> (n - 1) \div (Iterations * nb),
   itr |-> ((n - 1) \div nb) % Iterations,
   bid |-> (n - 1) % nb]

RowOf(p, S, k) ==
  [tid |-> k.tid, itr |-> k.itr, bid |-> k.bid,
   val |-> [s \in Stats(p) |-> GetTotal(S, s, k.tid, k.itr, k.bid)]]

Reps == 0..(Iterations - 1)

\* The loops of RunBenchmarks.py:236-238: there is one row for each thread,
\* repetition and region, and only these.
LEMMA KeysAre ==
  ASSUME NEW nb \in Nat \ {0}
  PROVE  /\ NThreads * Iterations * nb \in Nat
         /\ \A n \in 1..(NThreads * Iterations * nb) :
              /\ KeyOf(n, nb).tid \in Tids /\ KeyOf(n, nb).itr \in Reps
              /\ KeyOf(n, nb).bid \in 0..(nb - 1)
              /\ OfDigits(n - 1, Iterations, nb, KeyOf(n, nb).tid,
                          KeyOf(n, nb).itr, KeyOf(n, nb).bid)
         /\ \A t \in Tids : \A i \in Reps : \A b \in 0..(nb - 1) :
              /\ (t * Iterations + i) * nb + b + 1
                   \in 1..(NThreads * Iterations * nb)
              /\ KeyOf((t * Iterations + i) * nb + b + 1, nb)
                   = [tid |-> t, itr |-> i, bid |-> b]
<1> DEFINE N == NThreads * Iterations * nb
<1>1. Iterations \in Nat \ {0} /\ NThreads \in Nat /\ N \in Nat
  BY StatisticsAssumption
<1>2. ASSUME NEW t \in Tids, NEW i \in Reps, NEW b \in 0..(nb - 1),
             NEW m \in Int, OfDigits(m, Iterations, nb, t, i, b)
      PROVE  /\ m \in Nat /\ m < N
             /\ KeyOf(m + 1, nb) = [tid |-> t, itr |-> i, bid |-> b]
  <2>1. t \in 0..(NThreads - 1) /\ i \in 0..(Iterations - 1) /\ t \in Int
    BY <1>1 DEF Tids, Reps
  <2>2. m \in Nat /\ m < N
    BY <1>1, <1>2, <2>1, DigitsInside
  <2>3. /\ m \div (Iterations * nb) = t /\ (m \div nb) % Iterations = i
        /\ m % nb = b
    BY <1>1, <1>2, <2>1, ThreeDigits
  <2>4. (m + 1) - 1 = m
    OBVIOUS
  <2> QED
    BY <2>2, <2>3, <2>4 DEF KeyOf
<1>3. ASSUME NEW n \in 1..N
      PROVE  /\ KeyOf(n, nb).tid \in Tids /\ KeyOf(n, nb).itr \in Reps
             /\ KeyOf(n, nb).bid \in 0..(nb - 1)
             /\ OfDigits(n - 1, Iterations, nb, KeyOf(n, nb).tid,
                         KeyOf(n, nb).itr, KeyOf(n, nb).bid)
  <2> DEFINE m == n - 1
  <2>1. m \in Nat /\ m < N /\ m \in Int /\ m + 1 = n
    <3> HIDE DEF N
    <3> QED
      BY <1>1
  <2> HIDE DEF m
  <2>2. PICK t \in 0..(NThreads - 1), i \in 0..(Iterations - 1),
             b \in 0..(nb - 1) : OfDigits(m, Iterations, nb, t, i, b)
    BY <1>1, <2>1, DigitsBelow
  <2>3. t \in Tids /\ i \in Reps
    BY DEF Tids, Reps
  <2>4. KeyOf(n, nb) = [tid |-> t, itr |-> i, bid |-> b]
    BY <1>2, <2>1, <2>2, <2>3
  <2> QED
    BY <2>2, <2>3, <2>4 DEF m
<1>4. ASSUME NEW t \in Tids, NEW i \in Reps, NEW b \in 0..(nb - 1)
      PROVE  /\ (t * Iterations + i) * nb + b + 1 \in 1..N
             /\ KeyOf((t * Iterations + i) * nb + b + 1, nb)
                  = [tid |-> t, itr |-> i, bid |-> b]
  <2> DEFINE m == (t * Iterations + i) * nb + b
  <2>1. m \in Int
    BY <1>1 DEF Tids, Reps
  <2>2. OfDigits(m, Iterations, nb, t, i, b)
    BY DEF OfDigits
  <2>4. /\ m \in Nat /\ m < N
        /\ KeyOf(m + 1, nb) = [tid |-> t, itr |-> i, bid |-> b]
    <3> HIDE DEF N, m
    <3> QED
      BY <1>2, <2>1, <2>2
  <2>3. m + 1 \in 1..N
    <3> HIDE DEF m, N
    <3> QED
      BY <1>1, <2>4
  <2> QED
    BY <2>3, <2>4
<1> QED
  BY <1>1, <1>3, <1>4

NoneMissing(p, S) ==
  \A t \in Tids : \A i \in Reps : \A b \in 0..(Len(S) - 1) :
    \A s \in Stats(p) : ~GetTotalRaises(S, s, t, i, b)

WholeTable(p, S) ==
  [n \in 1..(NThreads * Iterations * Len(S)) |->
     RowOf(p, S, KeyOf(n, Len(S)))]

\* A table of all rows is one of which no getter has raised.
LEMMA TableFinished ==
  ASSUME NEW p \in Supported, NEW C, NEW S \in Seq(C),
         CheckTable(p, S).finished
  PROVE  CheckTable(p, S).rows = WholeTable(p, S) /\ NoneMissing(p, S)
<1> DEFINE nb == Len(S)
           N == NThreads * Iterations * nb
           key == [n \in 1..N |->
                     [tid |-> (n - 1) \div (Iterations * nb),
                      itr |-> ((n - 1) \div nb) % Iterations,
                      bid |-> (n - 1) % nb]]
           raises == {n \in DOMAIN key : \E s \in Stats(p) :
                        GetTotalRaises(S, s, key[n].tid, key[n].itr,
                                       key[n].bid)}
           whole == {n \in 0..Len(key) : \A m \in 1..n : m \notin raises}
<1>1. nb \in Nat /\ N \in Nat
  BY StatisticsAssumption
<1>2. /\ CheckTable(p, S).finished = (raises = {})
      /\ CheckTable(p, S).rows = [n \in 1..Max(whole) |-> RowOf(p, S, key[n])]
  BY DEF CheckTable, RowOf
<1>3. /\ DOMAIN key = 1..N
      /\ \A n \in 1..N : key[n] = KeyOf(n, nb)
  BY DEF KeyOf
<1> HIDE DEF key
<1>4. Len(key) = N
  BY <1>1, <1>3
<1>5. raises = {}
  BY <1>2
<1>6. whole = 0..N
  BY <1>4, <1>5
<1> HIDE DEF whole, raises, N
<1>7. Max(whole) = N
  <2>4. N \in Int /\ 0 \in Int
    BY <1>1
  <2>5. IsFiniteSet(0..N)
    BY <2>4, FS_Interval
  <2>6. N \in 0..N /\ \A n \in 0..N : n \in Nat
    BY <1>1
  <2>1. 0..N \in SUBSET Nat /\ 0..N # {}
    BY <2>6
  <2>2. Max(0..N) \in 0..N /\ N <= Max(0..N)
    BY ONLY <2>1, <2>5, <2>6, FiniteMax
  <2>3. Max(0..N) = N
    BY <1>1, <2>2
  <2> QED
    BY <1>6, <2>3
<1>8. CheckTable(p, S).rows = WholeTable(p, S)
  <2>1. CheckTable(p, S).rows = [n \in 1..N |-> RowOf(p, S, key[n])]
    BY <1>2, <1>7
  <2>2. WholeTable(p, S) = [n \in 1..N |-> RowOf(p, S, KeyOf(n, nb))]
    BY DEF WholeTable, N
  <2> QED
    BY <1>3, <2>1, <2>2
<1>9. NoneMissing(p, S)
  <2> SUFFICES ASSUME NEW t \in Tids, NEW i \in Reps, NEW b \in 0..(nb - 1),
                      NEW s \in Stats(p), GetTotalRaises(S, s, t, i, b)
               PROVE  FALSE
    BY DEF NoneMissing
  <2>1. nb \in Nat \ {0}
    BY <1>1
  <2> DEFINE n == (t * Iterations + i) * nb + b + 1
  <2>2. n \in 1..N /\ KeyOf(n, nb) = [tid |-> t, itr |-> i, bid |-> b]
    <3> HIDE DEF nb
    <3> QED
      BY <2>1, KeysAre DEF N
  <2> HIDE DEF n, nb
  <2>3. key[n].tid = t /\ key[n].itr = i /\ key[n].bid = b
    BY <1>3, <2>2
  <2>4. n \in raises
    BY <1>3, <2>2, <2>3 DEF raises
  <2> QED
    BY <1>5, <2>4
<1> QED
  BY <1>8, <1>9

\* An event but TOT_INS is measured in one round only.
LEMMA RoundOfEvent ==
  ASSUME NEW p \in Supported, NEW s, s # "TOT_INS",
         NEW r \in 1..Len(PAPI_rounds[p]), s \in ToSet(PAPI_rounds[p][r])
  PROVE  RoundOf(p, s) = r
<1>1. \A q \in 1..Len(PAPI_rounds[p]) : s \in ToSet(PAPI_rounds[p][q])
         => q = r
  <2>1. p \in {"x86_64", "aarch64"} /\ RoundEvents(p)
    BY EventsOfRounds
  <2> DEFINE of(q) == ToSet(PAPI_rounds[p][q])
  <2> SUFFICES ASSUME NEW q \in 1..Len(PAPI_rounds[p]),
                      s \in of(q), s \in of(r)
               PROVE  q = r
    OBVIOUS
  <2>2. CASE p = "x86_64"
    <3>1. q \in 1..3 /\ r \in 1..3
      BY <2>1, <2>2 DEF RoundEvents
    <3>2. /\ of(1) = {"TOT_INS", "TOT_CYC"}
          /\ of(2) = {"TOT_INS", "L1_DCM", "L1_ICM"}
          /\ of(3) = {"TOT_INS", "L2_DCM", "L2_DCA"}
      BY <2>1, <2>2 DEF RoundEvents
    <3>3. (q = 1 \/ q = 2 \/ q = 3) /\ (r = 1 \/ r = 2 \/ r = 3)
      BY <3>1
    <3> HIDE DEF of
    <3> QED
      BY <3>2, <3>3
  <2>3. CASE p = "aarch64"
    <3>1. q \in 1..2 /\ r \in 1..2
      BY <2>1, <2>3 DEF RoundEvents
    <3>2. /\ of(1) = {"TOT_INS", "TOT_CYC", "L1_DCA", "L1_DCM"}
          /\ of(2) = {"TOT_INS", "L1_ICM", "L1_ICA", "L2_DCM"}
      BY <2>1, <2>3 DEF RoundEvents
    <3>3. (q = 1 \/ q = 2) /\ (r = 1 \/ r = 2)
      BY <3>1
    <3> HIDE DEF of
    <3> QED
      BY <3>2, <3>3
  <2> QED
    BY <2>1, <2>2, <2>3
<1>2. r \in DOMAIN PAPI_rounds[p] /\ DOMAIN PAPI_rounds[p]
        = 1..Len(PAPI_rounds[p])
  BY EventsOfRounds
<1> QED
  BY <1>1, <1>2 DEF RoundOf

\* An event of the round whose getter raises when a value is missing.
Checked(p, r) ==
  \E c \in ToSet(PAPI_rounds[p][r]) : c # "TOT_INS" /\ c # "L2_DCM"

\* Every round has one: TOT_CYC, L1_DCM and L2_DCA; TOT_CYC and L1_ICM.
LEMMA RoundsChecked ==
  ASSUME NEW p \in Supported, NEW r \in 1..Len(PAPI_rounds[p])
  PROVE  Checked(p, r)
<1>1. p \in {"x86_64", "aarch64"} /\ RoundEvents(p)
  BY EventsOfRounds
<1>2. CASE p = "x86_64"
  <2>3. r \in 1..3
    BY <1>1, <1>2 DEF RoundEvents
  <2>1. r = 1 \/ r = 2 \/ r = 3
    BY <2>3
  <2>2. /\ "TOT_CYC" \in ToSet(PAPI_rounds[p][1])
        /\ "L1_DCM" \in ToSet(PAPI_rounds[p][2])
        /\ "L2_DCA" \in ToSet(PAPI_rounds[p][3])
    BY <1>1, <1>2 DEF RoundEvents
  <2> QED
    BY <2>1, <2>2 DEF Checked
<1>3. CASE p = "aarch64"
  <2>3. r \in 1..2
    BY <1>1, <1>3 DEF RoundEvents
  <2>1. r = 1 \/ r = 2
    BY <2>3
  <2>2. /\ "TOT_CYC" \in ToSet(PAPI_rounds[p][1])
        /\ "L1_ICM" \in ToSet(PAPI_rounds[p][2])
    BY <1>1, <1>3 DEF RoundEvents
  <2> QED
    BY <2>1, <2>2 DEF Checked
<1> QED
  BY <1>1, <1>2, <1>3

\* The events of a round are those of the table.
LEMMA EventIn ==
  ASSUME NEW p \in Supported, NEW r \in 1..Len(PAPI_rounds[p]),
         NEW s \in ToSet(PAPI_rounds[p][r])
  PROVE  s \in Stats(p)
<1>1. r \in DOMAIN PAPI_rounds[p]
  BY EventsOfRounds
<1> QED
  BY <1>1 DEF Stats

\* Each event of the table is one of a round.
LEMMA EventOf ==
  ASSUME NEW p \in Supported, NEW s \in Stats(p)
  PROVE  \E r \in 1..Len(PAPI_rounds[p]) : s \in ToSet(PAPI_rounds[p][r])
<1>1. DOMAIN PAPI_rounds[p] = 1..Len(PAPI_rounds[p])
  BY EventsOfRounds
<1> QED
  BY <1>1 DEF Stats

\* What a record says of its execution.
LEMMA RecordIs ==
  ASSUME NEW p \in Supported, NEW files, OrderedFiles(p, files),
         NEW i \in Reps, NEW t \in Tids, NEW n \in DOMAIN files[i][t]
  PROVE  /\ files[i][t][n] \in PapiRecord(p)
         /\ files[i][t][n].rep = i
         /\ files[i][t][n].round \in 1..Len(PAPI_rounds[p])
<1>1. files[i] \in [Tids -> Seq(PapiRecord(p))]
  BY DEF OrderedFiles, PapiFiles, Reps
<1>2. files[i][t] \in Seq(PapiRecord(p))
  BY <1>1
<1>3. files[i][t][n] \in PapiRecord(p)
  BY <1>2
<1>4. files[i][t][n].round \in 1..Len(PAPI_rounds[p])
  BY <1>3 DEF PapiRecord
<1>5. files[i][t][n].rep = i
  BY DEF OrderedFiles, OrderedFile, Reps
<1> QED
  BY <1>3, <1>4, <1>5

\* What an entry of a list of STATS says of its execution.
LEMMA EntryIs ==
  ASSUME NEW p \in Supported, NEW files, OrderedFiles(p, files), NEW b,
         NEW t \in Tids, NEW s, NEW v, OfRecord(p, files, b, t, s, v)
  PROVE  /\ v.rep \in Reps /\ v.round \in 1..Len(PAPI_rounds[p])
         /\ s \in ToSet(PAPI_rounds[p][v.round])
<1>1. PICK i \in Reps : \E n \in DOMAIN files[i][t] :
        /\ s \in ToSet(PAPI_rounds[p][files[i][t][n].round])
        /\ v = ValueOf(files[i][t][n])
  BY DEF OfRecord, Reps
<1>2. PICK n \in DOMAIN files[i][t] :
        /\ s \in ToSet(PAPI_rounds[p][files[i][t][n].round])
        /\ v = ValueOf(files[i][t][n])
  BY <1>1
<1>3. v.rep = files[i][t][n].rep /\ v.round = files[i][t][n].round
  BY <1>2 DEF ValueOf
<1> QED
  BY <1>2, <1>3, RecordIs

\* The lists of STATS.
LEMMA CellIs ==
  ASSUME NEW p, NEW files, NEW S, Holds(p, files, S), NEW b \in 1..Len(S),
         NEW t \in Tids, NEW s \in Stats(p)
  PROVE  /\ S[b][t][s] \in Seq(Same) /\ Len(S[b][t][s]) \in Nat
         /\ DOMAIN S[b][t][s] = 1..Len(S[b][t][s])
<1>1. S \in Seq([Tids -> [Stats(p) -> Seq(Same)]])
  BY DEF Holds
<1>2. S[b] \in [Tids -> [Stats(p) -> Seq(Same)]]
  BY <1>1
<1>3. S[b][t][s] \in Seq(Same)
  BY <1>2
<1> QED
  BY <1>3

HasEntry(S, b, t, c, v) ==
  \E e \in 1..Len(S[b][t][c]) : S[b][t][c][e][2] = v

\* The event is one of the execution that the value is of.
WithValue(p, s, v) == s \in ToSet(PAPI_rounds[p][v.round])

\* The events of one round are entered together.
LEMMA Together ==
  ASSUME NEW p \in Supported, NEW files, OrderedFiles(p, files),
         NEW S, Holds(p, files, S), NEW b \in 1..Len(S), NEW t \in Tids,
         NEW c \in Stats(p), NEW s \in Stats(p),
         NEW v, HasEntry(S, b, t, c, v), WithValue(p, s, v)
  PROVE  HasEntry(S, b, t, s, v)
<1>1. OfRecord(p, files, b, t, c, v)
  BY DEF Holds, HasEntry
<1>2. PICK i \in Reps : \E n \in DOMAIN files[i][t] :
        /\ files[i][t][n].bid = b - 1
        /\ v = ValueOf(files[i][t][n])
  BY <1>1 DEF OfRecord, Reps
<1>3. PICK n \in DOMAIN files[i][t] :
        /\ files[i][t][n].bid = b - 1
        /\ v = ValueOf(files[i][t][n])
  BY <1>2
<1>4. AllEntered(p, S, files[i][t][n], t)
  BY DEF Holds, Reps
<1> DEFINE rec == files[i][t][n]
<1>5. b \in Int
  OBVIOUS
<1> HIDE DEF rec
<1>6. rec.bid + 1 = b /\ v = ValueOf(rec) /\ AllEntered(p, S, rec, t)
  BY <1>3, <1>4, <1>5 DEF rec
<1>7. v.round = rec.round
  BY <1>6 DEF ValueOf
<1>8. s \in ToSet(PAPI_rounds[p][rec.round])
  BY <1>7 DEF WithValue
<1>9. \E d \in 1..Len(S[b][t][s]) : S[b][t][s][d][2] = ValueOf(rec)
  BY <1>6, <1>8 DEF AllEntered
<1> QED
  BY <1>6, <1>9 DEF HasEntry

\* The list of an event that is measured in one round has an entry for each
\* repetition once all repetitions have one (RunBenchmarks.py:130-160).
OnePerRep(p, list, s) ==
  /\ Len(list) = Iterations
  /\ \A e \in 1..Len(list) :
       list[e][2].rep = e - 1 /\ list[e][2].round = RoundOf(p, s)

\* Entries in the order of execution: as many as there are repetitions.
LEMMA ListOfReps ==
  ASSUME NEW p \in Supported, NEW files, OrderedFiles(p, files),
         NEW S, Holds(p, files, S), NEW b \in 1..Len(S), NEW t \in Tids,
         NEW s \in Stats(p), s # "TOT_INS", NEW list, list = S[b][t][s],
         \/ Len(list) >= Iterations
         \/ \A i \in Reps : \E e \in 1..Len(list) : list[e][2].rep = i
  PROVE  OnePerRep(p, list, s)
<1> DEFINE n == Len(list)
           f == [e \in 1..n |-> list[e][2].rep]
<1>1. /\ n \in Nat /\ Iterations \in Nat
      /\ \A e \in 1..n : OfRecord(p, files, b, t, s, list[e][2])
      /\ \A d, e \in 1..n : d < e => Before(list[d][2], list[e][2])
  <2>1. Len(list) \in Nat
    BY CellIs
  <2> QED
    BY <2>1, StatisticsAssumption DEF Holds
<1> HIDE DEF n
<1>2. ASSUME NEW e \in 1..n
      PROVE  /\ f[e] = list[e][2].rep /\ f[e] \in 0..(Iterations - 1)
             /\ list[e][2].round = RoundOf(p, s)
  <2> DEFINE v == list[e][2]
  <2>1. OfRecord(p, files, b, t, s, v)
    BY <1>1
  <2> HIDE DEF v
  <2>2. /\ v.rep \in Reps /\ v.round \in 1..Len(PAPI_rounds[p])
        /\ s \in ToSet(PAPI_rounds[p][v.round])
    BY <2>1, EntryIs
  <2>3. RoundOf(p, s) = v.round
    BY <2>2, RoundOfEvent
  <2>4. f[e] = v.rep
    BY DEF v
  <2> QED
    BY <2>2, <2>3, <2>4 DEF v, Reps
<1> HIDE DEF f
<1>3. ASSUME NEW d \in 1..n, NEW e \in 1..n, d < e
      PROVE  f[d] < f[e]
  <2>1. Before(list[d][2], list[e][2])
    BY <1>1, <1>3
  <2>2. list[d][2].round = RoundOf(p, s) /\ list[e][2].round = RoundOf(p, s)
    BY <1>2
  <2>3. ~(list[d][2].round < list[e][2].round)
         \/ RoundOf(p, s) < RoundOf(p, s)
    BY <2>2
  <2>4. RoundOf(p, s) \in Nat
    <3>1. list[e][2].round \in 1..Len(PAPI_rounds[p])
      BY <1>1, EntryIs
    <3> QED
      BY <2>2, <3>1
  <2>5. list[d][2].rep < list[e][2].rep
    BY <2>1, <2>3, <2>4 DEF Before
  <2> QED
    BY <1>2, <2>5
<1>4. n >= Iterations
  <2> SUFFICES ASSUME \A i \in Reps : \E e \in 1..n : list[e][2].rep = i
               PROVE  n >= Iterations
    BY DEF n
  <2>1. \A v \in 0..(Iterations - 1) : \E e \in 1..n : f[e] = v
    BY <1>2 DEF Reps
  <2> QED
    BY <1>1, <1>2, <1>3, <2>1, Covering
<1>6. /\ \A e \in 1..n : f[e] \in 0..(Iterations - 1)
      /\ \A e, d \in 1..n : e < d => f[e] < f[d]
  BY <1>2, <1>3
<1>5. n = Iterations /\ \A e \in 1..n : f[e] = e - 1
  <2>1. n \in Nat /\ Iterations \in Nat
    BY <1>1
  <2> QED
    BY ONLY <2>1, <1>4, <1>6, Filling
<1> QED
  BY <1>2, <1>5 DEF OnePerRep, n

\* That no getter raises says so of all events but TOT_INS, and, by the
\* events of the same round, of the one whose getter never raises.
LEMMA NoneMissingReps ==
  ASSUME NEW p \in Supported, NEW files, OrderedFiles(p, files),
         NEW S, Holds(p, files, S), NoneMissing(p, S),
         NEW b \in 1..Len(S), NEW t \in Tids,
         NEW s \in Stats(p), s # "TOT_INS"
  PROVE  OnePerRep(p, S[b][t][s], s)
<1>1. Iterations \in Nat \ {0} /\ Iterations - 1 \in Reps
  BY StatisticsAssumption DEF Reps
<1>2. ASSUME NEW c \in Stats(p), c # "TOT_INS", c # "L2_DCM"
      PROVE  OnePerRep(p, S[b][t][c], c)
  <2>1. b - 1 \in 0..(Len(S) - 1) /\ (b - 1) + 1 = b
    OBVIOUS
  <2>2. ~GetTotalRaises(S, c, t, Iterations - 1, b - 1)
    BY <1>1, <2>1 DEF NoneMissing
  <2>3. Iterations - 1 < Len(S[b][t][c])
    BY <1>2, <2>1, <2>2 DEF GetTotalRaises, Found
  <2>4. Len(S[b][t][c]) \in Nat
    BY CellIs
  <2> DEFINE list == S[b][t][c]
  <2>5. Len(list) >= Iterations
    BY <1>1, <2>3, <2>4
  <2> HIDE DEF list
  <2>6. OnePerRep(p, list, c)
    BY <1>2, <2>5, ListOfReps DEF list
  <2> QED
    BY <2>6 DEF list
<1>3. CASE s # "L2_DCM"
  BY <1>2, <1>3
<1>4. CASE s = "L2_DCM"
  <2>1. PICK r \in 1..Len(PAPI_rounds[p]) : s \in ToSet(PAPI_rounds[p][r])
    BY EventOf
  <2>2. PICK c \in ToSet(PAPI_rounds[p][r]) : c # "TOT_INS" /\ c # "L2_DCM"
    BY RoundsChecked DEF Checked
  <2>3. c \in Stats(p) /\ RoundOf(p, c) = r
    BY <2>2, EventIn, RoundOfEvent
  <2>4. OnePerRep(p, S[b][t][c], c)
    BY <1>2, <2>2, <2>3
  <2>5. ASSUME NEW i \in Reps
        PROVE  \E d \in 1..Len(S[b][t][s]) : S[b][t][s][d][2].rep = i
    <3> DEFINE e == i + 1
    <3>1. e \in 1..Iterations /\ e - 1 = i
      BY <1>1 DEF Reps
    <3> HIDE DEF e
    <3>2. /\ e \in 1..Len(S[b][t][c])
          /\ S[b][t][c][e][2].rep = i /\ S[b][t][c][e][2].round = r
      BY <2>3, <2>4, <3>1 DEF OnePerRep
    <3> DEFINE v == S[b][t][c][e][2]
    <3>3. v.rep = i /\ v.round = r /\ HasEntry(S, b, t, c, v)
      BY <3>2 DEF HasEntry
    <3> HIDE DEF v
    <3>4. WithValue(p, s, v)
      BY <2>1, <3>3 DEF WithValue
    <3>5. HasEntry(S, b, t, s, v)
      BY <2>3, <3>3, <3>4, Together
    <3> QED
      BY <3>3, <3>5 DEF HasEntry
  <2> DEFINE list == S[b][t][s]
  <2>6. \A i \in Reps : \E d \in 1..Len(list) : list[d][2].rep = i
    BY <2>5
  <2> HIDE DEF list
  <2>7. OnePerRep(p, list, s)
    BY <2>6, ListOfReps DEF list
  <2> QED
    BY <2>7 DEF list
<1> QED
  BY <1>3, <1>4

\* Each execution has the instructions, so that their list has an entry for
\* each, not for each repetition (RunBenchmarks.py:138-147).
OnePerExecution(p, list) ==
  LET rounds == Len(PAPI_rounds[p])
  IN  /\ Len(list) = Iterations * rounds
      /\ \A e \in 1..Len(list) :
           /\ list[e][2].rep = (e - 1) \div rounds
           /\ list[e][2].round = 1 + ((e - 1) % rounds)

\* The number of an execution, from 0.
Nth(k, v) == k * v.rep + (v.round - 1)

\* Executions are numbered in their order.
LEMMA NthGrows ==
  ASSUME NEW k \in Nat \ {0}, NEW v, NEW w,
         v.rep \in Nat, w.rep \in Nat, v.round \in 1..k, w.round \in 1..k,
         Before(v, w)
  PROVE  Nth(k, v) < Nth(k, w)
<1> DEFINE a == v.rep
           b == w.rep
           c == v.round
           d == w.round
<1>1. /\ a \in Nat /\ b \in Nat /\ c \in 1..k /\ d \in 1..k
      /\ a < b \/ (a = b /\ c < d)
  BY DEF Before
<1> HIDE DEF a, b, c, d
<1>2. k * a + (c - 1) < k * b + (d - 1)
  <2>1. CASE a < b
    <3>1. k * (a + 1) <= k * b
      BY <1>1, <2>1
    <3>2. k * (a + 1) = k * a + k
      BY <1>1
    <3>3. k * a \in Int /\ k * b \in Int
      BY <1>1
    <3> QED
      BY <1>1, <3>1, <3>2, <3>3
  <2>2. CASE a = b /\ c < d
    <3>1. k * a \in Int
      BY <1>1
    <3> QED
      BY <1>1, <2>2, <3>1
  <2> QED
    BY <1>1, <2>1, <2>2
<1> QED
  BY <1>2 DEF Nth, a, b, c, d

\* Repetition and round from the number, and the bound.
LEMMA NthIs ==
  ASSUME NEW k \in Nat \ {0}, NEW v, NEW n \in Nat,
         v.rep \in 0..(n - 1), v.round \in 1..k
  PROVE  /\ Nth(k, v) \in 0..(n * k - 1)
         /\ v.rep = Nth(k, v) \div k /\ v.round = 1 + (Nth(k, v) % k)
<1> DEFINE a == v.rep
           c == v.round
           m == k * a + (c - 1)
<1>1. a \in 0..(n - 1) /\ c \in 1..k
  OBVIOUS
<1> HIDE DEF a, c
<1>2. m \in Int /\ c - 1 \in 0..(k - 1) /\ a \in Int /\ m = k * a + (c - 1)
  BY <1>1
<1>3. k * (a + 1) <= k * n /\ k * (a + 1) = k * a + k
  BY <1>1
<1>4. k * n = n * k /\ n * k \in Nat /\ k * a \in Nat
  BY <1>1
<1>5. m \in 0..(n * k - 1)
  BY <1>1, <1>3, <1>4
<1> HIDE DEF m
<1> DEFINE q == c - 1
<1>6. q \in 0..(k - 1) /\ m = k * a + q /\ c = 1 + q
  BY <1>1, <1>2
<1> HIDE DEF q
<1>7. m \div k = a /\ m % k = q
  BY <1>2, <1>6, QuotientIs, ZenonT(30)
<1>8. Nth(k, v) = m
  BY DEF Nth, m, a, c
<1> QED
  BY <1>5, <1>6, <1>7, <1>8 DEF a, c

\* The instructions are counted in each round.
LEMMA TotalIn ==
  ASSUME NEW p \in Supported
  PROVE  /\ "TOT_INS" \in Stats(p)
         /\ \A r \in 1..Len(PAPI_rounds[p]) :
              "TOT_INS" \in ToSet(PAPI_rounds[p][r])
<1>1. ASSUME NEW r \in 1..Len(PAPI_rounds[p])
      PROVE  "TOT_INS" \in ToSet(PAPI_rounds[p][r])
  <2> DEFINE R == PAPI_rounds[p][r]
  <2>1. R[1] = "TOT_INS" /\ Len(R) >= 1 /\ R \in Seq(Stats(p))
    BY RoundsBegin
  <2> HIDE DEF R
  <2>2. 1 \in DOMAIN R
    BY <2>1
  <2>3. "TOT_INS" \in ToSet(R)
    BY <2>1, <2>2 DEF ToSet
  <2> QED
    BY <2>3 DEF R
<1>2. 1 \in 1..Len(PAPI_rounds[p])
  BY RoundsCount
<1> QED
  BY <1>1, <1>2, EventIn

\* The instructions of all executions are there, by the events measured with
\* them.
LEMMA NoneMissingExecutions ==
  ASSUME NEW p \in Supported, NEW files, OrderedFiles(p, files),
         NEW S, Holds(p, files, S), NoneMissing(p, S),
         NEW b \in 1..Len(S), NEW t \in Tids
  PROVE  OnePerExecution(p, S[b][t]["TOT_INS"])
<1>20. "TOT_INS" \in Stats(p)
  BY TotalIn
<1> DEFINE list == S[b][t]["TOT_INS"]
           n == Len(list)
           k == Len(PAPI_rounds[p])
           size == Iterations * k
           f == [e \in 1..n |-> Nth(k, list[e][2])]
<1>1. k \in Nat \ {0} /\ Iterations \in Nat \ {0} /\ size \in Nat
  BY RoundsCount, StatisticsAssumption
<1>2. /\ n \in Nat
      /\ \A e \in 1..n : OfRecord(p, files, b, t, "TOT_INS", list[e][2])
      /\ \A d, e \in 1..n : d < e => Before(list[d][2], list[e][2])
  BY <1>20, CellIs DEF Holds
<1> HIDE DEF n
<1>3. ASSUME NEW e \in 1..n
      PROVE  /\ list[e][2].rep \in 0..(Iterations - 1)
             /\ list[e][2].round \in 1..k
  <2> DEFINE v == list[e][2]
  <2>1. OfRecord(p, files, b, t, "TOT_INS", v)
    BY <1>2
  <2> HIDE DEF v
  <2>2. v.rep \in Reps /\ v.round \in 1..Len(PAPI_rounds[p])
    BY <2>1, EntryIs
  <2> QED
    BY <2>2 DEF v, Reps
<1> HIDE DEF k, list
<1>4. ASSUME NEW e \in 1..n
      PROVE  /\ f[e] = Nth(k, list[e][2]) /\ f[e] \in 0..(size - 1)
             /\ list[e][2].rep = f[e] \div k
             /\ list[e][2].round = 1 + (f[e] % k)
  <2> DEFINE v == list[e][2]
  <2>1. v.rep \in 0..(Iterations - 1) /\ v.round \in 1..k
    BY <1>3
  <2> HIDE DEF v
  <2>2. /\ Nth(k, v) \in 0..(Iterations * k - 1)
        /\ v.rep = Nth(k, v) \div k /\ v.round = 1 + (Nth(k, v) % k)
    BY <1>1, <2>1, NthIs
  <2>3. f[e] = Nth(k, v)
    BY DEF v
  <2> HIDE DEF f
  <2> QED
    BY <2>2, <2>3 DEF v
<1> HIDE DEF f, size
<1>5. ASSUME NEW d \in 1..n, NEW e \in 1..n, d < e
      PROVE  f[d] < f[e]
  <2> DEFINE v == list[d][2]
             w == list[e][2]
  <2>1. /\ v.rep \in 0..(Iterations - 1) /\ w.rep \in 0..(Iterations - 1)
        /\ v.round \in 1..k /\ w.round \in 1..k /\ Before(v, w)
    BY <1>2, <1>3, <1>5
  <2> HIDE DEF v, w
  <2>2. Nth(k, v) < Nth(k, w)
    <3>1. v.rep \in Nat /\ w.rep \in Nat
      BY <2>1
    <3> QED
      BY <1>1, <2>1, <3>1, NthGrows
  <2> QED
    BY <1>4, <2>2 DEF v, w
<1>6. ASSUME NEW m \in 0..(size - 1)
      PROVE  \E e \in 1..n : f[e] = m
  <2> DEFINE i == m \div k
             q == m % k
             r == q + 1
  <2>20. m \in Int
    BY <1>1
  <2>1. m \in Int /\ i \in Int /\ q \in 0..(k - 1) /\ m = k * i + q
    BY <1>1, <2>20, Quotient
  <2> HIDE DEF i, q
  <2>2. r \in 1..k /\ q = r - 1
    BY <1>1, <2>1
  <2>3. i \in Reps
    <3>1. i >= 0
      <4> SUFFICES ASSUME i <= -1
                   PROVE  FALSE
        BY <2>1
      <4>1. k * i <= -k
        BY <1>1, <2>1
      <4>2. k * i \in Int /\ m >= 0
        BY <1>1, <2>1
      <4> QED
        BY <1>1, <2>1, <4>1, <4>2
    <3>2. i <= Iterations - 1
      <4> SUFFICES ASSUME i >= Iterations
                   PROVE  FALSE
        BY <1>1, <2>1
      <4>1. k * i >= k * Iterations
        BY <1>1, <2>1
      <4>2. k * i \in Int /\ k * Iterations = size /\ m <= size - 1
        BY <1>1, <2>1 DEF size
      <4> QED
        BY <1>1, <2>1, <4>1, <4>2
    <3> QED
      BY <1>1, <2>1, <3>1, <3>2 DEF Reps
  <2> HIDE DEF r
  <2>4. PICK c \in ToSet(PAPI_rounds[p][r]) : c # "TOT_INS" /\ c # "L2_DCM"
    BY <2>2, RoundsChecked DEF Checked, k
  <2>5. c \in Stats(p) /\ RoundOf(p, c) = r
    BY <2>2, <2>4, EventIn, RoundOfEvent DEF k
  <2>6. OnePerRep(p, S[b][t][c], c)
    BY <2>4, <2>5, NoneMissingReps
  <2> DEFINE x == i + 1
             v == S[b][t][c][x][2]
  <2>7. x \in 1..Iterations /\ x - 1 = i
    BY <1>1, <2>3 DEF Reps
  <2>8. v.rep = i /\ v.round = r /\ HasEntry(S, b, t, c, v)
    <3> HIDE DEF x
    <3> QED
      BY <2>5, <2>6, <2>7 DEF OnePerRep, HasEntry
  <2> HIDE DEF v, x
  <2>9. WithValue(p, "TOT_INS", v)
    <3>1. "TOT_INS" \in ToSet(PAPI_rounds[p][r])
      BY <2>2, TotalIn DEF k
    <3> QED
      BY <2>8, <3>1 DEF WithValue
  <2>10. HasEntry(S, b, t, "TOT_INS", v)
    BY <1>20, <2>5, <2>8, <2>9, Together
  <2>11. PICK e \in 1..n : list[e][2] = v
    BY <2>10 DEF HasEntry, list, n
  <2>12. Nth(k, v) = m
    BY <2>1, <2>2, <2>8 DEF Nth
  <2> QED
    BY <1>4, <2>11, <2>12
<1>7. /\ \A e \in 1..n : f[e] \in 0..(size - 1)
      /\ \A e, d \in 1..n : e < d => f[e] < f[d]
      /\ \A m \in 0..(size - 1) : \E e \in 1..n : f[e] = m
  BY <1>4, <1>5, <1>6
<1>8. n >= size
  <2>1. n \in Nat /\ size \in Nat
    BY <1>1, <1>2 DEF size
  <2> QED
    BY ONLY <2>1, <1>7, Covering
<1>9. n = size /\ \A e \in 1..n : f[e] = e - 1
  <2>1. n \in Nat /\ size \in Nat
    BY <1>1, <1>2 DEF size
  <2> QED
    BY ONLY <2>1, <1>7, <1>8, Filling, ZenonT(30)
<1>10. OnePerExecution(p, list)
  <2>1. Len(list) = Iterations * k
    BY <1>9 DEF n, size
  <2>2. ASSUME NEW e \in 1..Len(list)
        PROVE  /\ list[e][2].rep = (e - 1) \div k
               /\ list[e][2].round = 1 + ((e - 1) % k)
    <3>1. e \in 1..n /\ f[e] = e - 1
      BY <1>9 DEF n
    <3> QED
      BY <1>4, <3>1
  <2> QED
    BY <2>1, <2>2 DEF OnePerExecution, k
<1> QED
  BY <1>10 DEF list

\* The lists of all events.
Complete(p, S) ==
  \A b \in 1..Len(S) : \A t \in Tids :
    /\ \A s \in Stats(p) : s # "TOT_INS" => OnePerRep(p, S[b][t][s], s)
    /\ OnePerExecution(p, S[b][t]["TOT_INS"])

\* What a table with all rows was made of.
TableIs(p, files, table, S) ==
  /\ Holds(p, files, S) /\ Complete(p, S) /\ NoneMissing(p, S)
  /\ table = WholeTable(p, S)

\* What the driver has read when it has written all rows of a table.
LEMMA TableComplete ==
  ASSUME NEW p \in Supported, NEW files, OrderedFiles(p, files),
         NEW st, st = StatsPerfCounters(p, files), ~st.raised,
         CheckTable(p, st.STATS).finished
  PROVE  TableIs(p, files, CheckTable(p, st.STATS).rows, st.STATS)
<1> DEFINE S == st.STATS
<1>1. Holds(p, files, S)
  BY StatsHold
<1>2. S \in Seq([Tids -> [Stats(p) -> Seq(Same)]])
  BY <1>1 DEF Holds
<1>3. CheckTable(p, S).finished
  OBVIOUS
<1> HIDE DEF S
<1>4. CheckTable(p, S).rows = WholeTable(p, S) /\ NoneMissing(p, S)
  BY <1>2, <1>3, TableFinished
<1>5. Complete(p, S)
  BY <1>1, <1>4, NoneMissingReps, NoneMissingExecutions DEF Complete
<1> QED
  BY <1>1, <1>4, <1>5 DEF TableIs, S


----------------------------------------------------------------------------
(* What errorEstimate.py reads from a table.                               *)

NothingTaken == [stats |-> <<>>, raised |-> FALSE]

AllTaken(b, c) == FoldLeft(ReadRow, b, c)

\* As ReadStep, for the rows of a table.
TakeStep(b, c, g, set) ==
  IF set = {} THEN b ELSE ReadRow(g[set \ {Max(set)}], c[Max(set)])

Takes(h, m, c, b) ==
  /\ h[0] = b
  /\ \A j \in 0..(m - 1) : h[j + 1] = ReadRow(h[j], c[j + 1])
  /\ h[m] = AllTaken(b, c)

\* ReadTable takes one row after the other: h[j] is what it has after j rows.
LEMMA TakeSteps ==
  ASSUME NEW m \in Nat, NEW c, DOMAIN c = 1..m, NEW b
  PROVE  \E h : Takes(h, m, c, b)
<1> DEFINE Steps(g, k) == g = [set \in SUBSET (1..k) |->
                                 TakeStep(b, c, g, set)]
           T == {k \in Nat : \E g : Steps(g, k)}
<1>1. \A k \in Nat : Max(1..(k + 1)) = k + 1
  BY DEF Max
<1>2. 0 \in T
  <2> DEFINE g == [set \in SUBSET (1..0) |-> b]
  <2>1. \A set \in SUBSET (1..0) : TakeStep(b, c, g, set) = b
    BY DEF TakeStep
  <2> QED
    BY <2>1
<1>3. \A k \in 0..(m - 1) : k \in T => k + 1 \in T
  <2> SUFFICES ASSUME NEW k \in Nat, k \in T
               PROVE  k + 1 \in T
    OBVIOUS
  <2>1. PICK g : Steps(g, k)
    OBVIOUS
  <2> DEFINE n == k + 1
             G == [set \in SUBSET (1..n) |->
                     IF n \in set THEN ReadRow(g[set \ {n}], c[n])
                     ELSE g[set]]
  <2>2. ASSUME NEW set \in SUBSET (1..n)
        PROVE  G[set] = TakeStep(b, c, G, set)
    <3>1. CASE n \in set
      <4>1. \A y \in set : n >= y
        OBVIOUS
      <4>2. Max(set) = n
        <5>1. Max(set) \in set /\ \A y \in set : Max(set) >= y
          BY <3>1, <4>1 DEF Max
        <5> DEFINE z == Max(set)
        <5>2. z \in Nat /\ z <= n /\ n <= z
          <6> HIDE DEF z
          <6>1. z \in set /\ z >= n
            BY <3>1, <5>1 DEF z
          <6> QED
            BY <6>1
        <5> HIDE DEF z, G
        <5>3. z = n
          BY <5>2
        <5> QED
          BY <5>3 DEF z
      <4>3. set \ {n} \in SUBSET (1..n) /\ n \notin set \ {n}
        OBVIOUS
      <4>4. G[set \ {n}] = g[set \ {n}]
        <5> DEFINE rest == set \ {n}
        <5>1. rest \in SUBSET (1..n) /\ n \notin rest
          BY <4>3
        <5> HIDE DEF rest
        <5>2. G[rest] = g[rest]
          BY <5>1
        <5> QED
          BY <5>2 DEF rest
      <4>5. G[set] = ReadRow(g[set \ {n}], c[n])
        BY <3>1
      <4> HIDE DEF G, n
      <4> QED
        BY <3>1, <4>2, <4>4, <4>5 DEF TakeStep
    <3>2. CASE n \notin set
      <4>1. set \in SUBSET (1..k)
        BY <3>2
      <4>2. G[set] = g[set] /\ g[set] = TakeStep(b, c, g, set)
        BY <2>1, <3>2, <4>1
      <4>3. ASSUME set # {}
            PROVE  G[set \ {Max(set)}] = g[set \ {Max(set)}]
        <5> DEFINE rest == set \ {Max(set)}
        <5>1. rest \in SUBSET (1..n) /\ n \notin rest
          BY <3>2
        <5> HIDE DEF rest
        <5>2. G[rest] = g[rest]
          BY <5>1
        <5> QED
          BY <5>2 DEF rest
      <4> HIDE DEF G
      <4> QED
        BY <4>2, <4>3 DEF TakeStep
    <3> QED
      BY <3>1, <3>2
  <2>3. G = [set \in SUBSET (1..n) |-> TakeStep(b, c, G, set)]
    BY <2>2
  <2> HIDE DEF G
  <2>4. Steps(G, k + 1) /\ k + 1 \in Nat
    BY <2>3
  <2> HIDE DEF Steps
  <2> QED
    BY <2>4
<1>4. m \in T
  <2> HIDE DEF T
  <2>1. \A k \in 0..m : k \in T
    BY <1>2, <1>3, UpTo
  <2> QED
    BY <2>1
<1> DEFINE f == CHOOSE g : g = [set \in SUBSET (DOMAIN c) |->
                                  TakeStep(b, c, g, set)]
<1>5. f = [set \in SUBSET (1..m) |-> TakeStep(b, c, f, set)]
  BY <1>4
<1>6. AllTaken(b, c) = f[1..m]
  BY DEF AllTaken, FoldLeft, MapThenFoldSet, TakeStep
<1> HIDE DEF f, T
<1> DEFINE h == [j \in 0..m |-> f[1..j]]
<1>7. h[0] = b
  <2>1. (1..0) = {} /\ {} \in SUBSET (1..m) /\ 0 \in 0..m
    OBVIOUS
  <2>2. f[{}] = b
    BY <1>5, <2>1 DEF TakeStep
  <2> QED
    BY <2>1, <2>2
<1>8. \A j \in 0..(m - 1) : h[j + 1] = ReadRow(h[j], c[j + 1])
  <2> SUFFICES ASSUME NEW j \in 0..(m - 1)
               PROVE  h[j + 1] = ReadRow(h[j], c[j + 1])
    OBVIOUS
  <2>1. /\ j \in Nat /\ 1..(j + 1) \in SUBSET (1..m) /\ 1..(j + 1) # {}
        /\ (1..(j + 1)) \ {j + 1} = 1..j
        /\ j \in 0..m /\ j + 1 \in 0..m
    <3> HIDE DEF h
    <3>1. j \in Nat /\ j \in 0..m /\ j + 1 \in 0..m /\ j + 1 \in 1..(j + 1)
      OBVIOUS
    <3>2. 1..(j + 1) \in SUBSET (1..m)
      BY <3>1
    <3>3. (1..(j + 1)) \ {j + 1} = 1..j
      BY <3>1
    <3> QED
      BY <3>1, <3>2, <3>3
  <2>2. Max(1..(j + 1)) = j + 1
    BY <1>1, <2>1
  <2>3. h[j] = f[1..j] /\ h[j + 1] = f[1..(j + 1)]
    BY <2>1
  <2> HIDE DEF h
  <2>4. f[1..(j + 1)] = TakeStep(b, c, f, 1..(j + 1))
    <3> DEFINE set == 1..(j + 1)
    <3>1. set \in SUBSET (1..m)
      BY <2>1
    <3> HIDE DEF set
    <3>2. f[set] = TakeStep(b, c, f, set)
      BY <1>5, <3>1
    <3> QED
      BY <3>2 DEF set
  <2> QED
    BY <2>1, <2>2, <2>3, <2>4, Zenon DEF TakeStep
<1>9. h[m] = f[1..m]
  OBVIOUS
<1> HIDE DEF h
<1> QED
  BY <1>6, <1>7, <1>8, <1>9 DEF Takes

\* A function on 1..n is a sequence.
LEMMA ListIs ==
  ASSUME NEW S, NEW n \in Nat, NEW f \in [1..n -> S]
  PROVE  f \in Seq(S) /\ Len(f) = n
BY SeqDef, LenProperties

\* What becomes of a list that grows to element n, which is replaced by e.
GrownAt(list, n, d, e) ==
  LET grown == GrowTo(list, n, d)
  IN  /\ Len(grown) = n + 1
      /\ grown[n + 1] = IF n = Len(list) THEN d ELSE list[n + 1]
      /\ [grown EXCEPT ![n + 1] = e]
           = [j \in 1..(n + 1) |-> IF j = n + 1 THEN e ELSE list[j]]

\* It grows by one element at most.
LEMMA GrowsAt ==
  ASSUME NEW S, NEW list \in Seq(S), NEW d \in S, NEW e, NEW n \in Nat,
         n = Len(list) \/ n + 1 = Len(list)
  PROVE  GrownAt(list, n, d, e)
<1> DEFINE grown == GrowTo(list, n, d)
<1>1. CASE n = Len(list)
  <2>1. grown = Append(list, d)
    BY <1>1 DEF GrowTo
  <2> HIDE DEF grown
  <2>2. /\ grown \in Seq(S) /\ Len(grown) = n + 1 /\ grown[n + 1] = d
        /\ \A j \in 1..n : grown[j] = list[j]
    BY <1>1, <2>1, AppendProperties
  <2>3. [grown EXCEPT ![n + 1] = e]
          = [j \in 1..(n + 1) |-> IF j = n + 1 THEN e ELSE list[j]]
    <3> DEFINE I == 1..(n + 1)
               k == n + 1
    <3>1. grown \in [I -> S] /\ k \in I
      BY <2>2, LenProperties
    <3>2. \A j \in I : j # k => grown[j] = list[j]
      BY <2>2
    <3> HIDE DEF I, k
    <3>3. [grown EXCEPT ![k] = e] = [j \in I |-> IF j = k THEN e ELSE list[j]]
      BY <3>1, <3>2
    <3> QED
      BY <3>3 DEF I, k
  <2> QED
    BY <1>1, <2>2, <2>3 DEF grown, GrownAt
<1>2. CASE n + 1 = Len(list)
  <2>1. grown = list
    BY <1>2 DEF GrowTo
  <2> HIDE DEF grown
  <2>2. DOMAIN list = 1..(n + 1) /\ n # Len(list)
    BY <1>2
  <2>3. [grown EXCEPT ![n + 1] = e]
          = [j \in 1..(n + 1) |-> IF j = n + 1 THEN e ELSE list[j]]
    <3>1. list = [j \in 1..(n + 1) |-> list[j]]
      BY <2>2
    <3> HIDE DEF grown
    <3> DEFINE I == 1..(n + 1)
               k == n + 1
    <3>2. list = [j \in I |-> list[j]] /\ k \in I
      BY <3>1
    <3> HIDE DEF I, k
    <3>3. [list EXCEPT ![k] = e] = [j \in I |-> IF j = k THEN e ELSE list[j]]
      BY <3>2
    <3> QED
      BY <2>1, <3>3 DEF I, k
  <2> QED
    BY <1>2, <2>1, <2>2, <2>3 DEF grown, GrownAt
<1> QED
  BY <1>1, <1>2

\* The first k values of a repetition.
ValuesTaken(w, k) == [c \in 1..k |-> w[c]]

\* The values of n repetitions, of the last one the first k.
RepsTaken(w, n, k, nb) ==
  [j \in 1..n |-> ValuesTaken(w[j], IF j = n THEN k ELSE nb)]

\* What has been read of w when the row of thread t, repetition i and region
\* b was the last.
GridTaken(w, t, i, b, nb) ==
  [u \in 1..(t + 1) |->
     IF u = t + 1 THEN RepsTaken(w[u], i + 1, b + 1, nb)
     ELSE RepsTaken(w[u], Iterations, nb, nb)]

\* The shapes of all this.
Listed(list, S, n) == list \in Seq(S) /\ Len(list) = n
Column(w, nb, S) == w \in [1..nb -> S]
Columns(w, m, nb, S) == \A j \in 1..m : Column(w[j], nb, S)

\* The values of a repetition so far are a list of them ...
LEMMA TakenIs ==
  ASSUME NEW S, NEW nb \in Nat, NEW w, Column(w, nb, S), NEW k \in 0..nb
  PROVE  Listed(ValuesTaken(w, k), S, k)
<1> DEFINE v == ValuesTaken(w, k)
<1>1. v \in [1..k -> S] /\ k \in Nat
  BY DEF ValuesTaken, Column
<1> HIDE DEF v
<1>2. v \in Seq(S) /\ Len(v) = k
  BY <1>1, ListIs
<1> QED
  BY <1>2 DEF v, Listed

\* ... to which the next is appended.
LEMMA ValueAdded ==
  ASSUME NEW S, NEW nb \in Nat, NEW w, Column(w, nb, S), NEW n \in 1..nb,
         NEW k \in 0..nb, n = k + 1
  PROVE  Append(ValuesTaken(w, k), w[n]) = ValuesTaken(w, n)
<1> DEFINE e == w[n]
           y == ValuesTaken(w, k)
           z == ValuesTaken(w, n)
<1>1. n \in 0..nb /\ e \in S /\ k \in Nat
  BY DEF Column
<1>2. z \in Seq(S) /\ Len(z) = n
  BY <1>1, TakenIs DEF Listed
<1>3. \A c \in 1..n : z[c] = w[c]
  BY DEF ValuesTaken
<1>4. y \in Seq(S) /\ Len(y) = k
  BY TakenIs DEF Listed
<1>5. \A c \in 1..k : y[c] = w[c]
  BY DEF ValuesTaken
<1>6. e = w[n]
  OBVIOUS
<1> HIDE DEF e, y, z
<1>7. /\ Append(y, e) \in Seq(S) /\ Len(Append(y, e)) = n
      /\ Append(y, e)[n] = e /\ \A c \in 1..k : Append(y, e)[c] = y[c]
  BY <1>1, <1>4, AppendProperties
<1>8. \A c \in 1..n : Append(y, e)[c] = z[c]
  BY <1>1, <1>3, <1>5, <1>6, <1>7
<1>9. Append(y, e) = z
  BY <1>2, <1>7, <1>8, SeqEqual
<1> QED
  BY <1>9 DEF e, y, z

\* The same of the repetitions of a thread.
LEMMA RepsTakenIs ==
  ASSUME NEW S, NEW nb \in Nat, NEW m \in Nat,
         NEW w, Columns(w, m, nb, S), NEW n \in 0..m, NEW k \in 0..nb
  PROVE  Listed(RepsTaken(w, n, k, nb), Seq(S), n)
<1>1. \A j \in 1..n : ValuesTaken(w[j], IF j = n THEN k ELSE nb) \in Seq(S)
  <2> SUFFICES ASSUME NEW j \in 1..n
               PROVE  ValuesTaken(w[j], IF j = n THEN k ELSE nb) \in Seq(S)
    OBVIOUS
  <2> DEFINE l == IF j = n THEN k ELSE nb
             v == w[j]
  <2>1. Column(v, nb, S) /\ l \in 0..nb
    BY DEF Columns
  <2> HIDE DEF l, v
  <2>2. Listed(ValuesTaken(v, l), S, l)
    BY <2>1, TakenIs
  <2> QED
    BY <2>2 DEF Listed, l, v
<1> DEFINE z == RepsTaken(w, n, k, nb)
<1>2. z \in [1..n -> Seq(S)] /\ n \in Nat
  BY <1>1 DEF RepsTaken
<1> HIDE DEF z
<1>3. z \in Seq(Seq(S)) /\ Len(z) = n
  BY <1>2, ListIs
<1> QED
  BY <1>3 DEF z, Listed

\* The repetitions of a thread before value k of repetition n is read.
RepsBefore(w, n, k, nb) ==
  IF k = 1 THEN RepsTaken(w, n - 1, nb, nb) ELSE RepsTaken(w, n, k - 1, nb)

\* What becomes of them when it is read.
RepsAfter(w, n, k, nb) ==
  LET grown == GrowTo(RepsBefore(w, n, k, nb), n - 1, <<>>)
      values == Append(grown[n], w[n][k])
  IN  /\ Len(grown) = n /\ Len(values) = k
      /\ [grown EXCEPT ![n] = values] = RepsTaken(w, n, k, nb)

\* The lists of a thread take one more value.
LEMMA RepAdded ==
  ASSUME NEW S, NEW nb \in Nat \ {0}, NEW m \in Nat,
         NEW w, Columns(w, m, nb, S), NEW n \in 1..m, NEW k \in 1..nb
  PROVE  RepsAfter(w, n, k, nb)
<1> DEFINE reps == RepsBefore(w, n, k, nb)
           o == n - 1
           grown == GrowTo(reps, o, <<>>)
           values == Append(grown[n], w[n][k])
<1>1. /\ o \in Nat /\ o \in 0..m /\ n \in 0..m /\ n = o + 1 /\ o < n
      /\ k - 1 \in 0..nb /\ k - 1 < nb /\ (k - 1) + 1 = k /\ nb \in 0..nb
      /\ Column(w[n], nb, S) /\ <<>> \in Seq(S) /\ nb \in Nat
  BY DEF Columns
<1>2. /\ reps \in Seq(Seq(S))
      /\ Len(reps) = IF k = 1 THEN o ELSE n
  <2> DEFINE l == k - 1
  <2>1. CASE k = 1
    <3>1. reps = RepsTaken(w, o, nb, nb)
      BY <2>1 DEF RepsBefore
    <3> HIDE DEF reps, o
    <3>2. Listed(RepsTaken(w, o, nb, nb), Seq(S), o)
      BY <1>1, RepsTakenIs
    <3> QED
      BY <2>1, <3>1, <3>2 DEF Listed
  <2>2. CASE k # 1
    <3>1. reps = RepsTaken(w, n, l, nb) /\ l \in 0..nb
      BY <1>1, <2>2 DEF RepsBefore
    <3> HIDE DEF reps, o, l
    <3>2. Listed(RepsTaken(w, n, l, nb), Seq(S), n)
      BY <1>1, <3>1, RepsTakenIs
    <3> QED
      BY <2>2, <3>1, <3>2 DEF Listed
  <2> QED
    BY <2>1, <2>2
<1>3. \A j \in 1..o : reps[j] = ValuesTaken(w[j], nb)
  BY <1>1 DEF RepsBefore, RepsTaken
<1>4. k # 1 => reps[n] = ValuesTaken(w[n], k - 1)
  <2> HIDE DEF o
  <2>1. n \in 1..n
    OBVIOUS
  <2> QED
    BY <2>1 DEF RepsBefore, RepsTaken
<1> HIDE DEF reps
<1>5. /\ Len(grown) = n
      /\ grown[n] = IF o = Len(reps) THEN <<>> ELSE reps[n]
      /\ [grown EXCEPT ![n] = values]
           = [j \in 1..n |-> IF j = n THEN values ELSE reps[j]]
  <2> DEFINE L == Seq(S)
             d == <<>>
  <2>1. /\ o \in Nat /\ d \in L /\ reps \in Seq(L)
        /\ o = Len(reps) \/ o + 1 = Len(reps)
    BY <1>1, <1>2
  <2> HIDE DEF o, values, L, d
  <2>2. GrownAt(reps, o, d, values)
    BY <2>1, GrowsAt
  <2> QED
    BY <1>1, <2>2 DEF GrownAt, d
<1> HIDE DEF grown
<1>6. grown[n] = ValuesTaken(w[n], k - 1)
  <2>1. CASE k = 1
    <3>1. 1..(k - 1) = {} /\ <<>> = [c \in {} |-> w[n][c]]
      BY <2>1
    <3>2. ValuesTaken(w[n], k - 1) = <<>>
      BY <3>1, Zenon DEF ValuesTaken
    <3> QED
      BY <1>2, <1>5, <2>1, <3>2
  <2>2. CASE k # 1
    BY <1>1, <1>2, <1>4, <1>5, <2>2
  <2> QED
    BY <2>1, <2>2
<1>7. values = ValuesTaken(w[n], k) /\ Len(values) = k
  <2> DEFINE l == k - 1
             v == w[n]
  <2>1. /\ l \in 0..nb /\ k = l + 1 /\ k \in 0..nb
        /\ Column(v, nb, S) /\ grown[n] = ValuesTaken(v, l)
    BY <1>1, <1>6
  <2> HIDE DEF l, v
  <2>2. Append(ValuesTaken(v, l), v[k]) = ValuesTaken(v, k)
    <3>1. k \in 1..nb /\ nb \in Nat
      BY <1>1
    <3> QED
      BY ONLY <2>1, <3>1, ValueAdded, ZenonT(30)
  <2>3. Listed(ValuesTaken(v, k), S, k)
    BY <1>1, <2>1, TakenIs
  <2> QED
    BY <2>1, <2>2, <2>3 DEF v, Listed
<1> HIDE DEF values
<1>8. [j \in 1..n |-> IF j = n THEN values ELSE reps[j]]
        = RepsTaken(w, n, k, nb)
  <2>1. \A j \in 1..n : j # n => j \in 1..o
    BY <1>1
  <2> HIDE DEF o
  <2> QED
    BY <1>3, <1>7, <2>1 DEF RepsTaken
<1> QED
  BY <1>5, <1>7, <1>8 DEF values, grown, reps, RepsAfter

Cube(w, nb, S) ==
  \A u \in 1..NThreads : Columns(w[u], Iterations, nb, S)

\* The lists before the row of thread t, repetition i and region b is read.
GridBefore(w, t, i, b, nb) ==
  IF b # 0 THEN GridTaken(w, t, i, b - 1, nb)
  ELSE IF i # 0 THEN GridTaken(w, t, i - 1, nb - 1, nb)
  ELSE GridTaken(w, t - 1, Iterations - 1, nb - 1, nb)

\* Thread by thread: the last one has what RepsBefore says, or is not there.
GridShape(stats, w, t, i, b, nb) ==
  /\ \A u \in 1..t : stats[u] = RepsTaken(w[u], Iterations, nb, nb)
  /\ IF i = 0 /\ b = 0 THEN Len(stats) = t
     ELSE /\ Len(stats) = t + 1
          /\ stats[t + 1] = RepsBefore(w[t + 1], i + 1, b + 1, nb)

\* And of the threads.
LEMMA GridTakenIs ==
  ASSUME NEW S, NEW nb \in Nat \ {0}, NEW w, Cube(w, nb, S),
         NEW t \in Int, t >= -1, t < NThreads, NEW i \in Reps,
         NEW b \in 0..(nb - 1)
  PROVE  Listed(GridTaken(w, t, i, b, nb), Seq(Seq(S)), t + 1)
<1> DEFINE z == GridTaken(w, t, i, b, nb)
           n == t + 1
<1>1. n \in Nat /\ n <= NThreads
  BY StatisticsAssumption
<1>2. ASSUME NEW u \in 1..n
      PROVE  z[u] \in Seq(Seq(S))
  <2> DEFINE v == w[u]
             j == i + 1
             k == b + 1
  <2>1. Columns(v, Iterations, nb, S)
    BY <1>1, StatisticsAssumption DEF Cube
  <2>2. /\ Iterations \in Nat /\ j \in 0..Iterations /\ k \in 0..nb
        /\ Iterations \in 0..Iterations /\ nb \in 0..nb /\ nb \in Nat
    BY StatisticsAssumption DEF Reps
  <2>3. z[u] = RepsTaken(v, j, k, nb)
        \/ z[u] = RepsTaken(v, Iterations, nb, nb)
    BY DEF GridTaken
  <2> HIDE DEF v, j, k, z
  <2>4. /\ Listed(RepsTaken(v, j, k, nb), Seq(S), j)
        /\ Listed(RepsTaken(v, Iterations, nb, nb), Seq(S), Iterations)
    BY <2>1, <2>2, RepsTakenIs
  <2> QED
    BY <2>3, <2>4 DEF Listed
<1>3. z = [u \in 1..n |-> z[u]]
  BY DEF GridTaken
<1> HIDE DEF z, n
<1>4. z \in [1..n -> Seq(Seq(S))]
  BY <1>2, <1>3
<1>5. z \in Seq(Seq(Seq(S))) /\ Len(z) = n
  BY <1>1, <1>4, ListIs
<1> QED
  BY <1>5 DEF Listed, z, n

\* The shape it has when a row is read.
LEMMA GridBeforeIs ==
  ASSUME NEW S, NEW nb \in Nat \ {0}, NEW w, Cube(w, nb, S),
         NEW t \in Tids, NEW i \in Reps, NEW b \in 0..(nb - 1)
  PROVE  /\ GridBefore(w, t, i, b, nb) \in Seq(Seq(Seq(S)))
         /\ GridShape(GridBefore(w, t, i, b, nb), w, t, i, b, nb)
<1> DEFINE z == GridBefore(w, t, i, b, nb)
           l == nb - 1
           h == Iterations - 1
           bb == b - 1
           ii == i - 1
           tt == t - 1
<1>1. /\ t \in Int /\ t >= 0 /\ t < NThreads /\ t >= -1
      /\ tt \in Int /\ tt >= -1 /\ tt < NThreads /\ tt + 1 = t
      /\ l \in 0..(nb - 1) /\ l + 1 = nb
      /\ h \in Reps /\ h + 1 = Iterations
      /\ i \in Nat
      /\ b # 0 => bb \in 0..(nb - 1) /\ bb + 1 = (b + 1) - 1 /\ b + 1 # 1
      /\ i # 0 => ii \in Reps /\ ii + 1 = (i + 1) - 1
  BY StatisticsAssumption DEF Reps, Tids
<1>2. CASE b # 0
  <2>1. z = GridTaken(w, t, i, bb, nb)
    BY <1>2 DEF GridBefore
  <2>2. z[t + 1] = RepsTaken(w[t + 1], i + 1, bb + 1, nb)
    BY <1>1, <2>1 DEF GridTaken
  <2>3. \A u \in 1..t : z[u] = RepsTaken(w[u], Iterations, nb, nb)
    BY <1>1, <2>1 DEF GridTaken
  <2>4. z[t + 1] = RepsBefore(w[t + 1], i + 1, b + 1, nb)
    BY <1>1, <1>2, <2>2 DEF RepsBefore
  <2> HIDE DEF z, l, h, bb, ii, tt
  <2>5. Listed(GridTaken(w, t, i, bb, nb), Seq(Seq(S)), t + 1)
    BY <1>1, <1>2, GridTakenIs
  <2>6. z \in Seq(Seq(Seq(S))) /\ Len(z) = t + 1
    BY <2>1, <2>5 DEF Listed
  <2>7. GridShape(z, w, t, i, b, nb)
    BY <1>2, <2>3, <2>4, <2>6 DEF GridShape
  <2> QED
    BY <2>6, <2>7 DEF z
<1>3. CASE b = 0 /\ i # 0
  <2>1. z = GridTaken(w, t, ii, l, nb)
    BY <1>3 DEF GridBefore
  <2>2. z[t + 1] = RepsTaken(w[t + 1], ii + 1, l + 1, nb)
    BY <1>1, <2>1 DEF GridTaken
  <2>3. \A u \in 1..t : z[u] = RepsTaken(w[u], Iterations, nb, nb)
    BY <1>1, <2>1 DEF GridTaken
  <2>4. z[t + 1] = RepsBefore(w[t + 1], i + 1, b + 1, nb)
    BY <1>1, <1>3, <2>2 DEF RepsBefore
  <2> HIDE DEF z, l, h, bb, ii, tt
  <2>5. Listed(GridTaken(w, t, ii, l, nb), Seq(Seq(S)), t + 1)
    BY <1>1, <1>3, GridTakenIs
  <2>6. z \in Seq(Seq(Seq(S))) /\ Len(z) = t + 1
    BY <2>1, <2>5 DEF Listed
  <2>7. GridShape(z, w, t, i, b, nb)
    BY <1>3, <2>3, <2>4, <2>6 DEF GridShape
  <2> QED
    BY <2>6, <2>7 DEF z
<1>4. CASE b = 0 /\ i = 0
  <2>1. z = GridTaken(w, tt, h, l, nb)
    BY <1>4 DEF GridBefore
  <2>2. \A u \in 1..t : z[u] = RepsTaken(w[u], Iterations, nb, nb)
    BY <1>1, <2>1 DEF GridTaken
  <2> HIDE DEF z, l, h, bb, ii, tt
  <2>3. Listed(GridTaken(w, tt, h, l, nb), Seq(Seq(S)), tt + 1)
    BY <1>1, GridTakenIs
  <2>4. z \in Seq(Seq(Seq(S))) /\ Len(z) = t
    BY <1>1, <2>1, <2>3 DEF Listed
  <2>5. GridShape(z, w, t, i, b, nb)
    BY <1>4, <2>2, <2>4 DEF GridShape
  <2> QED
    BY <2>4, <2>5 DEF z
<1> QED
  BY <1>2, <1>3, <1>4

\* The lists that a row adds to are there, or are made.
LEMMA GridAdded ==
  ASSUME NEW S, NEW nb \in Nat \ {0}, NEW w, Cube(w, nb, S),
         NEW t \in Tids, NEW i \in Reps, NEW b \in 0..(nb - 1),
         NEW row, row.tid = t, row.itr = i, row.bid = b,
         row.val = w[t + 1][i + 1][b + 1],
         NEW st, ~st.raised, st.stats = GridBefore(w, t, i, b, nb)
  PROVE  /\ ~ReadRow(st, row).raised
         /\ ReadRow(st, row).stats = GridTaken(w, t, i, b, nb)
<1> DEFINE stats == GridBefore(w, t, i, b, nb)
           u == t + 1
           n == i + 1
           k == b + 1
           v == w[u]
           reps == RepsBefore(v, n, k, nb)
           threads == GrowTo(stats, t, <<>>)
           grown == GrowTo(reps, i, <<>>)
           values == Append(grown[n], v[n][k])
           new == RepsTaken(v, n, k, nb)
<1>1. /\ t \in Nat /\ u \in 1..NThreads /\ u = t + 1
      /\ n \in 1..Iterations /\ i = n - 1 /\ n = i + 1 /\ i \in Nat
      /\ k \in 1..nb /\ k = b + 1 /\ Iterations \in Nat
      /\ Columns(v, Iterations, nb, S)
  BY StatisticsAssumption DEF Reps, Tids, Cube
<1>2. /\ stats \in Seq(Seq(Seq(S)))
      /\ GridShape(stats, w, t, i, b, nb)
  BY GridBeforeIs
<1>3. i # 0 \/ b # 0 => Len(stats) = u /\ stats[u] = reps
  BY <1>2 DEF GridShape
<1>4. i = 0 /\ b = 0 => Len(stats) = t /\ reps = <<>>
  <2> SUFFICES ASSUME i = 0, b = 0
               PROVE  Len(stats) = t /\ reps = <<>>
    OBVIOUS
  <2>1. reps = RepsTaken(v, 0, nb, nb)
    <3>1. n - 1 = 0 /\ k = 1
      OBVIOUS
    <3> HIDE DEF n, k
    <3> QED
      BY <3>1 DEF RepsBefore
  <2> HIDE DEF reps, v
  <2>2. RepsTaken(v, 0, nb, nb) = <<>>
    <3>1. 1..0 = {}
      OBVIOUS
    <3>2. <<>> = [j \in {} |->
                    ValuesTaken(v[j], IF j = 0 THEN nb ELSE nb)]
      OBVIOUS
    <3> QED
      BY <3>1, <3>2, Zenon DEF RepsTaken
  <2> QED
    BY <1>2, <2>1, <2>2 DEF GridShape
<1>5. /\ Len(grown) = n /\ Len(values) = k
      /\ [grown EXCEPT ![n] = values] = new
  <2> HIDE DEF u, n, k, v
  <2>1. RepsAfter(v, n, k, nb)
    BY <1>1, RepAdded
  <2> QED
    BY <1>1, <2>1 DEF RepsAfter
<1>6. /\ Len(threads) = u /\ threads[u] = reps
      /\ [threads EXCEPT ![u] = new]
           = [j \in 1..u |-> IF j = u THEN new ELSE stats[j]]
  <2> DEFINE L == Seq(Seq(S))
             d == <<>>
  <2>1. /\ d \in L /\ stats \in Seq(L)
        /\ t = Len(stats) \/ t + 1 = Len(stats)
    <3>1. d \in L
      OBVIOUS
    <3> HIDE DEF stats, reps
    <3> QED
      BY <1>1, <1>2, <1>3, <1>4, <3>1
  <2> HIDE DEF new, L, d, stats, reps
  <2>2. GrownAt(stats, t, d, new)
    BY <1>1, <2>1, GrowsAt
  <2>3. /\ Len(threads) = u
        /\ [threads EXCEPT ![u] = new]
             = [j \in 1..u |-> IF j = u THEN new ELSE stats[j]]
        /\ threads[u] = IF t = Len(stats) THEN <<>> ELSE stats[u]
    BY <2>2 DEF GrownAt, d
  <2> HIDE DEF threads, u
  <2>4. threads[u] = reps
    <3>1. CASE i = 0 /\ b = 0
      BY <1>4, <2>3, <3>1
    <3>2. CASE ~(i = 0 /\ b = 0)
      BY <1>1, <1>3, <2>3, <3>2
    <3> QED
      BY <3>1, <3>2
  <2> QED
    BY <2>3, <2>4
<1>7. [j \in 1..u |-> IF j = u THEN new ELSE stats[j]]
        = GridTaken(w, t, i, b, nb)
  <2>1. \A j \in 1..u : j # u => stats[j] = RepsTaken(w[j], Iterations, nb, nb)
    <3>1. \A j \in 1..t : stats[j] = RepsTaken(w[j], Iterations, nb, nb)
      BY <1>2 DEF GridShape
    <3>2. \A j \in 1..u : j # u => j \in 1..t
      BY <1>1
    <3> HIDE DEF stats, u
    <3> QED
      BY <3>1, <3>2
  <2> HIDE DEF stats
  <2> QED
    BY <2>1 DEF GridTaken
<1> HIDE DEF new, values, grown, reps, stats, v
<1>8. /\ GrowTo(st.stats, row.tid, <<>>) = threads
      /\ row.tid + 1 = u /\ row.itr + 1 = n /\ row.bid + 1 = k
      /\ row.val = v[n][k]
  BY DEF stats, v
<1>9. row.tid < u /\ row.itr < n
  BY <1>1
<1> HIDE DEF threads, u, n, k
<1>10. GrowTo(threads[row.tid + 1], row.itr, <<>>) = grown
  BY <1>6, <1>8 DEF grown
<1>11. Append(grown[row.itr + 1], row.val) = values
  BY <1>8 DEF values
<1>12. /\ ~(row.tid >= Len(threads)) /\ ~(row.itr >= Len(grown))
       /\ Len(values) = row.bid + 1
  BY <1>1, <1>5, <1>6, <1>8, <1>9
<1>13. ReadRow(st, row)
         = [stats |-> [threads EXCEPT ![row.tid + 1] =
                         [grown EXCEPT ![row.itr + 1] = values]],
            raised |-> FALSE]
  BY <1>8, <1>10, <1>11, <1>12, Zenon DEF ReadRow
<1>14. [threads EXCEPT ![row.tid + 1] =
          [grown EXCEPT ![row.itr + 1] = values]]
         = GridTaken(w, t, i, b, nb)
  BY <1>5, <1>6, <1>7, <1>8
<1> QED
  BY <1>13, <1>14

\* What has been read of w after j rows.
SoFar(w, j, nb) ==
  IF j = 0 THEN <<>>
  ELSE GridTaken(w, KeyOf(j, nb).tid, KeyOf(j, nb).itr, KeyOf(j, nb).bid, nb)

\* KeyOf has the digits of the row's number.
LEMMA KeyIs ==
  ASSUME NEW nb \in Nat \ {0}, NEW t \in Int, NEW i \in Reps,
         NEW b \in 0..(nb - 1), NEW j \in Nat \ {0},
         NEW m \in Int, m + 1 = j, OfDigits(m, Iterations, nb, t, i, b)
  PROVE  /\ KeyOf(j, nb).tid = t /\ KeyOf(j, nb).itr = i
         /\ KeyOf(j, nb).bid = b
<1>1. /\ m \div (Iterations * nb) = t /\ (m \div nb) % Iterations = i
      /\ m % nb = b
  <2>1. Iterations \in Nat \ {0} /\ i \in 0..(Iterations - 1)
    BY StatisticsAssumption DEF Reps
  <2> QED
    BY <2>1, ThreeDigits
<1>2. j - 1 = m
  OBVIOUS
<1> DEFINE k == KeyOf(j, nb)
<1>3. k = [tid |-> t, itr |-> i, bid |-> b]
  BY <1>1, <1>2 DEF KeyOf
<1> HIDE DEF k
<1>4. k.tid = t /\ k.itr = i /\ k.bid = b
  BY <1>3
<1> QED
  BY <1>4 DEF k

\* What the row with these digits leaves.
LEMMA SoFarIs ==
  ASSUME NEW nb \in Nat \ {0}, NEW w, NEW t \in Int, NEW i \in Reps,
         NEW b \in 0..(nb - 1), NEW j \in Nat \ {0},
         NEW m \in Int, m + 1 = j, OfDigits(m, Iterations, nb, t, i, b)
  PROVE  SoFar(w, j, nb) = GridTaken(w, t, i, b, nb)
<1>1. /\ KeyOf(j, nb).tid = t /\ KeyOf(j, nb).itr = i
      /\ KeyOf(j, nb).bid = b
  BY KeyIs
<1> QED
  BY <1>1 DEF SoFar

\* The row before that of thread t, repetition i and region b is the one
\* GridBefore means.
LEMMA SoFarBefore ==
  ASSUME NEW nb \in Nat \ {0}, NEW w, NEW t \in Tids, NEW i \in Reps,
         NEW b \in 0..(nb - 1), NEW j \in Nat,
         OfDigits(j, Iterations, nb, t, i, b)
  PROVE  SoFar(w, j, nb) = GridBefore(w, t, i, b, nb)
<1> DEFINE l == nb - 1
           h == Iterations - 1
           bb == b - 1
           ii == i - 1
           tt == t - 1
           m == j - 1
<1>1. /\ t \in Int /\ t >= 0 /\ tt \in Int /\ l \in 0..(nb - 1) /\ h \in Reps
      /\ i \in Int /\ b \in Int /\ Iterations \in Int /\ nb \in Int
      /\ b # 0 => bb \in 0..(nb - 1)
      /\ i # 0 => ii \in Reps
      /\ m \in Int /\ m + 1 = j
      /\ j = (t * Iterations + i) * nb + b
  BY StatisticsAssumption DEF Reps, Tids, OfDigits
<1>2. CASE j = 0
  <2> DEFINE one == 1
             none == 0
             k == KeyOf(one, nb)
  <2>1. /\ none \in Reps /\ none \in 0..(nb - 1) /\ none \in Int
        /\ one \in Nat \ {0} /\ none + 1 = one
    BY StatisticsAssumption DEF Reps
  <2>2. OfDigits(none, Iterations, nb, none, none, none)
    BY <1>1 DEF OfDigits
  <2>3. OfDigits(none, Iterations, nb, t, i, b)
    BY <1>2
  <2> HIDE DEF one, none
  <2>4. k.tid = none /\ k.itr = none /\ k.bid = none
    BY <2>1, <2>2, KeyIs
  <2>5. k.tid = t /\ k.itr = i /\ k.bid = b
    BY <1>1, <2>1, <2>3, KeyIs
  <2>6. t = 0 /\ i = 0 /\ b = 0
    BY <2>4, <2>5 DEF none
  <2>7. GridBefore(w, t, i, b, nb) = GridTaken(w, tt, h, l, nb)
    BY <2>6 DEF GridBefore
  <2>8. GridTaken(w, tt, h, l, nb) = <<>>
    <3>1. 1..(tt + 1) = {}
      BY <2>6
    <3>2. \A f : DOMAIN f = {} /\ f = [x \in DOMAIN f |-> f[x]] => f = <<>>
      OBVIOUS
    <3> DEFINE f == GridTaken(w, tt, h, l, nb)
    <3>3. DOMAIN f = 1..(tt + 1) /\ f = [x \in DOMAIN f |-> f[x]]
      BY DEF GridTaken
    <3> HIDE DEF f
    <3>4. f = <<>>
      BY <3>1, <3>2, <3>3
    <3> QED
      BY <3>4 DEF f
  <2> QED
    BY <1>2, <2>7, <2>8 DEF SoFar
<1>3. CASE j # 0 /\ b # 0
  <2>1. OfDigits(m, Iterations, nb, t, i, bb)
    BY <1>1 DEF OfDigits
  <2>2. GridBefore(w, t, i, b, nb) = GridTaken(w, t, i, bb, nb)
    BY <1>3 DEF GridBefore
  <2> HIDE DEF m, bb
  <2>3. SoFar(w, j, nb) = GridTaken(w, t, i, bb, nb)
    BY <1>1, <1>3, <2>1, SoFarIs
  <2> QED
    BY <2>2, <2>3
<1>4. CASE j # 0 /\ b = 0 /\ i # 0
  <2>1. OfDigits(m, Iterations, nb, t, ii, l)
    <3>1. t * Iterations \in Int
      BY <1>1
    <3> DEFINE a == t * Iterations
    <3>2. a \in Int /\ j = (a + i) * nb
      BY <1>1, <1>4, <3>1
    <3> HIDE DEF a
    <3>3. (a + i) * nb - 1 = (a + (i - 1)) * nb + (nb - 1)
      BY <1>1, <3>2
    <3> QED
      BY <3>2, <3>3 DEF OfDigits, a
  <2>2. GridBefore(w, t, i, b, nb) = GridTaken(w, t, ii, l, nb)
    BY <1>4 DEF GridBefore
  <2> HIDE DEF m, ii, l
  <2>3. SoFar(w, j, nb) = GridTaken(w, t, ii, l, nb)
    BY <1>1, <1>4, <2>1, SoFarIs
  <2> QED
    BY <2>2, <2>3
<1>5. CASE j # 0 /\ b = 0 /\ i = 0
  <2>1. OfDigits(m, Iterations, nb, tt, h, l)
    <3>1. t * Iterations \in Int
      BY <1>1
    <3> DEFINE a == t * Iterations
    <3>2. a \in Int /\ j = a * nb
      BY <1>1, <1>5, <3>1
    <3>3. (t - 1) * Iterations + (Iterations - 1) = a - 1
      BY <1>1
    <3> HIDE DEF a
    <3>4. a * nb - 1 = (a - 1) * nb + (nb - 1)
      BY <1>1, <3>2
    <3> QED
      BY <3>2, <3>3, <3>4 DEF OfDigits
  <2>2. GridBefore(w, t, i, b, nb) = GridTaken(w, tt, h, l, nb)
    BY <1>5 DEF GridBefore
  <2> HIDE DEF m, tt, h, l
  <2>3. SoFar(w, j, nb) = GridTaken(w, tt, h, l, nb)
    BY <1>1, <1>5, <2>1, SoFarIs
  <2> QED
    BY <2>2, <2>3
<1> QED
  BY <1>2, <1>3, <1>4, <1>5

\* The rows are those of a whole table of nb regions.
KeyedRows(rows, nb) ==
  /\ DOMAIN rows = 1..(NThreads * Iterations * nb)
  /\ \A n \in DOMAIN rows :
       /\ rows[n].tid = KeyOf(n, nb).tid /\ rows[n].itr = KeyOf(n, nb).itr
       /\ rows[n].bid = KeyOf(n, nb).bid

\* Their values, thread by thread.
ValuesOf(rows, nb) ==
  [u \in 1..NThreads |-> [j \in 1..Iterations |-> [c \in 1..nb |->
     rows[((u - 1) * Iterations + (j - 1)) * nb + (c - 1) + 1].val]]]

\* Each row has the value at its own place.
LEMMA ValuesOfAre ==
  ASSUME NEW nb \in Nat \ {0}, NEW rows, KeyedRows(rows, nb)
  PROVE  /\ \E S : Cube(ValuesOf(rows, nb), nb, S)
         /\ \A n \in DOMAIN rows :
              rows[n].val = ValuesOf(rows, nb)[rows[n].tid + 1]
                              [rows[n].itr + 1][rows[n].bid + 1]
<1> DEFINE w == ValuesOf(rows, nb)
           S == {rows[n].val : n \in DOMAIN rows}
           N == NThreads * Iterations * nb
           at(u, j, c) == ((u - 1) * Iterations + (j - 1)) * nb + (c - 1) + 1
<1>1. ASSUME NEW u \in 1..NThreads, NEW j \in 1..Iterations, NEW c \in 1..nb
      PROVE  rows[at(u, j, c)].val \in S
  <2> DEFINE t == u - 1
             i == j - 1
             b == c - 1
             n == (t * Iterations + i) * nb + b + 1
  <2>1. t \in Tids /\ i \in Reps /\ b \in 0..(nb - 1)
    BY StatisticsAssumption DEF Tids, Reps
  <2> HIDE DEF t, i, b
  <2>2. n \in 1..N
    BY <2>1, KeysAre
  <2> HIDE DEF n
  <2>3. n \in DOMAIN rows
    BY <2>2 DEF KeyedRows
  <2>4. rows[n].val \in S
    BY <2>3
  <2> HIDE DEF S
  <2> QED
    BY <2>4 DEF n, t, i, b
<1>2. Cube(w, nb, S)
  <2> SUFFICES ASSUME NEW u \in 1..NThreads, NEW j \in 1..Iterations
               PROVE  w[u][j] \in [1..nb -> S]
    BY DEF Cube, Columns, Column
  <2>1. w[u][j] = [c \in 1..nb |-> rows[at(u, j, c)].val]
    BY DEF ValuesOf
  <2>2. \A c \in 1..nb : rows[at(u, j, c)].val \in S
    BY <1>1
  <2> HIDE DEF w, S, at
  <2> QED
    BY <2>1, <2>2
<1>3. ASSUME NEW n \in DOMAIN rows
      PROVE  rows[n].val = w[rows[n].tid + 1][rows[n].itr + 1]
                             [rows[n].bid + 1]
  <2> DEFINE t == rows[n].tid
             i == rows[n].itr
             b == rows[n].bid
             k == KeyOf(n, nb)
  <2>1. n \in 1..N /\ t = k.tid /\ i = k.itr /\ b = k.bid
    BY DEF KeyedRows
  <2>2. /\ k.tid \in Tids /\ k.itr \in Reps /\ k.bid \in 0..(nb - 1)
        /\ OfDigits(n - 1, Iterations, nb, k.tid, k.itr, k.bid)
    BY <2>1, KeysAre
  <2> HIDE DEF t, i, b, k
  <2>3. /\ t \in Tids /\ i \in Reps /\ b \in 0..(nb - 1)
        /\ OfDigits(n - 1, Iterations, nb, t, i, b)
    BY <2>1, <2>2
  <2>4. /\ t + 1 \in 1..NThreads /\ i + 1 \in 1..Iterations
        /\ b + 1 \in 1..nb
        /\ (t + 1) - 1 = t /\ (i + 1) - 1 = i /\ (b + 1) - 1 = b
    BY <2>3, StatisticsAssumption DEF Tids, Reps
  <2>5. w[t + 1][i + 1][b + 1] = rows[at(t + 1, i + 1, b + 1)].val
    BY <2>4 DEF ValuesOf
  <2>6. at(t + 1, i + 1, b + 1) = n
    <3>1. n - 1 = (t * Iterations + i) * nb + b
      BY <2>3 DEF OfDigits
    <3>2. at(t + 1, i + 1, b + 1) = (t * Iterations + i) * nb + b + 1
      BY <2>4
    <3>3. n \in Int
      <4>1. N \in Nat
        BY KeysAre
      <4> HIDE DEF N
      <4> QED
        BY <2>1, <4>1
    <3> DEFINE a == (t * Iterations + i) * nb + b
    <3> HIDE DEF at
    <3>4. n - 1 = a /\ at(t + 1, i + 1, b + 1) = a + 1
      BY <3>1, <3>2
    <3> HIDE DEF a
    <3> QED
      BY <3>3, <3>4
  <2> HIDE DEF w, at
  <2> QED
    BY <2>5, <2>6 DEF t, i, b
<1> QED
  BY <1>2, <1>3

\* The whole of it is read: for each thread and repetition the values of all
\* regions, in their order (errorEstimate.py reads what RunBenchmarks.py
\* writes).
LEMMA TableRead ==
  ASSUME NEW nb \in Nat \ {0}, NEW rows, KeyedRows(rows, nb)
  PROVE  /\ ~ReadTable(rows).raised
         /\ ReadTable(rows).stats
              = [u \in 1..NThreads |->
                   RepsTaken(ValuesOf(rows, nb)[u], Iterations, nb, nb)]
<1> DEFINE N == NThreads * Iterations * nb
           w == ValuesOf(rows, nb)
           all == [u \in 1..NThreads |-> RepsTaken(w[u], Iterations, nb, nb)]
<1>1. N \in Nat /\ N # 0 /\ DOMAIN rows = 1..N
  <2>1. N \in Nat
    BY KeysAre
  <2>2. N # 0
    <3>1. 0 \in Tids /\ 0 \in Reps /\ 0 \in 0..(nb - 1)
      BY StatisticsAssumption DEF Tids, Reps
    <3>2. (0 * Iterations + 0) * nb + 0 + 1 \in 1..N
      BY <3>1, KeysAre
    <3> HIDE DEF N
    <3> QED
      BY <2>1, <3>2
  <2> QED
    BY <2>1, <2>2 DEF KeyedRows
<1>2. PICK S : Cube(w, nb, S)
  BY ValuesOfAre
<1>3. \A n \in DOMAIN rows :
        rows[n].val = w[rows[n].tid + 1][rows[n].itr + 1][rows[n].bid + 1]
  BY ValuesOfAre
<1>4. \A n \in 1..N :
        /\ rows[n].tid \in Tids /\ rows[n].itr \in Reps
        /\ rows[n].bid \in 0..(nb - 1)
        /\ OfDigits(n - 1, Iterations, nb, rows[n].tid, rows[n].itr,
                    rows[n].bid)
  BY KeysAre DEF KeyedRows
<1> HIDE DEF N, w
<1>5. PICK h : Takes(h, N, rows, NothingTaken)
  BY <1>1, TakeSteps
<1> DEFINE T == {j \in Nat : ~h[j].raised /\ h[j].stats = SoFar(w, j, nb)}
<1>6. 0 \in T
  BY <1>5 DEF Takes, NothingTaken, SoFar
<1>7. \A j \in 0..(N - 1) : j \in T => j + 1 \in T
  <2> SUFFICES ASSUME NEW j \in 0..(N - 1), j \in T
               PROVE  j + 1 \in T
    OBVIOUS
  <2> DEFINE n == j + 1
             row == rows[n]
             t == row.tid
             i == row.itr
             b == row.bid
  <2>1. /\ n \in 1..N /\ n \in DOMAIN rows /\ n - 1 = j /\ j \in Nat
        /\ n \in Nat \ {0} /\ j \in Int
    BY <1>1
  <2>2. /\ t \in Tids /\ i \in Reps /\ b \in 0..(nb - 1)
        /\ OfDigits(j, Iterations, nb, t, i, b)
    BY <1>4, <2>1
  <2>3. row.val = w[t + 1][i + 1][b + 1]
    BY <1>3, <2>1
  <2>4. h[n] = ReadRow(h[j], row)
    BY <1>5 DEF Takes
  <2>5. t = row.tid /\ i = row.itr /\ b = row.bid
    OBVIOUS
  <2>6. ~h[j].raised /\ h[j].stats = SoFar(w, j, nb)
    OBVIOUS
  <2> HIDE DEF n, row, t, i, b, T
  <2>7. SoFar(w, j, nb) = GridBefore(w, t, i, b, nb)
    BY <2>1, <2>2, SoFarBefore
  <2> DEFINE st == h[j]
  <2>8. ~st.raised /\ st.stats = GridBefore(w, t, i, b, nb)
    BY <2>6, <2>7
  <2> HIDE DEF st
  <2>9. /\ ~ReadRow(st, row).raised
        /\ ReadRow(st, row).stats = GridTaken(w, t, i, b, nb)
    BY <1>2, <2>2, <2>3, <2>5, <2>8, GridAdded
  <2>10. t \in Int /\ j + 1 = n
    BY <2>2 DEF Tids, n
  <2>11. SoFar(w, n, nb) = GridTaken(w, t, i, b, nb)
    BY <2>1, <2>2, <2>10, SoFarIs
  <2>12. ~h[n].raised /\ h[n].stats = SoFar(w, n, nb)
    BY <2>4, <2>9, <2>11 DEF st
  <2> QED
    BY <2>1, <2>12 DEF T, n
<1>8. ~h[N].raised /\ h[N].stats = SoFar(w, N, nb)
  <2> HIDE DEF T
  <2>1. \A j \in 0..N : j \in T
    BY <1>1, <1>6, <1>7, UpTo
  <2>2. N \in T
    BY <1>1, <2>1
  <2> QED
    BY <2>2 DEF T
<1>9. SoFar(w, N, nb) = all
  <2> DEFINE t == NThreads - 1
             i == Iterations - 1
             b == nb - 1
             m == N - 1
  <2>1. /\ t \in Int /\ i \in Reps /\ b \in 0..(nb - 1) /\ m \in Int
        /\ m + 1 = N /\ N \in Nat \ {0}
        /\ t + 1 = NThreads /\ i + 1 = Iterations /\ b + 1 = nb
    BY <1>1, StatisticsAssumption DEF Reps
  <2>2. OfDigits(m, Iterations, nb, t, i, b)
    <3>1. t * Iterations + i = NThreads * Iterations - 1
      BY StatisticsAssumption
    <3> DEFINE a == NThreads * Iterations
    <3>2. a \in Int /\ N = a * nb
      BY StatisticsAssumption DEF N
    <3> HIDE DEF a
    <3>3. (a - 1) * nb + (nb - 1) = a * nb - 1
      BY <3>2
    <3>4. t * Iterations + i = a - 1
      BY <3>1 DEF a
    <3> HIDE DEF t, i
    <3> QED
      BY <3>2, <3>3, <3>4 DEF OfDigits
  <2> HIDE DEF t, i, b, m
  <2>3. SoFar(w, N, nb) = GridTaken(w, t, i, b, nb)
    BY <2>1, <2>2, SoFarIs
  <2>4. GridTaken(w, t, i, b, nb) = all
    BY <2>1 DEF GridTaken
  <2> QED
    BY <2>3, <2>4
<1>10. ReadTable(rows) = h[N]
  <2>1. rows # <<>>
    <3>1. DOMAIN rows # {} /\ DOMAIN <<>> = {}
      BY <1>1
    <3> QED
      BY <3>1
  <2> QED
    BY <1>5, <2>1 DEF Takes, ReadTable, AllTaken, NothingTaken
<1> QED
  BY <1>8, <1>9, <1>10 DEF w

\* A barrier point that the table has a region for is taken, for each thread
\* and repetition, and nothing raises (errorEstimate.py:161-176).
LEMMA PointTaken ==
  ASSUME NEW nb \in Nat \ {0}, NEW rows, KeyedRows(rows, nb),
         NEW bp \in 1..(nb - 1), NEW all, Len(all) = NThreads
  PROVE  /\ ~PlotRaises(all, ReadTable(rows).stats, bp)
         /\ \A t \in Tids :
              EstMetric(ReadTable(rows).stats, t, bp)
                = [j \in 1..Iterations |->
                     ValuesOf(rows, nb)[t + 1][j][bp + 1]]
<1> DEFINE w == ValuesOf(rows, nb)
           stats == ReadTable(rows).stats
<1>1. stats = [u \in 1..NThreads |-> RepsTaken(w[u], Iterations, nb, nb)]
  BY TableRead
<1>2. PICK S : Cube(w, nb, S)
  BY ValuesOfAre
<1> HIDE DEF w, stats
<1>3. /\ Iterations \in Nat /\ NThreads \in Nat /\ 1 \in 1..Iterations
      /\ Iterations \in 0..Iterations
      /\ nb \in 0..nb /\ nb \in Nat /\ bp \in Nat /\ bp < nb
      /\ bp + 1 \in 1..nb
  BY StatisticsAssumption
<1>4. Len(stats) = NThreads
  <2> DEFINE f == [u \in 1..NThreads |-> RepsTaken(w[u], Iterations, nb, nb)]
             L == {f[u] : u \in 1..NThreads}
  <2>1. f \in [1..NThreads -> L]
    OBVIOUS
  <2> HIDE DEF f, L
  <2>2. Len(f) = NThreads
    BY <1>3, <2>1, ListIs
  <2> QED
    BY <1>1, <2>2 DEF f
<1>5. ASSUME NEW t \in Tids
      PROVE  /\ stats[t + 1] = RepsTaken(w[t + 1], Iterations, nb, nb)
             /\ DOMAIN stats[t + 1] = 1..Iterations
             /\ \A j \in 1..Iterations :
                  /\ Len(stats[t + 1][j]) = nb
                  /\ stats[t + 1][j][bp + 1] = w[t + 1][j][bp + 1]
  <2>1. t + 1 \in 1..NThreads
    BY StatisticsAssumption DEF Tids
  <2> DEFINE v == w[t + 1]
  <2>2. stats[t + 1] = RepsTaken(v, Iterations, nb, nb)
    BY <1>1, <2>1
  <2>3. Columns(v, Iterations, nb, S)
    BY <1>2, <2>1 DEF Cube
  <2> HIDE DEF v
  <2>4. ASSUME NEW j \in 1..Iterations
        PROVE  /\ Len(stats[t + 1][j]) = nb
               /\ stats[t + 1][j][bp + 1] = v[j][bp + 1]
    <3> DEFINE c == v[j]
    <3>1. stats[t + 1][j] = ValuesTaken(c, nb)
      BY <2>2 DEF RepsTaken
    <3>2. Column(c, nb, S)
      BY <2>3 DEF Columns
    <3> HIDE DEF c
    <3>3. Listed(ValuesTaken(c, nb), S, nb)
      BY <1>3, <3>2, TakenIs
    <3>4. ValuesTaken(c, nb)[bp + 1] = c[bp + 1]
      BY <1>3 DEF ValuesTaken
    <3> QED
      BY <3>1, <3>3, <3>4 DEF Listed, c
  <2>5. DOMAIN stats[t + 1] = 1..Iterations
    BY <2>2 DEF RepsTaken
  <2> QED
    BY <2>2, <2>4, <2>5 DEF v
<1>6. ASSUME NEW t \in Tids
      PROVE  ~Dropped(bp, Len(stats[t + 1][1]))
  <2>1. Len(stats[t + 1][1]) = nb
    BY <1>3, <1>5
  <2> QED
    BY <1>3, <2>1 DEF Dropped
<1>7. ASSUME NEW t \in Tids
      PROVE  ~EstMetricRaises(stats, t, bp)
  <2>1. ~(t >= Len(stats))
    BY <1>3, <1>4 DEF Tids
  <2>2. \A i \in DOMAIN stats[t + 1] : ~(bp >= Len(stats[t + 1][i]))
    BY <1>3, <1>5
  <2> QED
    BY <2>1, <2>2 DEF EstMetricRaises
<1>8. ~PlotRaises(all, stats, bp)
  BY <1>7 DEF PlotRaises, Tids
<1>9. ASSUME NEW t \in Tids
      PROVE  EstMetric(stats, t, bp)
               = [j \in 1..Iterations |-> w[t + 1][j][bp + 1]]
  <2>1. EstMetric(stats, t, bp)
          = [j \in 1..Iterations |-> stats[t + 1][j][bp + 1]]
    BY <1>5, <1>6 DEF EstMetric
  <2> QED
    BY <1>5, <2>1
<1> QED
  BY <1>8, <1>9 DEF w, stats
=============================================================================
