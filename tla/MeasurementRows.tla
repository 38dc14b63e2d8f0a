-------------------------- MODULE MeasurementRows ---------------------------
(***************************************************************************)
(* What the tables of RunBenchmarks.py and the estimate made from them say *)
(* of the program, for any programs, any number of threads, of             *)
(* repetitions, of invocations and of failures: a row is about the thread, *)
(* repetition and region it names; the regions have the client's numbers;  *)
(* the phases of a thread cover what it does as a whole; every average is  *)
(* complete; and an estimate takes the regions it should.                  *)
(*                                                                         *)
(* The invariants follow the data. Where the threads are in the program    *)
(* tells what the library has counted (ExactInv): the phase a counter is   *)
(* in, and that event_values_pbarrier has the ones before; the output of a *)
(* process is made of that (Printed). The files have the output of one     *)
(* invocation, in the order in which the script runs the programs          *)
(* (FilesInv). From such files a table is either not finished or has a row *)
(* for each thread, repetition and region with the values of just these    *)
(* (RowsInv). The client has counted the same points when the region of    *)
(* interest ends (NumberedInv), and the estimate is made from the tables   *)
(* as they are (EstimateInv). MeasuredInv is all of it but the last.       *)
(*                                                                         *)
(* A thread that has not met a barrier which the master has met, because   *)
(* it was in no team of all threads, prints fewer phases than there are.   *)
(* Then the table of mode 1 is not finished (RecordTrue, RegionsTrue).     *)
(***************************************************************************)
EXTENDS MeasurementProofs

----------------------------------------------------------------------------
(* What the program does, as the counters should see it.                   *)

\* The program is in a parallel region of all threads when it comes to
\* operation i.
InTeam(x, i) ==
  \E j \in 1..(i - 1) :
    x[j] = "par" /\ \A n \in j..(i - 1) : x[n] # "join"

\* The thread does what lies before operation i, in the region of interest.
Does(x, t, i) == SetTo(x, i) = "1" /\ (t = Master \/ InTeam(x, i))

\* The stretches it has done before operation p.
Work(x, t, p) ==
  {Passed(x, i) : i \in {n \in DOMAIN x : n < p /\ Does(x, t, n)}}

\* All of what the thread does, and how many points there are.
AllWork(x, t) == Work(x, t, Len(x) + 1)
PointCount(x) == Cardinality(PointsOf(x))

\* The thread has met every explicit barrier before operation p.  A parallel
\* region is counted by all threads, an explicit barrier only by those that
\* meet it.
AllCounted(x, t, p) ==
  \A i \in PointsOf(x) :
    i < p /\ x[i] = "bar" => t = Master \/ InTeam(x, i)
Full(x, t) == AllCounted(x, t, Len(x) + 1)

HasRoi(x) == SetOn(x, Len(x) + 1) /\ SetOff(x, Len(x) + 1)

\* What phase k of thread t is given out as.
PhaseWork(x, t, k) ==
  IF k >= MaxPhases /\ k < PointCount(x) THEN Garbage
  ELSE AllWork(x, t) \cap {k}

\* The output of a thread that has come to the end of the region of
\* interest.
Printed(x, t, region, lines) ==
  /\ HasRoi(x)
  /\ IF region
     THEN /\ \A n \in DOMAIN lines : lines[n].bid = n - 1
          /\ IF Full(x, t)
             THEN /\ Len(lines) = PointCount(x) + 1
                  /\ \A n \in DOMAIN lines :
                       lines[n].work = PhaseWork(x, t, n - 1)
             ELSE Len(lines) <= PointCount(x)
     ELSE /\ Len(lines) = 1
          /\ lines[1].bid = 0 /\ lines[1].work = AllWork(x, t)

----------------------------------------------------------------------------
(* The counted program.                                                    *)

TeamInv ==
  IF InTeam(text, at[Master]) THEN team = Threads ELSE team \in {{}, {Master}}

\* What is counted of thread t, when it has come to operation p: c phases, w
\* in its counters, b in event_values_pbarrier.
RegionCounted(x, t, p, c, w, b) ==
  /\ c = Passed(x, p)
  /\ w = Work(x, t, p) \cap {c}
  /\ Len(b) = IF c < MaxPhases THEN c ELSE MaxPhases
  /\ \A k \in 1..Len(b) : b[k] = Work(x, t, p) \cap {k - 1}

Counted(x, region, t, p, c, w, b) ==
  IF region
  THEN IF AllCounted(x, t, p) THEN RegionCounted(x, t, p, c, w, b)
       ELSE c < Passed(x, p)
  ELSE c = 0 /\ w = Work(x, t, p)

Counts(t) ==
  Counted(text, per_region, t, Here(t), count[t], counters[t], pbarrier[t])

ExactRunning ==
  /\ started <=> SetTo(text, Here(Master)) = "1"
  /\ \A t \in Threads : running[t] = started
  /\ started => \A t \in Threads : Counts(t)
  /\ SetTo(text, Here(Master)) # "0" => \A t \in Threads : outfile[t] = <<>>

OutfilesTrue ==
  \A t \in Threads :
    outfile[t] = <<>> \/ Printed(text, t, per_region, outfile[t])

\* The counted program, running or at its end ...
ExactProgram ==
  /\ TeamInv
  /\ exit_status = "running" => ExactRunning
  /\ OutfilesTrue

\* ... which each process begins anew.
ExactInv ==
  /\ ExactProgram
  /\ IF stage = "program" THEN per_region = (barriers = 1)
     ELSE /\ exit_status = "running" /\ ~started
          /\ \A t \in Threads : outfile[t] = <<>>

----------------------------------------------------------------------------
(* The files.                                                              *)

\* What a record of thread t in mode m says.
RecordTrue(x, m, t, rec) ==
  /\ HasRoi(x)
  /\ IF m = 1
     THEN IF Full(x, t)
          THEN rec.bid <= PointCount(x) /\ rec.work = PhaseWork(x, t, rec.bid)
          ELSE rec.bid < PointCount(x)
     ELSE rec.bid = 0 /\ rec.work = AllWork(x, t)

\* The records of one thread and repetition.
ThreadTrue(x, m, i, t, file) ==
  /\ OrderedFile(file, t, i)
  /\ \A n \in DOMAIN file[t] : RecordTrue(x, m, t, file[t][n])
  /\ m = 1 /\ t = Master /\ file[t] # <<>> =>
       \E n \in DOMAIN file[t] : file[t][n].bid = PointCount(x)

\* The file of one repetition.
FileTrue(x, m, i, file) == \A t \in Tids : ThreadTrue(x, m, i, t, file)

\* All files of a mode are of one invocation.
OfRun(files, r) ==
  \A i \in Reps : \A t \in Tids : \A n \in DOMAIN files[i][t] :
    files[i][t][n].run = r

\* The loops of the script.
Scripted(files) ==
  /\ OfRun(files, run)
  /\ \A i \in Reps : i > rep => \A t \in Tids : files[i][t] = <<>>
  /\ \A t \in Tids : \A n \in DOMAIN files[rep][t] :
       files[rep][t][n].round < round

FilesInv ==
  /\ \A m \in Modes : \A i \in Reps : FileTrue(text, m, i, papi[m][i])
  /\ \A m \in Modes : \E r \in 0..run : OfRun(papi[m], r)
  /\ stage \in {"launch", "program"} => Scripted(papi[barriers])

----------------------------------------------------------------------------
(* The tables.                                                             *)

\* How many regions the table of mode m has.
TableRegions(x, m) == IF m = 1 THEN PointCount(x) + 1 ELSE 1

\* What it has for a region.
TableWork(x, m, t, b) == IF m = 1 THEN PhaseWork(x, t, b) ELSE AllWork(x, t)

\* The columns of a row.
ValuesTrue(x, p, m, row, r) ==
  /\ DOMAIN row.val = Stats(p)
  /\ \A s \in Stats(p) :
       /\ row.val[s].run = r
       /\ row.val[s].work = TableWork(x, m, row.tid, row.bid)
       /\ s # "TOT_INS" =>
            row.val[s].rep = row.itr /\ row.val[s].round = RoundOf(p, s)

RowsAre(x, p, m, rows, r) ==
  LET nb == TableRegions(x, m)
  IN  /\ HasRoi(x)
      /\ DOMAIN rows = 1..(NThreads * Iterations * nb)
      /\ \A n \in DOMAIN rows :
           /\ [tid |-> rows[n].tid, itr |-> rows[n].itr, bid |-> rows[n].bid]
                = KeyOf(n, nb)
           /\ ValuesTrue(x, p, m, rows[n], r)

\* What AveragesComplete says of a table.
AveragesAre(p, avg) ==
  \A k \in DOMAIN avg : \A s \in Stats(p) :
    /\ DOMAIN avg[k][s] = 1..Len(avg[k][s])
    /\ IF s = "TOT_INS" THEN OnePerExecution(p, avg[k][s])
       ELSE OnePerRep(p, avg[k][s], s)

TableTrue(x, p, m, table, last) ==
  /\ AveragesAre(p, table.avg)
  /\ table.finished => table.run > 0
  /\ table.finished /\ table.rows # <<>> =>
       p \in Supported /\ \E r \in 0..last : RowsAre(x, p, m, table.rows, r)

RowsInv == \A m \in Modes : TableTrue(text, platform, m, csv[m], run)

\* When the master has left the region of interest, the client has counted
\* its points and the stretch before the first.
DrNumbered ==
  SetOn(text, at[Master]) /\ SetTo(text, at[Master]) = "0"
    => synch_count = PointCount(text) + 1

NumberedInv ==
  IF stage = "identify" THEN DrNumbered /\ \A m \in Modes : ~csv[m].finished
  ELSE HasRoi(text) => regions = PointCount(text) + 1

\* What is taken for barrier point bp of an estimate.
PointTrue(x, p, t, i, bp, values) ==
  \A s \in Stats(p) :
    /\ values[s].work = TableWork(x, 1, t, bp)
    /\ s # "TOT_INS" => values[s].rep = i /\ values[s].round = RoundOf(p, s)

EstimateTrue(x, p, e) ==
  /\ e.result = "plotted" /\ Len(e.taken) = NThreads
  /\ \A t \in Tids :
       /\ Len(e.taken[t + 1]) = Iterations
       /\ \A i \in Reps :
            PointTrue(x, p, t, i, e.bp, e.taken[t + 1][i + 1])

\* The estimate is made from the tables as they are.
EstimateInv ==
  IF stage = "idle"
  THEN Measured(0) /\ Measured(1) /\ estimate.result # "none" =>
         EstimateTrue(text, platform, estimate)
  ELSE estimate.result = "none"

----------------------------------------------------------------------------
(* What changes from one operation to the next.                            *)

\* A parallel region of all threads begins with "par" and ends with "join".
TeamFact(x) ==
  /\ ~InTeam(x, 1)
  /\ \A i \in 1..Len(x) :
       InTeam(x, i + 1) <=> x[i] = "par" \/ (InTeam(x, i) /\ x[i] # "join")

\* Operation by operation.
LEMMA TeamFacts ==
  ASSUME NEW x \in Seq(Operations)
  PROVE  TeamFact(x)
<1>1. ~InTeam(x, 1)
  BY DEF InTeam
<1>2. ASSUME NEW i \in 1..Len(x)
      PROVE  InTeam(x, i + 1)
               <=> x[i] = "par" \/ (InTeam(x, i) /\ x[i] # "join")
  <2>1. i \in Nat /\ (i + 1) - 1 = i /\ i \in 1..i
    OBVIOUS
  <2>2. ASSUME InTeam(x, i + 1), x[i] # "par"
        PROVE  InTeam(x, i) /\ x[i] # "join"
    <3>1. PICK j \in 1..i : x[j] = "par" /\ \A n \in j..i : x[n] # "join"
      BY <2>1, <2>2 DEF InTeam
    <3>2. j \in 1..(i - 1) /\ i \in j..i
      BY <2>1, <2>2, <3>1
    <3>3. \A n \in j..(i - 1) : n \in j..i
      BY <2>1
    <3> QED
      BY <3>1, <3>2, <3>3 DEF InTeam
  <2>3. ASSUME x[i] = "par"
        PROVE  InTeam(x, i + 1)
    <3>1. \A n \in i..i : n = i
      OBVIOUS
    <3> QED
      BY <2>1, <2>3, <3>1 DEF InTeam
  <2>4. ASSUME InTeam(x, i), x[i] # "join"
        PROVE  InTeam(x, i + 1)
    <3>1. PICK j \in 1..(i - 1) :
            x[j] = "par" /\ \A n \in j..(i - 1) : x[n] # "join"
      BY <2>4 DEF InTeam
    <3>2. j \in 1..i /\ \A n \in j..i : n \in j..(i - 1) \/ n = i
      BY <2>1
    <3> QED
      BY <2>1, <2>4, <3>1, <3>2 DEF InTeam
  <2> QED
    BY <2>2, <2>3, <2>4
<1> QED
  BY <1>1, <1>2 DEF TeamFact

\* The environment never goes back.
LEMMA SetToBefore ==
  ASSUME NEW x \in Seq(Operations), NEW i \in Int, NEW j \in Int, i <= j
  PROVE  /\ SetTo(x, j) = "unset" => SetTo(x, i) = "unset"
         /\ SetTo(x, i) = "0" => SetTo(x, j) = "0"
<1>1. SetOn(x, i) => SetOn(x, j)
  BY DEF SetOn
<1>2. SetOff(x, i) => SetOff(x, j)
  BY DEF SetOff
<1> QED
  BY <1>1, <1>2 DEF SetTo

\* More points are passed further on.
LEMMA PassedBefore ==
  ASSUME NEW x \in Seq(Operations), NEW i \in Int, NEW j \in Int, i <= j
  PROVE  /\ Passed(x, i) \in Nat /\ Passed(x, j) \in Nat
         /\ Passed(x, i) <= Passed(x, j)
<1> DEFINE A == {n \in PointsOf(x) : n < i}
           B == {n \in PointsOf(x) : n < j}
<1>2. /\ Len(x) \in Nat /\ DOMAIN x = 1..Len(x)
      /\ B \subseteq 1..Len(x) /\ PointsOf(x) \subseteq 1..Len(x)
  BY DEF PointsOf
<1>1. A \subseteq B
  BY <1>2
<1>3. IsFiniteSet(1..Len(x))
  <2>1. Len(x) \in Int /\ 1 \in Int
    BY <1>2
  <2> QED
    BY <2>1, FS_Interval
<1> HIDE DEF A, B
<1>4. IsFiniteSet(B)
  BY <1>2, <1>3, FS_Subset
<1>5. IsFiniteSet(A) /\ Cardinality(A) <= Cardinality(B)
  BY <1>1, <1>4, FS_Subset
<1>6. Cardinality(A) \in Nat /\ Cardinality(B) \in Nat
  BY <1>4, <1>5, FS_CardinalityType
<1> QED
  BY <1>5, <1>6 DEF Passed, A, B

\* What a thread does, operation by operation.
WorkFact(x, t) ==
  /\ \A p \in 1..(Len(x) + 1) :
       /\ Work(x, t, p) \subseteq 0..Passed(x, p)
       /\ SetTo(x, p) = "unset" =>
            Work(x, t, p) = {} /\ Passed(x, p) = 0 /\ AllCounted(x, t, p)
  /\ \A i \in 1..Len(x) :
       /\ Does(x, t, i) =>
            Work(x, t, i + 1) = Work(x, t, i) \cup {Passed(x, i)}
       /\ ~Does(x, t, i) => Work(x, t, i + 1) = Work(x, t, i)
       /\ AllCounted(x, t, i + 1)
            <=> /\ AllCounted(x, t, i)
                /\ Point(x, i) /\ x[i] = "bar" => t = Master \/ InTeam(x, i)

\* A stretch has the number of the points before it.
LEMMA WorkFacts ==
  ASSUME NEW x \in Seq(Operations), OneRoi(x), NEW t
  PROVE  WorkFact(x, t)
<1>1. /\ DOMAIN x = 1..Len(x) /\ Len(x) \in Nat
      /\ SetFact(x) /\ PassedFact(x)
  BY SetFacts, PassedFacts
<1>2. ASSUME NEW p \in 1..(Len(x) + 1)
      PROVE  Work(x, t, p) \subseteq 0..Passed(x, p)
  <2> SUFFICES ASSUME NEW n \in 1..Len(x), n < p
               PROVE  Passed(x, n) \in 0..Passed(x, p)
    BY <1>1 DEF Work
  <2>1. n \in Int /\ p \in Int /\ n <= p
    OBVIOUS
  <2>2. /\ Passed(x, n) \in Nat /\ Passed(x, p) \in Nat
        /\ Passed(x, n) <= Passed(x, p)
    BY <2>1, PassedBefore
  <2> QED
    BY <2>2
<1>3. ASSUME NEW p \in 1..(Len(x) + 1), SetTo(x, p) = "unset"
      PROVE  Work(x, t, p) = {} /\ Passed(x, p) = 0 /\ AllCounted(x, t, p)
  <2>1. ASSUME NEW n \in 1..Len(x), n < p
        PROVE  SetTo(x, n) # "1"
    <3>1. n \in Int /\ p \in Int /\ n <= p
      BY <2>1
    <3>2. SetTo(x, n) = "unset"
      BY <1>3, <3>1, SetToBefore
    <3> QED
      BY <3>2
  <2>2. Work(x, t, p) = {}
    BY <1>1, <2>1 DEF Work, Does
  <2>3. ~SetOn(x, p)
    BY <1>3 DEF SetTo
  <2>4. Passed(x, p) = 0
    BY <1>1, <2>3 DEF PassedFact
  <2>5. AllCounted(x, t, p)
    BY <1>1, <2>1 DEF AllCounted, PointsOf
  <2> QED
    BY <2>2, <2>4, <2>5
<1>4. ASSUME NEW i \in 1..Len(x)
      PROVE  /\ Does(x, t, i) =>
                  Work(x, t, i + 1) = Work(x, t, i) \cup {Passed(x, i)}
             /\ ~Does(x, t, i) => Work(x, t, i + 1) = Work(x, t, i)
  <2> DEFINE A == {n \in DOMAIN x : n < i /\ Does(x, t, n)}
             B == {n \in DOMAIN x : n < i + 1 /\ Does(x, t, n)}
  <2>1. i \in DOMAIN x /\ \A n \in DOMAIN x : n < i + 1 <=> n < i \/ n = i
    BY <1>1
  <2>2. Does(x, t, i) => B = A \cup {i}
    BY <2>1
  <2>3. ~Does(x, t, i) => B = A
    BY <2>1
  <2>4. /\ Work(x, t, i) = {Passed(x, n) : n \in A}
        /\ Work(x, t, i + 1) = {Passed(x, n) : n \in B}
    BY DEF Work
  <2> HIDE DEF A, B
  <2> QED
    BY <2>2, <2>3, <2>4
<1>5. ASSUME NEW i \in 1..Len(x)
      PROVE  AllCounted(x, t, i + 1)
               <=> /\ AllCounted(x, t, i)
                   /\ Point(x, i) /\ x[i] = "bar" => t = Master \/ InTeam(x, i)
  <2>1. PointsOf(x) \subseteq 1..Len(x)
    BY <1>1 DEF PointsOf
  <2>2. /\ i \in PointsOf(x) <=> Point(x, i)
        /\ \A n \in PointsOf(x) : n < i + 1 <=> n < i \/ n = i
    BY <1>1, <2>1 DEF PointsOf, Point
  <2> QED
    BY <2>1, <2>2 DEF AllCounted
<1> QED
  BY <1>2, <1>3, <1>4, <1>5 DEF WorkFact

\* At the end of the region of interest all is done and counted.
LEMMA WorkEnds ==
  ASSUME NEW x \in Seq(Operations), OneRoi(x), NEW t, NEW i \in 1..Len(x),
         x[i] = "off", SetTo(x, i) = "1"
  PROVE  /\ HasRoi(x)
         /\ AllWork(x, t) = Work(x, t, i + 1)
         /\ PointCount(x) = Passed(x, i)
         /\ Full(x, t) <=> AllCounted(x, t, i)
<1>1. /\ DOMAIN x = 1..Len(x) /\ Len(x) \in Nat /\ SetFact(x)
  BY SetFacts
<1>2. ASSUME NEW n \in 1..Len(x), SetTo(x, n) = "1"
      PROVE  n < i + 1
  <2>1. SetTo(x, i + 1) = "0"
    BY <1>1 DEF SetFact
  <2>2. ~(n >= i + 1)
    <3> SUFFICES ASSUME n >= i + 1
                 PROVE  FALSE
      OBVIOUS
    <3>1. i + 1 \in Int /\ n \in Int /\ i + 1 <= n
      OBVIOUS
    <3>2. SetTo(x, n) = "0"
      BY <2>1, <3>1, SetToBefore
    <3> QED
      BY <1>2, <3>2
  <2> QED
    BY <2>2
<1>3. HasRoi(x)
  <2>1. SetOn(x, i)
    BY <1>1 DEF SetFact
  <2>2. SetOn(x, Len(x) + 1)
    BY <1>1, <2>1 DEF SetOn
  <2>3. SetOff(x, Len(x) + 1)
    BY <1>1 DEF SetOff
  <2> QED
    BY <2>2, <2>3 DEF HasRoi
<1>4. AllWork(x, t) = Work(x, t, i + 1)
  <2>1. {n \in DOMAIN x : n < Len(x) + 1 /\ Does(x, t, n)}
          = {n \in DOMAIN x : n < i + 1 /\ Does(x, t, n)}
    BY <1>1, <1>2 DEF Does
  <2> QED
    BY <2>1 DEF AllWork, Work
<1>5. ASSUME NEW n \in PointsOf(x)
      PROVE  n < i /\ n < Len(x) + 1
  <2>1. n \in 1..Len(x) /\ SetTo(x, n) = "1" /\ n # i
    BY <1>1 DEF PointsOf
  <2> QED
    BY <1>1, <1>2, <2>1
<1>6. PointCount(x) = Passed(x, i)
  <2>1. PointsOf(x) = {n \in PointsOf(x) : n < i}
    BY <1>5
  <2> QED
    BY <2>1 DEF PointCount, Passed
<1>7. Full(x, t) <=> AllCounted(x, t, i)
  BY <1>5 DEF Full, AllCounted
<1> QED
  BY <1>3, <1>4, <1>6, <1>7

\* The same in Measurement's words (the stretches of Runs).
LEMMA RunsAre ==
  ASSUME PlacesInv, NEW t
  PROVE  Runs(t) = AllWork(text, t) /\ LastPhase = PointCount(text)
<1> DEFINE inRoi(i) == /\ \E j \in 1..(i - 1) : text[j] = "on"
                       /\ \A j \in 1..(i - 1) : text[j] # "off"
<1>1. DOMAIN text = 1..Len(text) /\ Len(text) \in Nat
  BY Executing
<1>2. ASSUME NEW i \in DOMAIN text
      PROVE  inRoi(i) <=> SetTo(text, i) = "1"
  <2>1. \A j : j \in 1..(i - 1) <=> j \in DOMAIN text /\ j < i
    BY <1>1
  <2> QED
    BY <2>1 DEF SetTo, SetOn, SetOff
<1>3. {n \in DOMAIN text : inRoi(n) /\ (t = Master \/ InTeam(text, n))}
        = {n \in DOMAIN text : n < Len(text) + 1 /\ Does(text, t, n)}
  BY <1>1, <1>2 DEF Does
<1>4. Runs(t) = {Stretch(i) : i \in {n \in DOMAIN text :
                   inRoi(n) /\ (t = Master \/ InTeam(text, n))}}
  BY DEF Runs, InTeam
<1>5. Runs(t) = {Passed(text, i) : i \in {n \in DOMAIN text :
                   inRoi(n) /\ (t = Master \/ InTeam(text, n))}}
  BY <1>4, PointsAre
<1> QED
  BY <1>3, <1>5, PointsAre DEF AllWork, Work, LastPhase, PointCount

----------------------------------------------------------------------------
(* What is counted of one thread, from one operation to the next.          *)

\* What the thread's counters hold when it has come to operation i.
RanAt(x, t, i, w) == IF Does(x, t, i) THEN w \cup {Passed(x, i)} ELSE w

\* An operation at which no phase ends: the counters go on.
LEMMA CountedRun ==
  ASSUME NEW x \in Seq(Operations), OneRoi(x), NEW t, NEW i \in 1..Len(x),
         NEW region \in BOOLEAN, NEW c \in Nat, NEW w, NEW b,
         Counted(x, region, t, i, c, w, b), region => ~Point(x, i)
  PROVE  Counted(x, region, t, i + 1, c, RanAt(x, t, i, w), b)
<1> DEFINE W == Work(x, t, i)
           V == Work(x, t, i + 1)
<1>1. WorkFact(x, t) /\ PassedFact(x) /\ Len(x) \in Nat
  BY WorkFacts, PassedFacts
<1>2. /\ i \in 1..(Len(x) + 1) /\ i + 1 \in 1..(Len(x) + 1)
      /\ Passed(x, i) \in Nat
  BY <1>1 DEF PassedFact
<1>3. /\ Does(x, t, i) => V = W \cup {Passed(x, i)}
      /\ ~Does(x, t, i) => V = W
  BY <1>1 DEF WorkFact
<1>4. CASE ~region
  <2>1. c = 0 /\ w = W
    BY <1>4 DEF Counted
  <2> HIDE DEF W, V
  <2>2. RanAt(x, t, i, w) = V
    BY <1>3, <2>1 DEF RanAt
  <2> QED
    BY <1>4, <2>1, <2>2 DEF Counted, V
<1>5. CASE region
  <2>1. Passed(x, i + 1) = Passed(x, i)
    BY <1>1, <1>5 DEF PassedFact
  <2>2. AllCounted(x, t, i + 1) <=> AllCounted(x, t, i)
    BY <1>1, <1>5 DEF WorkFact
  <2>3. CASE ~AllCounted(x, t, i)
    BY <1>5, <2>1, <2>2, <2>3 DEF Counted
  <2>4. CASE AllCounted(x, t, i)
    <3>1. /\ c = Passed(x, i) /\ w = W \cap {c}
          /\ Len(b) = IF c < MaxPhases THEN c ELSE MaxPhases
          /\ \A k \in 1..Len(b) : b[k] = W \cap {k - 1}
      BY <1>5, <2>4 DEF Counted, RegionCounted
    <3> HIDE DEF W, V
    <3>2. RanAt(x, t, i, w) = V \cap {c}
      BY <1>3, <3>1 DEF RanAt
    <3>3. ASSUME NEW k \in 1..Len(b)
          PROVE  b[k] = V \cap {k - 1}
      <4>1. k - 1 # c
        BY <3>1, PhasesAssumption
      <4>2. W \cap {k - 1} = V \cap {k - 1}
        BY <1>3, <3>1, <4>1
      <4> QED
        BY <3>1, <4>2
    <3> QED
      BY <1>5, <2>1, <2>2, <2>4, <3>1, <3>2, <3>3
         DEF Counted, RegionCounted, V
  <2> QED
    BY <2>3, <2>4
<1> QED
  BY <1>4, <1>5

\* A point that the thread stores a phase at (omp_counters.h:219-276).
LEMMA CountedStore ==
  ASSUME NEW x \in Seq(Operations), OneRoi(x), NEW t, NEW i \in 1..Len(x),
         NEW c \in Nat, NEW w \in SUBSET Int, NEW b \in Seq(SUBSET Int),
         Counted(x, TRUE, t, i, c, w, b), Point(x, i),
         x[i] = "bar" => t = Master \/ InTeam(x, i)
  PROVE  Counted(x, TRUE, t, i + 1, c + 1, {},
                 IF c < MaxPhases THEN Append(b, RanAt(x, t, i, w)) ELSE b)
<1> DEFINE W == Work(x, t, i)
           V == Work(x, t, i + 1)
           ran == RanAt(x, t, i, w)
           b2 == IF c < MaxPhases THEN Append(b, ran) ELSE b
<1>1. WorkFact(x, t) /\ PassedFact(x) /\ Len(x) \in Nat
  BY WorkFacts, PassedFacts
<1>2. /\ i \in 1..(Len(x) + 1) /\ i + 1 \in 1..(Len(x) + 1)
      /\ Passed(x, i) \in Nat /\ W \subseteq 0..Passed(x, i)
      /\ Passed(x, i + 1) = Passed(x, i) + 1
  BY <1>1 DEF PassedFact, WorkFact
<1>3. /\ Does(x, t, i) => V = W \cup {Passed(x, i)}
      /\ ~Does(x, t, i) => V = W
  BY <1>1 DEF WorkFact
<1>4. AllCounted(x, t, i + 1) <=> AllCounted(x, t, i)
  BY <1>1 DEF WorkFact
<1>5. CASE ~AllCounted(x, t, i)
  BY <1>2, <1>4, <1>5 DEF Counted
<1>6. CASE AllCounted(x, t, i)
  <2>1. /\ c = Passed(x, i) /\ w = W \cap {c}
        /\ Len(b) = IF c < MaxPhases THEN c ELSE MaxPhases
        /\ \A k \in 1..Len(b) : b[k] = W \cap {k - 1}
    BY <1>6 DEF Counted, RegionCounted
  <2> HIDE DEF W, V
  <2>2. ran = V \cap {c}
    BY <1>3, <2>1 DEF RanAt
  <2>3. V \subseteq 0..c
    <3>1. W \subseteq 0..c /\ Passed(x, i) = c /\ c \in 0..c
      <4>1. W \subseteq 0..Passed(x, i)
        BY <1>2
      <4> QED
        BY <2>1, <4>1
    <3>2. V \subseteq W \cup {c}
      BY <1>3, <3>1
    <3> QED
      BY <3>1, <3>2
  <2>4. V \cap {c + 1} = {}
    BY <2>3
  <2>5. ran \in SUBSET Int
    BY <2>2, <2>3
  <2> HIDE DEF ran
  <2>6. ASSUME NEW k \in 1..Len(b)
        PROVE  b[k] = V \cap {k - 1}
    <3>1. k - 1 # c
      BY <2>1, PhasesAssumption
    <3>2. W \cap {k - 1} = V \cap {k - 1}
      BY <1>3, <2>1, <3>1
    <3> QED
      BY <2>1, <3>2
  <2>7. /\ Len(b2) = IF c + 1 < MaxPhases THEN c + 1 ELSE MaxPhases
        /\ \A k \in 1..Len(b2) : b2[k] = V \cap {k - 1}
    <3>1. CASE c < MaxPhases
      <4>1. /\ Len(b2) = c + 1 /\ b2[c + 1] = ran
            /\ \A k \in 1..Len(b) : b2[k] = b[k]
        BY <2>1, <2>5, <3>1
      <4>2. \A k \in 1..(c + 1) : k \in 1..Len(b) \/ k = c + 1
        BY <2>1, <3>1
      <4> HIDE DEF b2
      <4>3. ASSUME NEW k \in 1..(c + 1)
            PROVE  b2[k] = V \cap {k - 1}
        <5>1. CASE k \in 1..Len(b)
          BY <2>6, <4>1, <5>1
        <5>2. CASE k = c + 1
          BY <2>2, <4>1, <5>2
        <5> QED
          BY <4>2, <5>1, <5>2
      <4> QED
        BY <3>1, <4>1, <4>3, PhasesAssumption
    <3>2. CASE ~(c < MaxPhases)
      BY <2>1, <2>6, <3>2, PhasesAssumption
    <3> QED
      BY <3>1, <3>2
  <2> HIDE DEF b2
  <2>8. RegionCounted(x, t, i + 1, c + 1, {}, b2)
    BY <1>2, <2>1, <2>4, <2>7 DEF RegionCounted, V
  <2> QED
    BY <1>4, <1>6, <2>8 DEF Counted, b2, ran
<1> QED
  BY <1>5, <1>6

\* An explicit barrier that the thread does not meet: it is behind from then
\* on.
LEMMA CountedMissed ==
  ASSUME NEW x \in Seq(Operations), OneRoi(x), NEW t, NEW i \in 1..Len(x),
         NEW region \in BOOLEAN, NEW c \in Nat, NEW w, NEW b,
         Counted(x, region, t, i, c, w, b),
         Point(x, i) => x[i] = "bar", t # Master, ~InTeam(x, i)
  PROVE  Counted(x, region, t, i + 1, c, w, b)
<1>1. WorkFact(x, t) /\ PassedFact(x) /\ Len(x) \in Nat
  BY WorkFacts, PassedFacts
<1>2. RanAt(x, t, i, w) = w
  BY DEF RanAt, Does
<1>3. CASE region => ~Point(x, i)
  BY <1>2, <1>3, CountedRun
<1>4. CASE region /\ Point(x, i)
  <2>1. /\ Passed(x, i) \in Nat /\ Passed(x, i + 1) = Passed(x, i) + 1
        /\ ~AllCounted(x, t, i + 1)
    BY <1>1, <1>4 DEF PassedFact, WorkFact
  <2>2. c <= Passed(x, i)
    <3>1. CASE AllCounted(x, t, i)
      BY <1>4, <2>1, <3>1 DEF Counted, RegionCounted
    <3>2. CASE ~AllCounted(x, t, i)
      BY <1>4, <2>1, <3>2 DEF Counted
    <3> QED
      BY <3>1, <3>2
  <2> QED
    BY <1>4, <2>1, <2>2 DEF Counted
<1> QED
  BY <1>3, <1>4

\* The start: nothing has been done (omp_counters.h:96-146).
LEMMA CountedFresh ==
  ASSUME NEW x \in Seq(Operations), OneRoi(x), NEW t, NEW i \in 1..Len(x),
         x[i] = "on", NEW region \in BOOLEAN, NEW p \in {i, i + 1}
  PROVE  Counted(x, region, t, p, 0, {}, <<>>)
<1>1. WorkFact(x, t) /\ PassedFact(x) /\ SetFact(x) /\ Len(x) \in Nat
  BY WorkFacts, PassedFacts, SetFacts
<1>2. SetTo(x, i) = "unset" /\ ~Does(x, t, i) /\ ~Point(x, i)
  BY <1>1 DEF SetFact, Does, Point
<1>3. Work(x, t, i) = {} /\ Passed(x, i) = 0 /\ AllCounted(x, t, i)
  BY <1>1, <1>2 DEF WorkFact
<1>4. Len(<<>>) = 0 /\ MaxPhases \in Nat
  BY PhasesAssumption
<1>5. Counted(x, region, t, i, 0, {}, <<>>)
  BY <1>3, <1>4 DEF Counted, RegionCounted
<1>6. Counted(x, region, t, i + 1, 0, RanAt(x, t, i, {}), <<>>)
  BY <1>2, <1>5, CountedRun
<1>7. RanAt(x, t, i, {}) = {}
  BY <1>2 DEF RanAt
<1> QED
  BY <1>5, <1>6, <1>7

\* The lines that stopPerformanceCounters prints (omp_counters.h:332-391).
PrintedLines(region, c, w, b) ==
  Append(IF region
         THEN [n \in 1..c |-> [bid |-> n - 1,
                               work |-> IF n - 1 < Len(b) THEN b[n]
                                        ELSE Garbage]]
         ELSE <<>>,
         [bid |-> c, work |-> w])

\* What is printed at the end of the region of interest is what was counted.
LEMMA CountedPrinted ==
  ASSUME NEW x \in Seq(Operations), OneRoi(x), NEW t, NEW i \in 1..Len(x),
         x[i] = "off", SetTo(x, i) = "1",
         NEW region \in BOOLEAN, NEW c \in Nat, NEW w, NEW b,
         Counted(x, region, t, i, c, w, b)
  PROVE  Printed(x, t, region, PrintedLines(region, c, RanAt(x, t, i, w), b))
<1> DEFINE v == RanAt(x, t, i, w)
           L == [bid : Nat, work : {v} \cup {Garbage} \cup {b[n] : n \in 1..c}]
           one(n) == [bid |-> n - 1,
                      work |-> IF n - 1 < Len(b) THEN b[n] ELSE Garbage]
           stored == IF region THEN [n \in 1..c |-> one(n)] ELSE <<>>
           lines == Append(stored, [bid |-> c, work |-> v])
           k == IF region THEN c ELSE 0
<1>1. /\ HasRoi(x) /\ AllWork(x, t) = Work(x, t, i + 1)
      /\ PointCount(x) = Passed(x, i)
      /\ Full(x, t) <=> AllCounted(x, t, i)
  BY WorkEnds
<1>2. ~Point(x, i)
  BY DEF Point
<1>3. Counted(x, region, t, i + 1, c, v, b)
  BY <1>2, CountedRun
<1>4. WorkFact(x, t) /\ PassedFact(x) /\ Len(x) \in Nat
  BY WorkFacts, PassedFacts
<1>5. /\ Passed(x, i + 1) = Passed(x, i) /\ Passed(x, i) \in Nat
      /\ AllCounted(x, t, i + 1) <=> AllCounted(x, t, i)
  BY <1>2, <1>4 DEF PassedFact, WorkFact
<1> HIDE DEF v
<1>6. /\ stored \in Seq(L) /\ Len(stored) = k /\ k \in Nat
      /\ \A n \in 1..k : stored[n] = one(n)
  <2>1. CASE region
    <3>1. \A n \in 1..c : one(n) \in L
      OBVIOUS
    <3> HIDE DEF one, L
    <3> QED
      BY <2>1, <3>1
  <2>2. CASE ~region
    BY <2>2
  <2> QED
    BY <2>1, <2>2
<1>7. [bid |-> c, work |-> v] \in L
  OBVIOUS
<1> HIDE DEF L, stored
<1>8. /\ Len(lines) = k + 1 /\ DOMAIN lines = 1..(k + 1)
      /\ lines[k + 1] = [bid |-> c, work |-> v]
      /\ \A n \in 1..k : lines[n] = one(n)
  BY <1>6, <1>7
<1>9. lines = PrintedLines(region, c, v, b)
  BY DEF PrintedLines, stored
<1> HIDE DEF lines
<1>10. CASE ~region
  <2>1. c = 0 /\ v = AllWork(x, t) /\ k = 0
    BY <1>1, <1>3, <1>10 DEF Counted
  <2>2. Len(lines) = 1 /\ lines[1] = [bid |-> 0, work |-> AllWork(x, t)]
    BY <1>8, <2>1
  <2> QED
    BY <1>1, <1>9, <1>10, <2>2 DEF Printed, v
<1>11. CASE region
  <2>1. /\ k = c /\ \A n \in 1..(c + 1) : n \in 1..c \/ n = c + 1
        /\ Len(lines) = c + 1 /\ DOMAIN lines = 1..(c + 1)
    BY <1>8, <1>11
  <2>9. ASSUME NEW n \in 1..c
        PROVE  /\ lines[n].bid = n - 1
               /\ lines[n].work = IF n - 1 < Len(b) THEN b[n] ELSE Garbage
    <3>1. n \in 1..k
      BY <2>1
    <3> HIDE DEF k, one
    <3>2. lines[n] = one(n)
      BY <1>8, <3>1
    <3> QED
      BY <3>2 DEF one
  <2>2. ASSUME NEW n \in 1..(c + 1)
        PROVE  lines[n].bid = n - 1
    <3>1. CASE n \in 1..c
      BY <2>9, <3>1
    <3>2. CASE n = c + 1
      BY <1>8, <2>1, <3>2
    <3> QED
      BY <2>1, <3>1, <3>2
  <2>3. CASE ~Full(x, t)
    <3>1. c < PointCount(x)
      BY <1>1, <1>3, <1>5, <1>11, <2>3 DEF Counted
    <3>2. Len(lines) <= PointCount(x)
      BY <1>1, <1>5, <2>1, <3>1
    <3> QED
      BY <1>1, <1>9, <1>11, <2>1, <2>2, <2>3, <3>2 DEF Printed, v
  <2>4. CASE Full(x, t)
    <3> DEFINE V == AllWork(x, t)
    <3>1. /\ c = PointCount(x) /\ v = V \cap {c}
          /\ Len(b) = IF c < MaxPhases THEN c ELSE MaxPhases
          /\ \A j \in 1..Len(b) : b[j] = V \cap {j - 1}
      BY <1>1, <1>3, <1>5, <1>11, <2>4 DEF Counted, RegionCounted
    <3> HIDE DEF V
    <3>2. ASSUME NEW n \in 1..(c + 1)
          PROVE  lines[n].work = PhaseWork(x, t, n - 1)
      <4>1. CASE n = c + 1
        <5>1. lines[n].work = v /\ n - 1 = c
          BY <1>8, <2>1, <4>1
        <5> QED
          BY <3>1, <5>1 DEF PhaseWork, V
      <4>2. CASE n \in 1..c
        <5>1. lines[n].work = IF n - 1 < Len(b) THEN b[n] ELSE Garbage
          BY <2>9, <4>2
        <5>2. CASE n - 1 < Len(b)
          <6>1. n \in 1..Len(b) /\ ~(n - 1 >= MaxPhases)
            BY <3>1, <4>2, <5>2, PhasesAssumption
          <6> QED
            BY <3>1, <5>1, <5>2, <6>1 DEF PhaseWork, V
        <5>3. CASE ~(n - 1 < Len(b))
          <6>1. n - 1 >= MaxPhases /\ n - 1 < PointCount(x)
            BY <3>1, <4>2, <5>3, PhasesAssumption
          <6> QED
            BY <5>1, <5>3, <6>1 DEF PhaseWork
        <5> QED
          BY <5>2, <5>3
      <4> QED
        BY <2>1, <4>1, <4>2
    <3>3. Len(lines) = PointCount(x) + 1
      BY <2>1, <3>1
    <3> QED
      BY <1>1, <1>9, <1>11, <2>1, <2>2, <2>4, <3>2, <3>3 DEF Printed, v
  <2> QED
    BY <2>3, <2>4
<1> QED
  BY <1>10, <1>11

----------------------------------------------------------------------------
(* The counted program keeps ExactProgram.                                 *)

\* A thread of no team is not in a team of all threads.
LEMMA InTeamActive ==
  ASSUME PlacesInv, TeamInv, NEW t \in Threads
  PROVE  t \in Active <=> t = Master \/ InTeam(text, at[Master])
<1>1. Master \in Threads
  BY Executing
<1>2. CASE InTeam(text, at[Master])
  BY <1>1, <1>2 DEF TeamInv, Active
<1>3. CASE ~InTeam(text, at[Master])
  BY <1>1, <1>3 DEF TeamInv, Active
<1> QED
  BY <1>2, <1>3

\* What the counters of the threads hold when t has come to its operation.
LEMMA RanIs ==
  ASSUME PlacesInv, TeamInv, ExactRunning, PerfTypes, NEW t \in Active,
         SetTo(text, Here(Master)) = SetTo(text, at[Master])
  PROVE  LET ran == Ran(t, Stretch(at[Master]))
         IN  /\ ran[t] = RanAt(text, t, at[Master], counters[t])
             /\ \A u \in Threads \ {t} : ran[u] = counters[u]
<1> DEFINE m == at[Master]
           s == Stretch(m)
           ran == Ran(t, s)
<1>1. t \in Threads /\ s = Passed(text, m)
  BY Executing, PointsAre
<1>2. running[t] <=> SetTo(text, m) = "1"
  BY <1>1 DEF ExactRunning
<1>3. Does(text, t, m) <=> SetTo(text, m) = "1"
  BY <1>1, InTeamActive DEF Does
<1> HIDE DEF m, s
<1>4. /\ ran[t] = IF running[t] THEN counters[t] \cup {s} ELSE counters[t]
      /\ \A u \in Threads \ {t} : ran[u] = counters[u]
  BY <1>1 DEF Ran, PerfTypes
<1> HIDE DEF ran
<1>5. ran[t] = RanAt(text, t, m, counters[t])
  BY <1>1, <1>2, <1>3, <1>4 DEF RanAt
<1> QED
  BY <1>4, <1>5 DEF ran, s, m

\* A step that neither starts nor stops the counters.
LEMMA ExactKept ==
  ASSUME ExactRunning, OutfilesTrue,
         UNCHANGED <<text, started, running, outfile, per_region>>,
         SetTo(text, Here(Master)') = SetTo(text, Here(Master)),
         started => \A u \in Threads : Counts(u)'
  PROVE  ExactRunning' /\ OutfilesTrue'
<1> HIDE DEF Here, Counts
<1>1. ExactRunning'
  BY DEF ExactRunning
<1>2. OutfilesTrue'
  BY DEF OutfilesTrue
<1> QED
  BY <1>1, <1>2

\* What Counts says in the next state.
LEMMA CountsNext ==
  ASSUME NEW t, NEW p, Here(t)' = p, UNCHANGED <<text, per_region>>,
         Counted(text, per_region, t, p, count'[t], counters'[t],
                 pbarrier'[t])
  PROVE  Counts(t)'
BY DEF Counts

\* A thread that nothing happens to.
LEMMA CountsSame ==
  ASSUME NEW t, Counts(t), Here(t)' = Here(t),
         UNCHANGED <<text, per_region>>, count'[t] = count[t],
         counters'[t] = counters[t], pbarrier'[t] = pbarrier[t]
  PROVE  Counts(t)'
BY DEF Counts

\* What a thread stores at a point, or goes on to count (Region).
LEMMA RegionOf ==
  ASSUME PlacesInv, PerfTypes, per_region \in BOOLEAN,
         NEW members \in SUBSET Threads, NEW ran,
         Region(members, ran), started, NEW t \in members,
         ran \in [Threads -> SUBSET Int],
         ran[t] = RanAt(text, t, at[Master], counters[t]),
         at[Master] <= Len(text), Point(text, at[Master]),
         text[at[Master]] = "bar" =>
           t = Master \/ InTeam(text, at[Master]),
         Counted(text, per_region, t, at[Master], count[t], counters[t],
                 pbarrier[t])
  PROVE  Counted(text, per_region, t, at[Master] + 1, count'[t],
                 counters'[t], pbarrier'[t])
<1> DEFINE m == at[Master]
<1>1. /\ text \in Seq(Operations) /\ OneRoi(text) /\ m \in 1..Len(text)
      /\ count[t] \in Nat /\ counters[t] \in SUBSET Int
      /\ pbarrier[t] \in Seq(SUBSET Int) /\ per_region \in BOOLEAN
      /\ t \in Threads
  BY Executing DEF PlacesInv, PerfTypes
<1>2. CASE per_region
  <2>1. StoresPhases
    BY <1>2 DEF StoresPhases
  <2>2. /\ pbarrier'[t] = IF HasRoom(t) THEN Append(pbarrier[t], ran[t])
                          ELSE pbarrier[t]
        /\ count'[t] = count[t] + 1
        /\ counters'[t] = {}
    BY <1>1, <2>1 DEF Region, StorePhase, Reset
  <2>3. Counted(text, TRUE, t, m, count[t], counters[t], pbarrier[t])
    BY <1>2
  <2> HIDE DEF m
  <2>4. Counted(text, TRUE, t, m + 1, count[t] + 1, {},
                IF count[t] < MaxPhases
                THEN Append(pbarrier[t], RanAt(text, t, m, counters[t]))
                ELSE pbarrier[t])
    BY <1>1, <2>3, CountedStore DEF m
  <2> QED
    BY <1>2, <2>2, <2>4 DEF HasRoom, m
<1>3. CASE ~per_region
  <2>1. /\ counters' = ran /\ UNCHANGED <<count, pbarrier>>
    BY <1>3 DEF Region, StoresPhases, storeVars
  <2> HIDE DEF m
  <2>2. Counted(text, per_region, t, m + 1, count[t],
                RanAt(text, t, m, counters[t]), pbarrier[t])
    BY <1>1, <1>3, CountedRun DEF m
  <2> QED
    BY <2>1, <2>2 DEF m
<1> QED
  BY <1>2, <1>3

\* GOMP_parallel ends a phase of every thread.
LEMMA ExactForked ==
  ASSUME PlacesInv, CountedInv, PerfTypes, ExactProgram,
         exit_status = "running", CountedFork, text' = text,
         per_region \in BOOLEAN
  PROVE  ExactProgram'
<1> DEFINE m == at[Master]
           ran == Ran(Master, Stretch(m))
<1>1. /\ Meets(Master, {"par", "sub"})
      /\ Fork(Members(text[m])) /\ TeamPast(Members(text[m]))
      /\ PerfParallel(Members(text[m]), Stretch(m))
      /\ m <= Len(text) /\ text[m] \in {"par", "sub"}
      /\ team = {} /\ team' = Members(text[m])
  BY DEF CountedFork, PerfParallel, Meets, Fork
<1>2. /\ at'[Master] = m + 1
      /\ \A t \in Threads : pc[t] = "out" /\ pc'[t] = "out"
  BY <1>1, PlacesFork, Executing
<1>3. /\ \A t \in Threads : Here(t) = m /\ Here(t)' = m + 1
      /\ Master \in Threads /\ Threads # {} /\ Master \in Active
      /\ m \in 1..Len(text)
  BY <1>1, <1>2, Executing DEF Here
<1>4. /\ SetTo(text, m + 1) = SetTo(text, m)
      /\ inside_roi <=> SetTo(text, m) = "1"
      /\ Point(text, m) <=> inside_roi
  <2>1. CountedFlags /\ SetTo(text, m + 1) = SetTo(text, m)
    BY <1>1, MasterMeets DEF CountedInv
  <2> QED
    BY <1>1, <1>3, <2>1 DEF CountedFlags, Point
<1>5. /\ UNCHANGED <<per_region, outfile, exit_status>>
      /\ inside_roi => Region(Threads, ran)
      /\ ~inside_roi => UNCHANGED <<started, running, count, pbarrier>>
  BY <1>1 DEF PerfParallel, storeVars
<1>6. TeamInv /\ ExactRunning /\ OutfilesTrue
  BY DEF ExactProgram
<1>7. ~InTeam(text, m)
  BY <1>1, <1>3, <1>6 DEF TeamInv
<1>8. TeamInv'
  <2>1. TeamFact(text)
    BY TeamFacts DEF PlacesInv
  <2>2. InTeam(text, m + 1) <=> text[m] = "par"
    BY <1>3, <1>7, <2>1 DEF TeamFact
  <2> HIDE DEF m
  <2> QED
    BY <1>1, <1>2, <2>2 DEF TeamInv, Members
<1>9. /\ Here(Master)' = m + 1 /\ Here(Master) = m
      /\ SetTo(text, Here(Master)') = SetTo(text, Here(Master))
  <2>1. Here(Master)' = m + 1 /\ Here(Master) = m
    BY <1>3
  <2> HIDE DEF m, Here
  <2> QED
    BY <1>4, <2>1
<1>10. /\ ran[Master] = RanAt(text, Master, m, counters[Master])
       /\ \A u \in Threads \ {Master} : ran[u] = counters[u]
  BY <1>3, <1>6, <1>9, RanIs
<1>11. ran \in [Threads -> SUBSET Int]
  <2>1. Stretch(m) \in Nat
    BY StretchNumber DEF PlacesInv
  <2> QED
    BY <1>3, <2>1, RanTypes
<1>12. started <=> inside_roi
  BY <1>4, <1>6, <1>9 DEF ExactRunning
<1> HIDE DEF ran
<1>13. ASSUME NEW u \in Threads, started
       PROVE  Counts(u)'
  <2>1. ran[u] = RanAt(text, u, m, counters[u])
    <3>1. CASE u = Master
      BY <1>10, <3>1
    <3>2. CASE u # Master
      <4>1. ~Does(text, u, m)
        BY <1>7, <3>2 DEF Does
      <4>2. ran[u] = counters[u]
        BY <1>10, <3>2
      <4> QED
        BY <4>1, <4>2 DEF RanAt
    <3> QED
      BY <3>1, <3>2
  <2>2. Counted(text, per_region, u, m, count[u], counters[u], pbarrier[u])
    <3>1. Counts(u) /\ Here(u) = m
      BY <1>3, <1>6, <1>13 DEF ExactRunning
    <3> HIDE DEF m
    <3> QED
      BY <3>1 DEF Counts
  <2>3. text[m] # "bar" /\ Region(Threads, ran) /\ Point(text, m)
    BY <1>1, <1>4, <1>5, <1>12, <1>13
  <2>4. Counted(text, per_region, u, m + 1, count'[u], counters'[u],
                pbarrier'[u])
    BY <1>1, <1>11, <1>13, <2>1, <2>2, <2>3, RegionOf
  <2>5. Here(u)' = m + 1
    BY <1>3
  <2> HIDE DEF m
  <2> QED
    BY <1>5, <2>4, <2>5, CountsNext
<1>14. started' = started /\ running' = running
  <2>1. CASE inside_roi
    BY <1>5, <2>1 DEF Region, StorePhase, storeVars
  <2>2. CASE ~inside_roi
    BY <1>5, <2>2
  <2> QED
    BY <2>1, <2>2
<1>15. ExactRunning' /\ OutfilesTrue'
  BY <1>5, <1>6, <1>9, <1>13, <1>14, ExactKept
<1> QED
  BY <1>8, <1>15 DEF ExactProgram

\* A thread of the team waits at its end.
LEMMA ExactFinished ==
  ASSUME PlacesInv, PerfTypes, ExactProgram, per_region \in BOOLEAN,
         exit_status = "running", NEW t \in Threads, CountedFinish(t),
         text' = text
  PROVE  ExactProgram'
<1> DEFINE m == at[Master]
           ran == Ran(t, Stretch(m))
<1>1. /\ t \in team /\ pc[t] = "out" /\ GoesTo(t, "joined")
      /\ at[t] <= Len(text) /\ text[at[t]] = "join"
      /\ counters' = Ran(t, Stretch(at[t]))
      /\ UNCHANGED <<team, at, started, running, count, pbarrier, outfile,
                     per_region, exit_status>>
  BY DEF CountedFinish, PerfFinish, Finish, Meets, storeVars
<1>2. /\ t \in Active /\ at[t] = m /\ Master \in Threads
      /\ m \in 1..Len(text)
  BY <1>1, Executing DEF Active
<1>3. \A u \in Threads : pc'[u] = IF u = t THEN "joined" ELSE pc[u]
  BY <1>1, Executing DEF GoesTo, PlacesInv
<1>4. /\ Here(t) = m /\ Here(t)' = m + 1
      /\ \A u \in Threads \ {t} : Here(u)' = Here(u)
      /\ Here(Master) \in {m, m + 1} /\ Here(Master)' \in {m, m + 1}
  BY <1>1, <1>3, Executing DEF Here
<1>5. SetTo(text, m + 1) = SetTo(text, m) /\ ~Point(text, m)
  BY <1>1, <1>2, MasterMeets DEF Point
<1>6. /\ SetTo(text, Here(Master)') = SetTo(text, Here(Master))
      /\ SetTo(text, Here(Master)) = SetTo(text, m)
  <2> HIDE DEF m, Here
  <2> QED
    BY <1>4, <1>5
<1>7. TeamInv /\ ExactRunning /\ OutfilesTrue
  BY DEF ExactProgram
<1>8. TeamInv'
  BY <1>1, <1>7 DEF TeamInv
<1>9. /\ ran[t] = RanAt(text, t, m, counters[t])
      /\ \A u \in Threads \ {t} : ran[u] = counters[u]
  BY <1>2, <1>6, <1>7, RanIs
<1>10. counters' = ran
  BY <1>1, <1>2
<1> HIDE DEF ran
<1>11. ASSUME NEW u \in Threads, started
       PROVE  Counts(u)'
  <2>1. Counts(u)
    BY <1>7, <1>11 DEF ExactRunning
  <2>2. CASE u = t
    <3>1. Counted(text, per_region, t, m, count[t], counters[t], pbarrier[t])
      <4> HIDE DEF m, Here
      <4> QED
        BY <1>4, <2>1, <2>2 DEF Counts
    <3>2. /\ text \in Seq(Operations) /\ OneRoi(text) /\ count[t] \in Nat
      BY DEF PlacesInv, PerfTypes
    <3> HIDE DEF m, Here
    <3>3. Counted(text, per_region, t, m + 1, count[t],
                  RanAt(text, t, m, counters[t]), pbarrier[t])
      BY <1>2, <1>5, <3>1, <3>2, CountedRun
    <3> QED
      BY <1>1, <1>4, <1>9, <1>10, <2>2, <3>3, CountsNext
  <2>3. CASE u # t
    <3> HIDE DEF m, Here
    <3> QED
      BY <1>1, <1>4, <1>9, <1>10, <2>1, <2>3, CountsSame
  <2> QED
    BY <2>2, <2>3
<1>12. ExactRunning' /\ OutfilesTrue'
  BY <1>1, <1>6, <1>7, <1>11, ExactKept
<1> QED
  BY <1>8, <1>12 DEF ExactProgram

\* libgomp lets the threads go on.  Those that are in no team pass the
\* operation without it.
LEMMA ExactGoesOn ==
  ASSUME PlacesInv, PerfTypes, ExactProgram, per_region \in BOOLEAN,
         exit_status = "running", CountedLibgomp, text' = text
  PROVE  ExactProgram'
<1> DEFINE m == at[Master]
<1>1. UNCHANGED <<started, running, count, pbarrier, counters, outfile,
                  per_region, exit_status>>
  BY DEF CountedLibgomp, perfVars, storeVars
<1>2. /\ m \in 1..Len(text) /\ at'[Master] = m + 1
      /\ \A t \in Threads : pc'[t] = "out"
      /\ \/ /\ \A t \in Threads : pc[t] = IF t \in Active THEN "real"
                                          ELSE "out"
            /\ text[m] \in {"on", "off", "bar"} /\ team' = team
         \/ /\ \A t \in Threads : pc[t] = IF t \in Active THEN "joined"
                                          ELSE "out"
            /\ text[m] = "join" /\ team' = {}
  BY PlacesRelease, PlacesJoin
     DEF CountedLibgomp, ReleaseAll, Release, JoinAll, Join
<1>3. /\ Master \in Threads /\ Master \in Active
      /\ Here(Master) = m + 1 /\ Here(Master)' = m + 1
  BY <1>2, Executing DEF Here
<1>4. /\ \A t \in Threads : Here(t)' = m + 1
      /\ \A t \in Active : Here(t) = m + 1
      /\ \A t \in Threads \ Active : Here(t) = m
  BY <1>2, Executing DEF Here
<1>5. TeamInv /\ ExactRunning /\ OutfilesTrue
  BY DEF ExactProgram
<1>6. TeamInv'
  <2>1. TeamFact(text)
    BY TeamFacts DEF PlacesInv
  <2>2. InTeam(text, m + 1) <=> InTeam(text, m) /\ text[m] # "join"
    BY <1>2, <2>1 DEF TeamFact
  <2> HIDE DEF m
  <2> QED
    BY <1>2, <1>5, <2>2 DEF TeamInv, m
<1>7. ASSUME NEW t \in Threads, started
      PROVE  Counts(t)'
  <2>1. Counts(t)
    BY <1>5, <1>7 DEF ExactRunning
  <2>2. CASE t \in Active
    <3> HIDE DEF Here
    <3> QED
      BY <1>1, <1>4, <2>1, <2>2, CountsSame
  <2>3. CASE t \notin Active
    <3>1. Counted(text, per_region, t, m, count[t], counters[t], pbarrier[t])
      <4>1. Here(t) = m
        BY <1>4, <2>3
      <4> HIDE DEF m, Here
      <4> QED
        BY <2>1, <4>1 DEF Counts
    <3>2. /\ text \in Seq(Operations) /\ OneRoi(text) /\ count[t] \in Nat
      BY DEF PlacesInv, PerfTypes
    <3>3. /\ t # Master /\ ~InTeam(text, m)
          /\ Point(text, m) => text[m] = "bar"
      BY <1>2, <1>5, <2>3, InTeamActive DEF Point
    <3> HIDE DEF m, Here
    <3>4. Counted(text, per_region, t, m + 1, count[t], counters[t],
                  pbarrier[t])
      BY <1>2, <3>1, <3>2, <3>3, CountedMissed
    <3> QED
      BY <1>1, <1>4, <3>4, CountsNext
  <2> QED
    BY <2>2, <2>3
<1>8. SetTo(text, Here(Master)') = SetTo(text, Here(Master))
  BY <1>3
<1>9. ExactRunning' /\ OutfilesTrue'
  BY <1>1, <1>5, <1>7, <1>8, ExactKept
<1> QED
  BY <1>6, <1>9 DEF ExactProgram

\* What the environment says of the operation a thread comes to.
LEMMA ComesExact ==
  ASSUME PlacesInv, CountedInv, ExactProgram, exit_status = "running",
         text' = text, NEW t \in Threads, Comes(t), at' = at
  PROVE  LET m == at[Master]
         IN  /\ t \in Active /\ at[t] = m /\ m \in 1..Len(text)
             /\ Here(t) = m
             /\ text[m] \in {"on", "off", "bar"}
             /\ SetTo(text, Here(Master)) = SetTo(text, m)
             /\ inside_roi' <=> SetTo(text, m + 1) = "1"
             /\ started <=> SetTo(text, m) = "1"
             /\ text[m] = "bar" => SetTo(text, m + 1) = SetTo(text, m)
             /\ t # Master => text[m] = "bar"
             /\ text[m] = "bar" => t = Master \/ InTeam(text, m)
<1> DEFINE m == at[Master]
<1>1. CountedFlags /\ inside_roi \in BOOLEAN /\ TeamInv /\ ExactRunning
  BY DEF CountedInv, ExactProgram
<1>2. /\ t \in Active /\ at[t] = m /\ m <= Len(text) /\ Here(t) = m
      /\ text[m] \in {"on", "off", "bar"}
      /\ inside_roi' <=> SetTo(text, m + 1) = "1"
      /\ t # Master =>
           /\ text[m] = "bar"
           /\ SetTo(text, Here(Master)) = SetTo(text, m)
  BY <1>1, EnteredFact DEF Comes
<1>3. m \in 1..Len(text)
  BY <1>2, Executing
<1>4. SetTo(text, Here(Master)) = SetTo(text, m)
  <2>1. CASE t = Master
    <3> HIDE DEF m, Here
    <3> QED
      BY <1>2, <2>1
  <2> QED
    BY <1>2, <2>1
<1>5. started <=> SetTo(text, m) = "1"
  <2> HIDE DEF m, Here
  <2> QED
    BY <1>1, <1>4 DEF ExactRunning
<1>6. text[m] = "bar" => SetTo(text, m + 1) = SetTo(text, m)
  BY <1>2, MasterMeets
<1>7. text[m] = "bar" => t = Master \/ InTeam(text, m)
  BY <1>1, <1>2, InTeamActive
<1> HIDE DEF m
<1> QED
  BY <1>2, <1>3, <1>4, <1>5, <1>6, <1>7 DEF m

\* In libgomp's barrier, the team is what it was.
LEMMA ComesTeam ==
  ASSUME TeamInv, NEW t, Comes(t), text' = text, at' = at
  PROVE  TeamInv' /\ team' = team
BY DEF TeamInv, Comes, Enters

\* No barrier of a region of interest: nothing has been started.
LEMMA ExactPass ==
  ASSUME PlacesInv, CountedInv, PerfTypes, ExactProgram,
         per_region \in BOOLEAN, exit_status = "running",
         text' = text, NEW t \in Threads, Comes(t), at' = at,
         PerfPass(t, RoiValue(text[at[t]]), Stretch(at[t]))
  PROVE  ExactProgram'
<1>1. /\ EntersReal(t) /\ ~inside_roi' /\ BP_number = -1
      /\ UNCHANGED <<started, running, outfile, per_region>>
  BY DEF PerfPass, storeVars, Enters
<1>2. TeamInv /\ ExactRunning /\ OutfilesTrue
  BY DEF ExactProgram
<1>3. TeamInv'
  BY <1>2, ComesTeam
<1>4. ~SetOn(text, Here(Master))
  <2>1. Passed(text, Here(Master)) \in Nat
    BY HereFact, Executing
  <2> HIDE DEF Here
  <2> QED
    BY <1>1, <2>1 DEF CountedInv
<1>5. ~started
  BY <1>2, <1>4, HereSet DEF ExactRunning
<1>6. /\ CountedFlags'
      /\ Here(Master)' \in {Here(Master), Here(Master) + 1}
      /\ Here(Master) \in Int
  BY <1>1, ComesFact, HereFact, Executing
<1>7. SetTo(text, Here(Master)') # "1"
  BY <1>1, <1>6 DEF CountedFlags
<1>8. SetTo(text, Here(Master)') # "0" => SetTo(text, Here(Master)) # "0"
  <2>1. text \in Seq(Operations)
    BY DEF PlacesInv
  <2> HIDE DEF Here
  <2> DEFINE h == Here(Master)
             g == Here(Master)'
  <2>2. h \in Int /\ g \in Int /\ h <= g
    BY <1>6
  <2> HIDE DEF h, g
  <2>3. SetTo(text, h) = "0" => SetTo(text, g) = "0"
    BY <2>1, <2>2, SetToBefore
  <2> QED
    BY <2>3 DEF h, g
<1> HIDE DEF Here
<1>9. ExactRunning'
  BY <1>1, <1>2, <1>5, <1>7, <1>8 DEF ExactRunning
<1>10. OutfilesTrue'
  BY <1>1, <1>2 DEF OutfilesTrue
<1> QED
  BY <1>3, <1>9, <1>10 DEF ExactProgram

\* The start of the region of interest: all threads begin to count.
LEMMA ExactStart ==
  ASSUME PlacesInv, CountedInv, PerfTypes, ExactProgram,
         per_region \in BOOLEAN, exit_status = "running",
         text' = text, NEW t \in Threads, Comes(t), at' = at,
         PerfStart(t, RoiValue(text[at[t]]), Stretch(at[t]))
  PROVE  ExactProgram'
<1> DEFINE m == at[Master]
<1>1. /\ EntersReal(t) /\ inside_roi' /\ BarrierPoints(t, inside_roi') = 0
      /\ started' = TRUE
      /\ running' = [u \in Threads |-> TRUE]
      /\ count' = [u \in Threads |-> 0]
      /\ counters' = [u \in Threads |-> {}]
      /\ UNCHANGED <<pbarrier, outfile, per_region>>
  BY DEF PerfStart, Enters
<1>2. TeamInv /\ ExactRunning /\ OutfilesTrue
  BY DEF ExactProgram
<1>3. TeamInv'
  BY <1>2, ComesTeam
<1>4. /\ at[t] = m /\ m \in 1..Len(text)
      /\ text[m] \in {"on", "off", "bar"}
      /\ SetTo(text, Here(Master)) = SetTo(text, m)
      /\ inside_roi' <=> SetTo(text, m + 1) = "1"
      /\ text[m] = "bar" => SetTo(text, m + 1) = SetTo(text, m)
      /\ SetTo(text, m) = "1" => SetOn(text, Here(Master))
  <2>1. /\ at[t] = m /\ m \in 1..Len(text)
        /\ text[m] \in {"on", "off", "bar"}
        /\ SetTo(text, Here(Master)) = SetTo(text, m)
        /\ inside_roi' <=> SetTo(text, m + 1) = "1"
        /\ text[m] = "bar" => SetTo(text, m + 1) = SetTo(text, m)
    BY ComesExact
  <2>2. SetTo(text, Here(Master)) = "1" => SetOn(text, Here(Master))
    BY HereSet
  <2> HIDE DEF m, Here
  <2> QED
    BY <2>1, <2>2
<1>5. /\ ~SetOn(text, Here(Master))
      /\ \A u \in Threads : pbarrier[u] = <<>>
  <2>1. /\ Passed(text, Here(Master)) \in Nat
        /\ BP_number = IF SetOn(text, Here(Master))
                       THEN 1 + Passed(text, Here(Master)) ELSE -1
        /\ ~SetOn(text, Here(Master)) =>
             \A u \in Threads : pbarrier[u] = <<>>
    BY HereFact, Executing DEF CountedInv
  <2> HIDE DEF Here
  <2> QED
    BY <1>1, <2>1 DEF BarrierPoints
<1>6. text[m] = "on"
  <2>1. text[m] = "off" => SetTo(text, m + 1) = "0"
    BY <1>4, MasterMeets
  <2> HIDE DEF m, Here
  <2> QED
    BY <1>1, <1>4, <1>5, <2>1
<1>7. ASSUME NEW u \in Threads
      PROVE  Counts(u)'
  <2>1. Here(u)' \in {m, m + 1}
    BY DEF Here
  <2>2. count'[u] = 0 /\ counters'[u] = {} /\ pbarrier'[u] = <<>>
    BY <1>1, <1>5
  <2>3. text \in Seq(Operations) /\ OneRoi(text)
    BY DEF PlacesInv
  <2> HIDE DEF m, Here
  <2>4. Counted(text, per_region, u, Here(u)', 0, {}, <<>>)
    BY <1>4, <1>6, <2>1, <2>3, CountedFresh
  <2> QED
    BY <1>1, <2>2, <2>4 DEF Counts
<1>8. SetTo(text, Here(Master)') = "1"
  <2>1. CountedFlags'
    BY <1>1, ComesFact
  <2> QED
    BY <1>1, <2>1 DEF CountedFlags
<1>9. \A u \in Threads : outfile[u] = <<>>
  <2>1. SetTo(text, m) = "unset"
    BY <1>4, <1>6, MasterMeets
  <2>2. SetTo(text, Here(Master)) # "0"
    BY <1>4, <2>1
  <2> QED
    BY <1>2, <2>2 DEF ExactRunning
<1> HIDE DEF Here, Counts
<1>10. ExactRunning'
  BY <1>1, <1>7, <1>8, <1>9 DEF ExactRunning
<1>11. OutfilesTrue'
  BY <1>1, <1>2 DEF OutfilesTrue
<1> QED
  BY <1>3, <1>10, <1>11 DEF ExactProgram

\* A barrier ends a phase of the thread that meets it.
LEMMA ExactRegion ==
  ASSUME PlacesInv, CountedInv, PerfTypes, ExactProgram,
         per_region \in BOOLEAN, exit_status = "running",
         text' = text, NEW t \in Threads, Comes(t), at' = at,
         PerfRegion(t, RoiValue(text[at[t]]), Stretch(at[t]))
  PROVE  ExactProgram'
<1> DEFINE m == at[Master]
           ran == Ran(t, Stretch(m))
<1>1. /\ EntersReal(t) /\ inside_roi' /\ BarrierPoints(t, inside_roi') # 0
      /\ Region({t}, Ran(t, Stretch(at[t])))
      /\ UNCHANGED <<outfile, per_region>>
  BY DEF PerfRegion, Enters
<1>2. TeamInv /\ ExactRunning /\ OutfilesTrue
  BY DEF ExactProgram
<1>3. TeamInv'
  BY <1>2, ComesTeam
<1>4. /\ t \in Active /\ at[t] = m /\ m \in 1..Len(text)
      /\ Here(t) = m /\ text[m] \in {"on", "off", "bar"}
      /\ SetTo(text, Here(Master)) = SetTo(text, m)
      /\ inside_roi' <=> SetTo(text, m + 1) = "1"
      /\ started <=> SetTo(text, m) = "1"
      /\ text[m] = "bar" => SetTo(text, m + 1) = SetTo(text, m)
      /\ t # Master => text[m] = "bar"
      /\ text[m] = "bar" => t = Master \/ InTeam(text, m)
  BY ComesExact
<1>5. text[m] = "bar" /\ SetTo(text, m) = "1"
  <2>1. /\ text[m] = "on" => ~SetOn(text, m)
        /\ text[m] = "off" => SetTo(text, m + 1) = "0"
    BY <1>4, MasterMeets
  <2>2. BP_number = IF SetOn(text, Here(Master))
                    THEN 1 + Passed(text, Here(Master)) ELSE -1
    BY DEF CountedInv
  <2> HIDE DEF m, Here
  <2>3. t = Master => SetOn(text, m)
    <3>1. t = Master /\ ~SetOn(text, m) => BP_number = -1
      BY <1>4, <2>2
    <3> QED
      BY <1>1, <3>1 DEF BarrierPoints
  <2> QED
    BY <1>1, <1>4, <2>1, <2>3
<1>6. started /\ Point(text, m)
  BY <1>4, <1>5 DEF Point
<1>7. /\ ran[t] = RanAt(text, t, m, counters[t])
      /\ \A u \in Threads \ {t} : ran[u] = counters[u]
  BY <1>2, <1>4, RanIs
<1>8. ran \in [Threads -> SUBSET Int] /\ Region({t}, ran)
  <2>1. Stretch(m) \in Nat
    BY StretchNumber DEF PlacesInv
  <2> QED
    BY <1>1, <1>4, <2>1, RanTypes
<1> HIDE DEF ran
<1>9. /\ Here(t)' = m + 1
      /\ \A u \in Threads \ {t} : Here(u)' = Here(u)
      /\ CountedFlags'
  BY <1>1, ComesFact
<1>10. /\ UNCHANGED <<started, running>>
       /\ \A u \in Threads \ {t} :
            /\ count'[u] = count[u] /\ counters'[u] = counters[u]
            /\ pbarrier'[u] = pbarrier[u]
  <2>1. CASE StoresPhases
    BY <1>7, <1>8, <2>1 DEF Region, StorePhase, Reset
  <2>2. CASE ~StoresPhases
    BY <1>7, <1>8, <2>2 DEF Region, storeVars
  <2> QED
    BY <2>1, <2>2
<1>11. ASSUME NEW u \in Threads
       PROVE  Counts(u)'
  <2>1. Counts(u)
    BY <1>2, <1>6 DEF ExactRunning
  <2>2. CASE u # t
    <3> HIDE DEF m, Here
    <3> QED
      BY <1>1, <1>9, <1>10, <2>1, <2>2, CountsSame
  <2>3. CASE u = t
    <3>1. Counted(text, per_region, t, m, count[t], counters[t], pbarrier[t])
      <4> HIDE DEF m, Here
      <4> QED
        BY <1>4, <2>1, <2>3 DEF Counts
    <3>2. m <= Len(text) /\ {t} \in SUBSET Threads /\ t \in {t}
      BY <1>4, Executing
    <3>3. Counted(text, per_region, t, m + 1, count'[t], counters'[t],
                  pbarrier'[t])
      BY <1>4, <1>6, <1>7, <1>8, <3>1, <3>2, RegionOf
    <3> HIDE DEF m, Here
    <3> QED
      BY <1>1, <1>9, <2>3, <3>3, CountsNext
  <2> QED
    BY <2>2, <2>3
<1>12. SetTo(text, Here(Master)') = SetTo(text, Here(Master))
  <2>1. SetTo(text, Here(Master)') = "1"
    BY <1>1, <1>9 DEF CountedFlags
  <2>2. SetTo(text, Here(Master)) = "1"
    BY <1>4, <1>5
  <2> QED
    BY <2>1, <2>2
<1>13. ExactRunning' /\ OutfilesTrue'
  BY <1>1, <1>2, <1>10, <1>11, <1>12, ExactKept
<1> QED
  BY <1>3, <1>13 DEF ExactProgram

\* Lines, in other words.
LEMMA LinesAre ==
  ASSUME PerfTypes, NEW u \in Threads, NEW ran
  PROVE  Lines(u, ran)
           = PrintedLines(per_region, count[u], ran[u], pbarrier[u])
<1>1. count[u] \in Nat
  BY DEF PerfTypes
<1>2. ASSUME NEW n \in 1..count[u]
      PROVE  Phase(u, n - 1) = IF n - 1 < Len(pbarrier[u])
                               THEN pbarrier[u][n] ELSE Garbage
  <2>1. (n - 1) + 1 = n
    BY <1>1
  <2> QED
    BY <2>1 DEF Phase
<1>3. [n \in 1..count[u] |-> [bid |-> n - 1, work |-> Phase(u, n - 1)]]
        = [n \in 1..count[u] |->
             [bid |-> n - 1,
              work |-> IF n - 1 < Len(pbarrier[u]) THEN pbarrier[u][n]
                       ELSE Garbage]]
  BY <1>2
<1> QED
  BY <1>3 DEF Lines, StoredLines, PrintedLines

\* The end of the region of interest, and what each thread prints there.
LEMMA StopPrints ==
  ASSUME PlacesInv, CountedInv, PerfTypes, ExactProgram,
         per_region \in BOOLEAN, exit_status = "running",
         text' = text, NEW t \in Threads, Comes(t), at' = at,
         Stops(t, RoiValue(text[at[t]])), team = {},
         \A u \in Threads : running[u]
  PROVE  LET ran == Ran(t, Stretch(at[t]))
         IN  /\ SetTo(text, at[Master] + 1) = "0"
             /\ \A u \in Threads :
                  /\ outfile[u] = <<>>
                  /\ outfile[u] \o Lines(u, ran) = Lines(u, ran)
                  /\ Printed(text, u, per_region, Lines(u, ran))
<1> DEFINE m == at[Master]
           ran == Ran(t, Stretch(m))
<1>1. TeamInv /\ ExactRunning /\ ~inside_roi'
  BY DEF ExactProgram, Stops
<1>2. /\ t \in Active /\ at[t] = m /\ m \in 1..Len(text)
      /\ Here(t) = m /\ text[m] \in {"on", "off", "bar"}
      /\ SetTo(text, Here(Master)) = SetTo(text, m)
      /\ inside_roi' <=> SetTo(text, m + 1) = "1"
      /\ started <=> SetTo(text, m) = "1"
      /\ text[m] = "bar" => SetTo(text, m + 1) = SetTo(text, m)
  BY ComesExact
<1>3. t = Master /\ started
  BY <1>1, <1>2, MasterAssumption DEF Active, ExactRunning
<1>4. /\ SetTo(text, m) = "1" /\ text[m] = "off"
      /\ SetTo(text, m + 1) = "0"
  <2>1. /\ text[m] = "on" => SetTo(text, m) = "unset"
        /\ text[m] = "off" => SetTo(text, m + 1) = "0"
    BY <1>2, MasterMeets
  <2> HIDE DEF m, Here
  <2> QED
    BY <1>1, <1>2, <1>3, <2>1
<1>5. \A u \in Threads : Here(u) = m
  BY <1>2, <1>3, Executing DEF Here, Active
<1>6. /\ ran[t] = RanAt(text, t, m, counters[t])
      /\ \A u \in Threads \ {t} : ran[u] = counters[u]
  BY <1>1, <1>2, RanIs
<1>7. ~InTeam(text, m)
  BY <1>1, <1>3 DEF TeamInv
<1> HIDE DEF ran
<1>8. ASSUME NEW u \in Threads
      PROVE  /\ outfile[u] = <<>>
             /\ outfile[u] \o Lines(u, ran) = Lines(u, ran)
             /\ Printed(text, u, per_region, Lines(u, ran))
  <2>1. outfile[u] = <<>>
    <3>1. SetTo(text, Here(Master)) # "0"
      BY <1>2, <1>4
    <3> QED
      BY <1>1, <3>1 DEF ExactRunning
  <2>2. Counted(text, per_region, u, m, count[u], counters[u], pbarrier[u])
    <3>1. Counts(u) /\ Here(u) = m
      BY <1>1, <1>3, <1>5 DEF ExactRunning
    <3> HIDE DEF m
    <3> QED
      BY <3>1 DEF Counts
  <2>3. ran[u] = RanAt(text, u, m, counters[u])
    <3>1. CASE u = t
      BY <1>6, <3>1
    <3>2. CASE u # t
      <4>1. ~Does(text, u, m)
        BY <1>3, <1>7, <3>2 DEF Does
      <4>2. ran[u] = counters[u]
        BY <1>6, <3>2
      <4> QED
        BY <4>1, <4>2 DEF RanAt
    <3> QED
      BY <3>1, <3>2
  <2>4. text \in Seq(Operations) /\ OneRoi(text) /\ count[u] \in Nat
    BY DEF PlacesInv, PerfTypes
  <2> HIDE DEF m
  <2>5. Printed(text, u, per_region,
                PrintedLines(per_region, count[u],
                             RanAt(text, u, m, counters[u]), pbarrier[u]))
    BY <1>2, <1>4, <2>2, <2>4, CountedPrinted
  <2>6. Lines(u, ran)
          = PrintedLines(per_region, count[u], ran[u], pbarrier[u])
    BY LinesAre
  <2>7. Printed(text, u, per_region, Lines(u, ran))
    BY <2>3, <2>5, <2>6
  <2>8. Lines(u, ran) \in Seq({StoredLines(u)[n] : n \in 1..count[u]}
                               \cup {[bid |-> count[u], work |-> ran[u]]})
    <3> DEFINE L == {StoredLines(u)[n] : n \in 1..count[u]}
                      \cup {[bid |-> count[u], work |-> ran[u]]}
    <3>1. StoredLines(u) \in Seq(L)
      <4>1. CASE per_region
        <5>1. DOMAIN StoredLines(u) = 1..count[u]
          BY <4>1 DEF StoredLines
        <5>2. \A n \in 1..count[u] : StoredLines(u)[n] \in L
          OBVIOUS
        <5>3. StoredLines(u) = [n \in 1..count[u] |-> StoredLines(u)[n]]
          BY <4>1 DEF StoredLines
        <5> DEFINE c == count[u]
                   f(n) == StoredLines(u)[n]
        <5>4. c \in Nat /\ \A n \in 1..c : f(n) \in L
          BY <2>4, <5>2
        <5> HIDE DEF L, c, f
        <5>5. [n \in 1..c |-> f(n)] \in Seq(L)
          BY <5>4
        <5> QED
          BY <5>3, <5>5 DEF c, f
      <4>2. CASE ~per_region
        BY <4>2 DEF StoredLines
      <4> QED
        BY <4>1, <4>2
    <3>2. [bid |-> count[u], work |-> ran[u]] \in L
      OBVIOUS
    <3> HIDE DEF L
    <3>3. Append(StoredLines(u), [bid |-> count[u], work |-> ran[u]])
            \in Seq(L)
      BY <3>1, <3>2
    <3> QED
      BY <3>3 DEF Lines, L
  <2>9. outfile[u] \o Lines(u, ran) = Lines(u, ran)
    BY <2>1, <2>8, ConcatEmptySeq
  <2> QED
    BY <2>1, <2>7, <2>9
<1> QED
  BY <1>2, <1>4, <1>8 DEF ran

\* All threads print, and stop.
LEMMA ExactStop ==
  ASSUME PlacesInv, CountedInv, PerfTypes, ExactProgram,
         per_region \in BOOLEAN, exit_status = "running",
         text' = text, NEW t \in Threads, Comes(t), at' = at,
         PerfStop(t, RoiValue(text[at[t]]), Stretch(at[t]))
  PROVE  ExactProgram'
<1> DEFINE m == at[Master]
           ran == Ran(t, Stretch(at[t]))
<1>1. /\ EntersReal(t) /\ ~inside_roi' /\ per_region' = per_region
      /\ outfile' = [u \in Threads |-> outfile[u] \o Lines(u, ran)]
      /\ running' = [u \in Threads |-> FALSE] /\ started' = FALSE
      /\ team = {} /\ \A u \in Threads : running[u]
      /\ Stops(t, RoiValue(text[at[t]]))
  BY DEF PerfStop, Enters, Stops
<1>2. /\ SetTo(text, m + 1) = "0"
      /\ \A u \in Threads :
           /\ outfile[u] \o Lines(u, ran) = Lines(u, ran)
           /\ Printed(text, u, per_region, Lines(u, ran))
  BY <1>1, StopPrints
<1>3. TeamInv'
  BY ComesTeam DEF ExactProgram
<1>4. OutfilesTrue'
  BY <1>1, <1>2 DEF OutfilesTrue
<1>5. SetTo(text, Here(Master)') = "0"
  <2>1. Here(t)' = m + 1 /\ t = Master
    BY <1>1, ComesFact
  <2> QED
    BY <1>2, <2>1
<1> HIDE DEF Here
<1>6. ExactRunning'
  BY <1>1, <1>5 DEF ExactRunning
<1> QED
  BY <1>3, <1>4, <1>6 DEF ExactProgram

\* A process that ends has printed all of a thread's lines, or none.
LEMMA ExactEnds ==
  ASSUME ExactProgram, exit_status' # "running",
         UNCHANGED <<text, at, team, per_region>>,
         \A u \in Threads :
           outfile'[u] = outfile[u]
             \/ Printed(text, u, per_region, outfile'[u])
  PROVE  ExactProgram'
<1>1. TeamInv'
  BY DEF ExactProgram, TeamInv
<1>2. OutfilesTrue'
  BY DEF ExactProgram, OutfilesTrue
<1> QED
  BY <1>1, <1>2 DEF ExactProgram

\* A program that goes on has all of a thread's lines in its file, or none.
LEMMA ExactLost ==
  ASSUME ExactProgram, exit_status' = exit_status,
         UNCHANGED <<text, at, processVars, per_region, storeVars, counters>>,
         \A u \in Threads : outfile'[u] = <<>> \/ outfile'[u] = outfile[u]
  PROVE  ExactProgram'
<1>1. UNCHANGED <<team, pc>> /\ UNCHANGED <<started, running, count, pbarrier>>
  BY DEF processVars, storeVars
<1>2. TeamInv'
  BY <1>1 DEF ExactProgram, TeamInv
<1>3. OutfilesTrue'
  BY DEF ExactProgram, OutfilesTrue
<1>4. ASSUME exit_status' = "running"
      PROVE  ExactRunning'
  <2>1. ExactRunning
    BY <1>4 DEF ExactProgram
  <2>2. \A u : Here(u)' = Here(u)
    BY <1>1 DEF Here
  <2>3. \A u \in Threads : Counts(u)' <=> Counts(u)
    BY <1>1, <2>2 DEF Counts
  <2>4. SetTo(text, Here(Master))' = SetTo(text, Here(Master))
    BY <2>2
  <2> HIDE DEF Here
  <2> QED
    BY <1>1, <2>1, <2>3, <2>4 DEF ExactRunning
<1> QED
  BY <1>2, <1>3, <1>4 DEF ExactProgram

\* GOMP_barrier, whatever it finds.
LEMMA ExactMet ==
  ASSUME PlacesInv, CountedInv, PerfTypes, ExactProgram,
         per_region \in BOOLEAN, exit_status = "running",
         text' = text, NEW t \in Threads, CountedBarrier(t)
  PROVE  ExactProgram' /\ per_region' = per_region
<1> DEFINE env == RoiValue(text[at[t]])
           x == Stretch(at[t])
<1>1. /\ Comes(t)
      /\ \/ PerfPass(t, env, x) \/ PerfStart(t, env, x)
         \/ PerfRegion(t, env, x) \/ PerfStop(t, env, x)
         \/ PerfStopAgain(t, env, x)
      /\ at' = IF pc'[t] = "out" /\ exit_status' = "running"
               THEN [at EXCEPT ![t] = @ + 1] ELSE at
  BY DEF CountedBarrier, Comes, PerfPass, PerfStart, PerfRegion, PerfStop,
         PerfStopAgain, Stops
<1>2. per_region' = per_region /\ team' = team
  BY <1>1 DEF Comes, Enters
<1>3. CASE EntersReal(t) /\ ~PerfStopAgain(t, env, x)
  <2>1. at' = at
    BY <1>1, <1>3 DEF EntersReal, GoesTo, PlacesInv
  <2> HIDE DEF env, x
  <2> QED
    BY <1>1, <1>2, <1>3, <2>1, ExactPass, ExactStart, ExactRegion, ExactStop
       DEF env, x
<1>4. CASE PerfStopAgain(t, env, x)
  <2>1. exit_status' = "failed" /\ outfile' = outfile
    BY <1>4 DEF PerfStopAgain
  <2> HIDE DEF env, x
  <2> QED
    BY <1>1, <1>2, <2>1, ExactEnds
<1>5. PerfPass(t, env, x) \/ PerfStart(t, env, x) \/ PerfRegion(t, env, x)
        \/ PerfStop(t, env, x) => EntersReal(t)
  BY DEF PerfPass, PerfStart, PerfRegion, PerfStop
<1> QED
  BY <1>1, <1>3, <1>4, <1>5

\* All of the steps of the program, and its failures.
LEMMA ExactStep ==
  ASSUME PlacesInv, CountedInv, PerfTypes, ExactProgram,
         per_region \in BOOLEAN, CountedProgram
  PROVE  ExactProgram' /\ per_region' = per_region
<1>1. exit_status = "running" /\ text' = text
  BY DEF CountedProgram
<1>2. CASE CountedFork
  BY <1>1, <1>2, ExactForked DEF CountedFork, PerfParallel
<1>3. CASE CountedLibgomp
  BY <1>1, <1>3, ExactGoesOn DEF CountedLibgomp, perfVars
<1>4. CASE CountedExit
  BY <1>1, <1>4, ExactEnds DEF CountedExit, processVars
<1>5. CASE \E t \in Threads : CountedFinish(t) \/ CountedBarrier(t)
  <2>1. ASSUME NEW t \in Threads, CountedFinish(t)
        PROVE  ExactProgram' /\ per_region' = per_region
    BY <1>1, <2>1, ExactFinished DEF CountedFinish, PerfFinish
  <2> QED
    BY <1>1, <1>5, <2>1, ExactMet
<1>6. CASE CountedFails
  <2>1. ASSUME NEW t \in Threads, Meets(t, {"off"}),
               PerfStopFails(t, RoiValue("off"), Stretch(at[t])),
               UNCHANGED at
        PROVE  ExactProgram' /\ per_region' = per_region
    <3>1. /\ Stops(t, RoiValue("off")) /\ Enters(t, RoiValue("off"))
          /\ team = {} /\ \A u \in Threads : running[u]
          /\ exit_status' = "failed" /\ team' = team
          /\ per_region' = per_region
          /\ text[at[t]] = "off"
      BY <2>1 DEF PerfStopFails, Stops, Enters, Meets
    <3>2. Comes(t)
      BY <2>1, <3>1 DEF Comes, Meets
    <3> DEFINE ran == Ran(t, Stretch(at[t]))
    <3>3. \A u \in Threads :
            /\ outfile[u] \o Lines(u, ran) = Lines(u, ran)
            /\ Printed(text, u, per_region, Lines(u, ran))
      BY <1>1, <2>1, <3>1, <3>2, StopPrints
    <3>4. \A u \in Threads : outfile'[u] = outfile[u] \o Lines(u, ran)
                               \/ outfile'[u] = outfile[u]
      BY <2>1 DEF PerfStopFails
    <3> HIDE DEF ran
    <3> QED
      BY <1>1, <2>1, <3>1, <3>3, <3>4, ExactEnds
  <2>2. ASSUME exit_status' = "failed",
               UNCHANGED <<processVars, at, per_region, BP_number, storeVars,
                           counters, outfile>>
        PROVE  ExactProgram' /\ per_region' = per_region
    BY <1>1, <2>2, ExactEnds DEF processVars
  <2>3. CASE PerfWriteFails /\ UNCHANGED at
    <3>1. /\ UNCHANGED <<processVars, per_region, storeVars, counters>>
          /\ exit_status' = exit_status
          /\ \A u \in Threads :
               outfile'[u] = <<>> \/ outfile'[u] = outfile[u]
      BY <2>3 DEF PerfWriteFails
    <3> QED
      BY <1>1, <2>3, <3>1, ExactLost
  <2> QED
    BY <1>6, <2>1, <2>2, <2>3 DEF CountedFails
<1> QED
  BY <1>2, <1>3, <1>4, <1>5, <1>6 DEF CountedProgram

\* The next process has done nothing yet.
LEMMA ExactGone ==
  ASSUME PlacesInv, Gone, text' = text
  PROVE  /\ ExactProgram' /\ exit_status' = "running" /\ ~started'
         /\ \A t \in Threads : outfile'[t] = <<>>
<1>1. /\ pc' = [t \in Threads |-> "out"] /\ at' = [t \in Threads |-> 1]
      /\ team' = {} /\ started' = FALSE
      /\ running' = [t \in Threads |-> FALSE]
      /\ outfile' = [t \in Threads |-> <<>>]
      /\ exit_status' = "running"
  BY DEF Gone
<1>2. Here(Master)' = 1 /\ at'[Master] = 1
  BY <1>1, Executing DEF Here
<1>3. SetTo(text, 1) = "unset" /\ ~InTeam(text, 1)
  BY Executing, TeamFacts DEF SetFact, TeamFact
<1>4. SetTo(text, Here(Master)') = "unset"
  BY <1>2, <1>3
<1>5. TeamInv'
  BY <1>1, <1>2, <1>3 DEF TeamInv
<1>6. \A t \in Threads : outfile'[t] = <<>> /\ running'[t] = FALSE
  BY <1>1
<1> HIDE DEF Here
<1>7. ExactRunning'
  BY <1>1, <1>4, <1>6 DEF ExactRunning
<1>8. OutfilesTrue'
  BY <1>6 DEF OutfilesTrue
<1> QED
  BY <1>1, <1>5, <1>6, <1>7, <1>8 DEF ExactProgram

----------------------------------------------------------------------------
(* The driver keeps ExactInv.                                              *)

\* A program that is not run is at its beginning, which any mode may choose
\* to measure (launch of the .sh file).
LEMMA ExactInvStep ==
  ASSUME PlanInv, PapiTypes, ExactInv, stage # "identify", [Next]_vars
  PROVE  ExactInv'
<1>1. /\ PlacesInv /\ CountedInv /\ PerfTypes /\ per_region \in BOOLEAN
      /\ ExactProgram
  BY DEF PlanInv, DriverTypes, PapiTypes, ExactInv
<1>2. CASE CountedProgram
  <2>1. stage = "program" /\ stage' = "program" /\ barriers' = barriers
    BY <1>2 DEF CountedProgram
  <2>2. ExactProgram' /\ per_region' = per_region
    BY <1>1, <1>2, ExactStep
  <2> QED
    BY <2>1, <2>2 DEF ExactInv
<1>3. CASE Gone /\ UNCHANGED text /\ stage' # "program"
  BY <1>1, <1>3, ExactGone DEF ExactInv
<1>4. ASSUME UNCHANGED <<team, pc, at, text, started, running, count,
                         counters, pbarrier, outfile, exit_status,
                         per_region>>
      PROVE  ExactProgram'
  <2>1. \A u : Here(u)' = Here(u)
    BY <1>4 DEF Here
  <2>2. \A u : Counts(u)' <=> Counts(u)
    <3> HIDE DEF Here
    <3> QED
      BY <1>4, <2>1 DEF Counts
  <2>3. ExactRunning' <=> ExactRunning
    <3> HIDE DEF Here, Counts
    <3> QED
      BY <1>4, <2>1, <2>2 DEF ExactRunning
  <2>4. TeamInv' <=> TeamInv
    BY <1>4 DEF TeamInv
  <2>5. OutfilesTrue' <=> OutfilesTrue
    BY <1>4 DEF OutfilesTrue
  <2> QED
    BY <1>1, <1>4, <2>3, <2>4, <2>5 DEF ExactProgram
<1>5. CASE StaysOut /\ stage # "program" /\ stage' # "program"
  <2>1. UNCHANGED <<team, pc, at, text, started, running, count, counters,
                    pbarrier, outfile, exit_status, per_region>>
    BY <1>5 DEF StaysOut, roiVars, processVars, perfVars, storeVars
  <2> QED
    BY <1>4, <1>5, <2>1 DEF ExactInv
<1>6. CASE UNCHANGED vars
  <2>1. UNCHANGED <<team, pc, at, text, started, running, count, counters,
                    pbarrier, outfile, exit_status, per_region, stage,
                    barriers>>
    BY <1>6 DEF vars, roiVars, processVars, perfVars, storeVars, driverVars
  <2> QED
    BY <1>4, <2>1 DEF ExactInv
<1>7. CASE LaunchProgram
  <2>1. /\ UNCHANGED <<team, pc, at, text, started, running, count, counters,
                       pbarrier, outfile, exit_status>>
        /\ per_region' = (barriers = 1) /\ stage' = "program"
        /\ barriers' = barriers /\ stage = "launch"
    BY <1>7 DEF LaunchProgram, roiVars, processVars, storeVars
  <2>2. /\ exit_status = "running" /\ ~started
        /\ \A t \in Threads : outfile[t] = <<>>
    BY <2>1 DEF ExactInv
  <2>3. \A u : Here(u)' = Here(u)
    BY <2>1 DEF Here
  <2>4. ExactRunning'
    <3>1. ExactRunning
      BY <1>1, <2>2 DEF ExactProgram
    <3> HIDE DEF Here, Counts
    <3> QED
      BY <2>1, <2>2, <2>3, <3>1 DEF ExactRunning
  <2>5. TeamInv' /\ OutfilesTrue'
    BY <1>1, <2>1, <2>2 DEF ExactProgram, TeamInv, OutfilesTrue
  <2> QED
    BY <2>1, <2>4, <2>5 DEF ExactInv, ExactProgram
<1> QED
  BY <1>2, <1>3, <1>5, <1>6, <1>7 DEF Next, Identify, StartBenchmarks,
     CreateExperimentBatch, RemoveOld, DryRun, ProgramEnds, ParseAndWrite,
     WriteFails, Interrupt, EstimateError

\* The identification leaves nothing behind.
LEMMA ExactInvBegins ==
  ASSUME PlacesInv, stage = "identify", stage' # "identify", [Next]_vars
  PROVE  ExactInv'
<1>1. Gone /\ text' = text /\ stage' = "idle"
  BY DEF Next, Identify, DrEnds, DrProgram, StartBenchmarks,
     CreateExperimentBatch, RemoveOld, DryRun, LaunchProgram, CountedProgram,
     ProgramEnds, ParseAndWrite, WriteFails, Interrupt, EstimateError, vars,
     driverVars
<1> QED
  BY <1>1, ExactGone DEF ExactInv

----------------------------------------------------------------------------
(* The files.                                                              *)

\* A file before and after what a process has appended for thread t.
GrownBy(old, new, out, t, r, i, rd) ==
  /\ out \in OutLines
  /\ Len(old[t]) \in Nat /\ DOMAIN old[t] = 1..Len(old[t])
  /\ \A n \in DOMAIN old[t] : old[t][n].round \in Nat
  /\ new[t] \in Seq({new[t][n] : n \in DOMAIN new[t]})
  /\ DOMAIN new[t] = 1..(Len(old[t]) + Len(out))
  /\ \A n \in 1..Len(old[t]) : new[t][n] = old[t][n]
  /\ \A n \in 1..Len(out) :
       new[t][Len(old[t]) + n]
         = [run |-> r, rep |-> i, round |-> rd, bid |-> out[n].bid,
            work |-> out[n].work]

\* What a process has printed goes to the end of the file: it is of the round
\* the script is in, after all the others (RunBenchmarks.py:483-501).
LEMMA FileGrows ==
  ASSUME NEW x \in Seq(Operations), OneRoi(x), NEW m \in Modes, NEW i,
         NEW t, NEW file, NEW file2, NEW out, NEW r, NEW rd \in Nat,
         GrownBy(file, file2, out, t, r, i, rd),
         ThreadTrue(x, m, i, t, file),
         out = <<>> \/ Printed(x, t, m = 1, out),
         \A n \in DOMAIN file[t] :
           file[t][n].round < rd /\ file[t][n].run = r
  PROVE  /\ ThreadTrue(x, m, i, t, file2)
         /\ \A n \in DOMAIN file2[t] :
              file2[t][n].round < rd + 1 /\ file2[t][n].run = r
<1> DEFINE a == file[t]
           b == file2[t]
           k == Len(a)
<1>30. /\ out \in OutLines /\ Len(file[t]) \in Nat
       /\ DOMAIN file[t] = 1..Len(file[t])
       /\ \A n \in DOMAIN file[t] : file[t][n].round \in Nat
       /\ file2[t] \in Seq({file2[t][n] : n \in DOMAIN file2[t]})
       /\ DOMAIN file2[t] = 1..(Len(file[t]) + Len(out))
       /\ \A n \in 1..Len(file[t]) : file2[t][n] = file[t][n]
       /\ \A n \in 1..Len(out) :
            file2[t][Len(file[t]) + n]
              = [run |-> r, rep |-> i, round |-> rd, bid |-> out[n].bid,
                 work |-> out[n].work]
  BY DEF GrownBy
<1>1. /\ k \in Nat /\ Len(out) \in Nat /\ DOMAIN out = 1..Len(out)
      /\ PointCount(x) \in Nat
  BY <1>30, PassedFacts DEF PassedFact, PointCount, OutLines
<1>20. ASSUME NEW l \in 1..Len(out)
       PROVE  /\ b[k + l].run = r /\ b[k + l].rep = i /\ b[k + l].round = rd
              /\ b[k + l].bid = out[l].bid /\ b[k + l].work = out[l].work
  <2>1. b[k + l] = [run |-> r, rep |-> i, round |-> rd, bid |-> out[l].bid,
                    work |-> out[l].work]
    BY <1>30
  <2> HIDE DEF b, k
  <2> QED
    BY <2>1
<1>21. \A n \in 1..k : b[n] = a[n]
  BY <1>30
<1>2. ASSUME NEW n \in DOMAIN b
      PROVE  \/ n \in 1..k /\ b[n] = a[n]
             \/ /\ n - k \in 1..Len(out) /\ n > k
                /\ b[n].run = r /\ b[n].rep = i /\ b[n].round = rd
                /\ b[n].bid = out[n - k].bid /\ b[n].work = out[n - k].work
  <2>1. n \in 1..(k + Len(out))
    BY <1>30
  <2> HIDE DEF k
  <2>2. n \in 1..k \/ (n - k \in 1..Len(out) /\ n > k /\ k + (n - k) = n)
    BY <1>1, <2>1
  <2> DEFINE l == n - k
  <2>3. n \in 1..k \/ (l \in 1..Len(out) /\ n > k /\ k + l = n)
    BY <2>2
  <2>4. CASE n \in 1..k
    BY <1>21, <2>4
  <2>5. CASE l \in 1..Len(out) /\ n > k /\ k + l = n
    <3> HIDE DEF a, b, l
    <3>1. /\ b[n].run = r /\ b[n].rep = i /\ b[n].round = rd
          /\ b[n].bid = out[l].bid /\ b[n].work = out[l].work
      BY <1>20, <2>5
    <3> QED
      BY <2>5, <3>1 DEF l
  <2> QED
    BY <2>3, <2>4, <2>5
<1>3. out # <<>> =>
        /\ HasRoi(x)
        /\ m = 1 => \A n \in 1..Len(out) : out[n].bid = n - 1
        /\ m # 1 => Len(out) = 1
        /\ \A n \in 1..Len(out) : RecordTrue(x, m, t, out[n])
  <2> SUFFICES ASSUME Printed(x, t, m = 1, out)
               PROVE  /\ HasRoi(x)
                      /\ m = 1 => \A n \in 1..Len(out) : out[n].bid = n - 1
                      /\ m # 1 => Len(out) = 1
                      /\ \A n \in 1..Len(out) : RecordTrue(x, m, t, out[n])
    OBVIOUS
  <2>1. HasRoi(x)
    BY DEF Printed
  <2>2. CASE m = 1
    <3>1. /\ \A n \in 1..Len(out) : out[n].bid = n - 1
          /\ IF Full(x, t)
             THEN /\ Len(out) = PointCount(x) + 1
                  /\ \A n \in 1..Len(out) :
                       out[n].work = PhaseWork(x, t, n - 1)
             ELSE Len(out) <= PointCount(x)
      BY <1>1, <2>2 DEF Printed
    <3>2. ASSUME NEW n \in 1..Len(out)
          PROVE  RecordTrue(x, m, t, out[n])
      BY <1>1, <2>1, <2>2, <3>1 DEF RecordTrue
    <3> QED
      BY <2>1, <2>2, <3>1, <3>2
  <2>3. CASE m # 1
    <3>1. Len(out) = 1 /\ out[1].bid = 0 /\ out[1].work = AllWork(x, t)
      BY <2>3 DEF Printed
    <3>2. \A n \in 1..Len(out) : n = 1
      BY <3>1
    <3>3. \A n \in 1..Len(out) : RecordTrue(x, m, t, out[n])
      BY <2>1, <2>3, <3>1, <3>2 DEF RecordTrue
    <3> QED
      BY <2>1, <2>3, <3>1, <3>3
  <2> QED
    BY <2>2, <2>3
<1>4. OrderedFile(file2, t, i)
  <2>1. \A n \in 1..k :
          /\ a[n].rep = i
          /\ \A l \in 1..k : l < n /\ a[l].bid = a[n].bid
               => a[l].round < a[n].round
    BY <1>30 DEF ThreadTrue, OrderedFile
  <2>2. ASSUME NEW n \in DOMAIN b, NEW l \in DOMAIN b, l < n,
               b[l].bid = b[n].bid
        PROVE  b[l].round < b[n].round
    <3>1. CASE n \in 1..k /\ b[n] = a[n]
      <4>1. l \in 1..k /\ b[l] = a[l]
        <5>1. l \in 1..(k + Len(out)) /\ n \in 1..k /\ l < n
          BY <1>30, <2>2, <3>1
        <5> HIDE DEF k, a, b
        <5>2. l \in 1..k
          BY <1>1, <5>1
        <5> QED
          BY <1>21, <5>2
      <4> HIDE DEF a, b, k
      <4> QED
        BY <2>1, <2>2, <3>1, <4>1
    <3>2. CASE n - k \in 1..Len(out) /\ n > k /\ b[n].round = rd
                 /\ b[n].bid = out[n - k].bid
      <4>1. CASE l \in 1..k /\ b[l] = a[l]
        BY <3>2, <4>1
      <4>2. CASE l - k \in 1..Len(out) /\ b[l].bid = out[l - k].bid
        <5> DEFINE ln == l - k
                   nn == n - k
        <5>1. /\ ln \in 1..Len(out) /\ nn \in 1..Len(out)
              /\ out[ln].bid = out[nn].bid
          BY <2>2, <3>2, <4>2
        <5>2. ln < nn
          <6>1. l \in 1..(k + Len(out)) /\ n \in 1..(k + Len(out))
            BY <1>30
          <6> HIDE DEF k, a, b
          <6> QED
            BY <1>1, <2>2, <6>1
        <5> HIDE DEF ln, nn, a, b, k
        <5>3. out # <<>>
          BY <5>1
        <5>4. CASE m = 1
          <6>1. ln - 1 = nn - 1
            BY <1>3, <5>1, <5>3, <5>4
          <6> QED
            BY <1>1, <5>1, <5>2, <6>1
        <5>5. CASE m # 1
          <6>1. Len(out) = 1
            BY <1>3, <5>3, <5>5
          <6> QED
            BY <5>1, <5>2, <6>1
        <5> QED
          BY <5>4, <5>5
      <4> HIDE DEF a, b, k
      <4> QED
        BY <1>2, <4>1, <4>2
    <3> HIDE DEF a, b, k
    <3> QED
      BY <1>2, <3>1, <3>2
  <2>3. \A n \in DOMAIN b : b[n].rep = i
    <3> HIDE DEF a, b, k
    <3> QED
      BY <1>2, <2>1
  <2> QED
    BY <2>2, <2>3 DEF OrderedFile
<1>5. ASSUME NEW n \in DOMAIN b
      PROVE  RecordTrue(x, m, t, b[n])
  <2>1. \A l \in 1..k : RecordTrue(x, m, t, a[l])
    BY <1>30 DEF ThreadTrue
  <2>2. CASE n \in 1..k /\ b[n] = a[n]
    <3> HIDE DEF a, b, k
    <3> QED
      BY <2>1, <2>2
  <2>3. CASE /\ n - k \in 1..Len(out)
             /\ b[n].bid = out[n - k].bid /\ b[n].work = out[n - k].work
    <3> HIDE DEF a, b, k
    <3>1. out # <<>>
      BY <2>3
    <3>2. RecordTrue(x, m, t, out[n - k])
      BY <1>3, <2>3, <3>1
    <3> QED
      BY <2>3, <3>2 DEF RecordTrue
  <2> HIDE DEF a, b, k
  <2> QED
    BY <1>2, <2>2, <2>3
<1>6. m = 1 /\ t = Master /\ b # <<>> =>
        \E n \in DOMAIN b : b[n].bid = PointCount(x)
  <2> SUFFICES ASSUME m = 1, t = Master, b # <<>>
               PROVE  \E n \in DOMAIN b : b[n].bid = PointCount(x)
    OBVIOUS
  <2>1. CASE a # <<>>
    <3>1. PICK n \in 1..k : a[n].bid = PointCount(x)
      BY <1>30, <2>1 DEF ThreadTrue
    <3>2. n \in DOMAIN b /\ b[n] = a[n]
      <4>1. DOMAIN b = 1..(k + Len(out)) /\ \A l \in 1..k : b[l] = a[l]
        BY <1>30
      <4> HIDE DEF a, b, k
      <4> QED
        BY <1>1, <3>1, <4>1
    <3> QED
      BY <3>1, <3>2
  <2>2. CASE a = <<>> /\ out # <<>>
    <3>1. k = 0
      BY <2>2
    <3>2. Full(x, t)
      BY DEF Full, AllCounted
    <3>3. Len(out) = PointCount(x) + 1 /\ Len(out) \in DOMAIN out
          /\ \A n \in DOMAIN out : out[n].bid = n - 1
      BY <1>1, <2>2, <3>2 DEF Printed
    <3> DEFINE l == Len(out)
    <3>4. l \in 1..l /\ l \in DOMAIN b /\ k + l = l
      BY <1>1, <1>30, <3>1, <3>3
    <3>5. b[k + l].bid = out[l].bid
      BY <1>20, <3>4
    <3> QED
      BY <1>1, <3>3, <3>4, <3>5
  <2>3. CASE a = <<>> /\ out = <<>>
    <3>1. DOMAIN b = 1..0
      BY <1>30, <2>3
    <3>2. b = <<>>
      <4>1. b \in Seq({b[n] : n \in DOMAIN b})
        BY <1>30
      <4> HIDE DEF b
      <4> QED
        BY <3>1, <4>1
    <3> QED
      BY <3>2
  <2> QED
    BY <2>1, <2>2, <2>3
<1>7. ASSUME NEW n \in DOMAIN b
      PROVE  b[n].round < rd + 1 /\ b[n].run = r
  <2>1. \A l \in 1..k : a[l].round < rd /\ a[l].run = r /\ a[l].round \in Nat
    BY <1>30
  <2> HIDE DEF a, b, k
  <2> QED
    BY <1>2, <2>1
<1>8. ThreadTrue(x, m, i, t, file2)
  BY <1>4, <1>5, <1>6 DEF ThreadTrue
<1> QED
  BY <1>7, <1>8

\* Which file a process writes to, and what becomes of it.
LEMMA AppendedIs ==
  ASSUME PapiTypes, stage = "program"
  PROVE  /\ \A m \in Modes : \A i \in Reps :
              m # barriers \/ i # rep => Appended[m][i] = papi[m][i]
         /\ \A t \in Tids :
              GrownBy(papi[barriers][rep], Appended[barriers][rep],
                      outfile[t], t, run, rep, round)
<1> DEFINE Rec == PapiRecord(platform)
           old == papi[barriers][rep]
           line(t, n) == [run |-> run, rep |-> rep, round |-> round,
                          bid |-> outfile[t][n].bid,
                          work |-> outfile[t][n].work]
           written(t) == [n \in DOMAIN outfile[t] |-> line(t, n)]
           new == [t \in Threads |-> old[t] \o written(t)]
           files == papi[barriers]
           files2 == [files EXCEPT ![rep] = new]
<1>1. /\ papi \in [Modes -> PapiFiles(platform)]
      /\ barriers \in Modes /\ rep \in Reps /\ Threads = Tids
  BY MeasurementAssumption DEF PapiTypes, Reps
<1>2. files \in [Reps -> [Tids -> Seq(Rec)]]
  BY <1>1 DEF PapiFiles, Reps
<1>3. Appended = [papi EXCEPT ![barriers] = files2]
  BY DEF Appended
<1>4. old \in [Tids -> Seq(Rec)] /\ files2 \in [Reps -> {new, old}
        \cup {files[i] : i \in Reps}]
  <2> HIDE DEF new, Rec
  <2>1. old = files[rep]
    OBVIOUS
  <2> HIDE DEF files, old
  <2> QED
    BY <1>1, <1>2, <2>1
<1>5. /\ Appended[barriers] = files2 /\ files2[rep] = new
      /\ \A m \in Modes : m # barriers => Appended[m] = papi[m]
      /\ \A i \in Reps : i # rep => files2[i] = files[i]
  <2> HIDE DEF new, Rec
  <2>1. files2[rep] = new /\ \A i \in Reps : i # rep => files2[i] = files[i]
    <3> HIDE DEF files
    <3> QED
      BY <1>1, <1>2
  <2> HIDE DEF files2
  <2> QED
    BY <1>1, <1>3, <2>1
<1>6. ASSUME NEW m \in Modes, NEW i \in Reps, m # barriers \/ i # rep
      PROVE  Appended[m][i] = papi[m][i]
  <2>1. CASE m # barriers
    <3> HIDE DEF files2, new, Rec
    <3> QED
      BY <1>5, <2>1
  <2>2. CASE m = barriers /\ i # rep
    <3>1. Appended[m] = files2
      <4> HIDE DEF files2, new, Rec
      <4> QED
        BY <1>5, <2>2
    <3>2. files2[i] = files[i]
      <4> HIDE DEF files2, new, Rec
      <4> QED
        BY <1>5, <2>2
    <3> HIDE DEF files2, new, Rec
    <3> QED
      BY <2>2, <3>1, <3>2
  <2> QED
    BY <1>6, <2>1, <2>2
<1>7. Appended[barriers][rep] = new
  <2> HIDE DEF files2, new, Rec
  <2> QED
    BY <1>5
<1>8. ASSUME NEW t \in Tids
      PROVE  /\ outfile[t] \in OutLines
             /\ Len(old[t]) \in Nat /\ DOMAIN old[t] = 1..Len(old[t])
             /\ \A n \in DOMAIN old[t] : old[t][n].round \in Nat
             /\ new[t] \in Seq({new[t][n] : n \in DOMAIN new[t]})
             /\ DOMAIN new[t] = 1..(Len(old[t]) + Len(outfile[t]))
             /\ \A n \in 1..Len(old[t]) : new[t][n] = old[t][n]
             /\ \A n \in 1..Len(outfile[t]) :
                  new[t][Len(old[t]) + n] = line(t, n)
  <2> DEFINE a == old[t]
             o == outfile[t]
             Lin == {line(t, n) : n \in DOMAIN o}
             w == written(t)
             All == Lin \cup Rec
             b == a \o w
  <2>1. /\ o \in OutLines /\ Len(o) \in Nat /\ DOMAIN o = 1..Len(o)
    BY <1>1 DEF PapiTypes, PerfTypes, OutLines
  <2>2. a \in Seq(Rec) /\ Len(a) \in Nat /\ DOMAIN a = 1..Len(a)
    <3>1. a \in Seq(Rec)
      <4> HIDE DEF old, Rec
      <4> QED
        BY <1>4
    <3> HIDE DEF a, Rec
    <3> QED
      BY <3>1
  <2>3. w \in Seq(Lin) /\ Len(w) = Len(o)
        /\ \A n \in 1..Len(o) : w[n] = line(t, n)
    <3>1. w = [n \in 1..Len(o) |-> line(t, n)]
      BY <2>1
    <3>2. \A n \in 1..Len(o) : line(t, n) \in Lin
      BY <2>1
    <3> HIDE DEF line, Lin, o, w
    <3> QED
      BY <2>1, <3>1, <3>2
  <2>4. \A n \in DOMAIN a : a[n].round \in Nat
    <3>1. \A v \in Rec : v.round \in Nat
      <4>1. \A v \in Rec : v.round \in 1..Len(PAPI_rounds[platform])
        BY DEF PapiRecord
      <4>2. Len(PAPI_rounds[platform]) \in Nat
        BY RoundsCount DEF PapiTypes, LastRound
      <4> QED
        BY <4>1, <4>2
    <3>2. \A n \in 1..Len(a) : a[n] \in Rec
      <4> HIDE DEF a, Rec
      <4> QED
        BY <2>2
    <3> HIDE DEF a, Rec
    <3> QED
      BY <2>2, <3>1, <3>2
  <2>5. /\ b \in Seq(All) /\ Len(b) = Len(a) + Len(o)
        /\ DOMAIN b = 1..(Len(a) + Len(o))
        /\ \A n \in 1..Len(a) : b[n] = a[n]
        /\ \A n \in 1..Len(o) : b[Len(a) + n] = w[n]
    <3> HIDE DEF a, w, o, Rec, Lin
    <3>1. a \in Seq(All) /\ w \in Seq(All)
      BY <2>2, <2>3
    <3> HIDE DEF All
    <3>2. /\ b \in Seq(All) /\ Len(b) = Len(a) + Len(w)
          /\ \A n \in 1..Len(a) : b[n] = a[n]
      BY <3>1
    <3>3. \A n \in 1..Len(w) : b[Len(a) + n] = w[n]
      BY <3>1
    <3>4. DOMAIN b = 1..Len(b)
      BY <3>2
    <3> HIDE DEF b
    <3> QED
      BY <2>3, <3>2, <3>3, <3>4
  <2>6. b \in Seq({b[n] : n \in DOMAIN b})
    <3>4. b \in Seq(All)
      BY <2>5
    <3> HIDE DEF b, All
    <3>1. /\ Len(b) \in Nat /\ DOMAIN b = 1..Len(b)
          /\ b = [n \in 1..Len(b) |-> b[n]]
      BY <3>4
    <3> DEFINE B == {b[n] : n \in DOMAIN b}
    <3>2. \A n \in 1..Len(b) : b[n] \in B
      BY <3>1
    <3> HIDE DEF B
    <3> QED
      BY <3>1, <3>2 DEF B
  <2>7. new[t] = b
    BY <1>1
  <2> HIDE DEF b, w, line, new, a, o
  <2> QED
    BY <2>1, <2>2, <2>3, <2>4, <2>5, <2>6, <2>7 DEF a, o
<1>9. ASSUME NEW t \in Tids
      PROVE  GrownBy(old, new, outfile[t], t, run, rep, round)
  <2>1. /\ outfile[t] \in OutLines
        /\ Len(old[t]) \in Nat /\ DOMAIN old[t] = 1..Len(old[t])
        /\ \A n \in DOMAIN old[t] : old[t][n].round \in Nat
        /\ new[t] \in Seq({new[t][n] : n \in DOMAIN new[t]})
        /\ DOMAIN new[t] = 1..(Len(old[t]) + Len(outfile[t]))
        /\ \A n \in 1..Len(old[t]) : new[t][n] = old[t][n]
        /\ \A n \in 1..Len(outfile[t]) :
             new[t][Len(old[t]) + n] = line(t, n)
    BY <1>8
  <2> HIDE DEF new, old
  <2> QED
    BY <2>1 DEF GrownBy
<1> HIDE DEF new, files2, Rec
<1> QED
  BY <1>6, <1>7, <1>9

\* The files after a process has ended, or has been killed.
LEMMA FilesAppended ==
  ASSUME PlacesInv, PapiTypes, FilesInv, ExactInv, stage = "program"
  PROVE  /\ \A m \in Modes : \A i \in Reps :
              FileTrue(text, m, i, Appended[m][i])
         /\ \A m \in Modes : \E r \in 0..run : OfRun(Appended[m], r)
         /\ OfRun(Appended[barriers], run)
         /\ \A i \in Reps : i > rep =>
              \A t \in Tids : Appended[barriers][i][t] = <<>>
         /\ \A t \in Tids : \A n \in DOMAIN Appended[barriers][rep][t] :
              Appended[barriers][rep][t][n].round < round + 1
<1> DEFINE old == papi[barriers][rep]
           new == Appended[barriers][rep]
<1>1. /\ text \in Seq(Operations) /\ OneRoi(text) /\ barriers \in Modes
      /\ rep \in Reps /\ run \in Nat /\ round \in Nat /\ Threads = Tids
  <2>1. LastRound \in Nat /\ round \in 1..LastRound
    BY RoundsCount DEF PapiTypes, LastRound
  <2> QED
    BY <2>1, MeasurementAssumption DEF PlacesInv, PapiTypes, Reps
<1>2. /\ \A m \in Modes : \A i \in Reps :
           m # barriers \/ i # rep => Appended[m][i] = papi[m][i]
      /\ \A t \in Tids :
           GrownBy(old, new, outfile[t], t, run, rep, round)
  BY AppendedIs
<1>3. /\ \A m \in Modes : \A i \in Reps : FileTrue(text, m, i, papi[m][i])
      /\ \A m \in Modes : \E r \in 0..run : OfRun(papi[m], r)
      /\ Scripted(papi[barriers])
  BY DEF FilesInv
<1>4. per_region = (barriers = 1) /\ OutfilesTrue
  BY DEF ExactInv, ExactProgram
<1>5. ASSUME NEW t \in Tids
      PROVE  /\ ThreadTrue(text, barriers, rep, t, new)
             /\ \A n \in DOMAIN new[t] :
                  new[t][n].round < round + 1 /\ new[t][n].run = run
  <2>1. GrownBy(old, new, outfile[t], t, run, rep, round)
    BY <1>2
  <2>2. ThreadTrue(text, barriers, rep, t, old)
    BY <1>1, <1>3 DEF FileTrue
  <2>3. outfile[t] = <<>> \/ Printed(text, t, barriers = 1, outfile[t])
    BY <1>1, <1>4 DEF OutfilesTrue
  <2>4. \A n \in DOMAIN old[t] : old[t][n].round < round /\ old[t][n].run = run
    BY <1>1, <1>3 DEF Scripted, OfRun
  <2> HIDE DEF old, new
  <2> QED
    BY <1>1, <2>1, <2>2, <2>3, <2>4, FileGrows
<1>6. FileTrue(text, barriers, rep, new)
  <2> HIDE DEF new
  <2> QED
    BY <1>5 DEF FileTrue
<1>7. ASSUME NEW m \in Modes, NEW i \in Reps
      PROVE  FileTrue(text, m, i, Appended[m][i])
  <2>1. CASE m = barriers /\ i = rep
    BY <1>6, <2>1
  <2>2. CASE m # barriers \/ i # rep
    BY <1>2, <1>3, <2>2
  <2> QED
    BY <2>1, <2>2
<1>8. OfRun(Appended[barriers], run)
  <2> SUFFICES ASSUME NEW i \in Reps, NEW t \in Tids,
                      NEW n \in DOMAIN Appended[barriers][i][t]
               PROVE  Appended[barriers][i][t][n].run = run
    BY DEF OfRun
  <2>1. CASE i = rep
    BY <1>5, <2>1
  <2>2. CASE i # rep
    <3>1. Appended[barriers][i] = papi[barriers][i]
      BY <1>1, <1>2, <2>2
    <3> QED
      BY <1>3, <3>1 DEF Scripted, OfRun
  <2> QED
    BY <2>1, <2>2
<1>9. ASSUME NEW m \in Modes
      PROVE  \E r \in 0..run : OfRun(Appended[m], r)
  <2>1. CASE m = barriers
    BY <1>1, <1>8, <2>1
  <2>2. CASE m # barriers
    <3>1. PICK r \in 0..run : OfRun(papi[m], r)
      BY <1>3
    <3>2. \A i \in Reps : Appended[m][i] = papi[m][i]
      BY <1>2, <2>2
    <3>3. OfRun(Appended[m], r)
      BY <3>1, <3>2 DEF OfRun
    <3> QED
      BY <3>3
  <2> QED
    BY <2>1, <2>2
<1>10. ASSUME NEW i \in Reps, i > rep, NEW t \in Tids
       PROVE  Appended[barriers][i][t] = <<>>
  <2>1. i # rep
    BY <1>1, <1>10 DEF Reps
  <2>2. Appended[barriers][i] = papi[barriers][i]
    BY <1>1, <1>2, <2>1
  <2> QED
    BY <1>3, <1>10, <2>2 DEF Scripted
<1> QED
  BY <1>5, <1>7, <1>8, <1>9, <1>10

\* A file that is not there.
LEMMA NoFileTrue ==
  ASSUME NEW x, NEW m, NEW i, NEW file, \A t \in Tids : file[t] = <<>>
  PROVE  FileTrue(x, m, i, file)
<1>1. ASSUME NEW t \in Tids
      PROVE  ThreadTrue(x, m, i, t, file)
  <2>1. file[t] = <<>> /\ DOMAIN file[t] = {}
    BY <1>1
  <2> QED
    BY <2>1 DEF ThreadTrue, OrderedFile
<1> QED
  BY <1>1 DEF FileTrue

\* The script removes the files of its mode.
LEMMA FilesRemoved ==
  ASSUME PapiTypes, FilesInv, RemoveOld
  PROVE  FilesInv'
<1>1. /\ platform \in Supported /\ barriers \in Modes /\ run \in Nat
      /\ papi \in [Modes -> PapiFiles(platform)]
      /\ UNCHANGED <<text, run, barriers>> /\ rep' = 0 /\ round' = 1
      /\ papi' = [papi EXCEPT ![barriers] =
                    [i \in DOMAIN @ |-> IF i \in Cleared THEN NoFile
                                        ELSE @[i]]]
      /\ Threads = Tids
  BY MeasurementAssumption DEF RemoveOld, StaysOut, PapiTypes
<1>2. papi[barriers] \in PapiFiles(platform)
  BY <1>1
<1>3. DOMAIN papi[barriers] = Reps
  BY <1>2 DEF PapiFiles, Reps
<1>4. /\ \A m \in Modes \ {barriers} : papi'[m] = papi[m]
      /\ \A i \in Reps : papi'[barriers][i] = NoFile
  <2> DEFINE new == [i \in DOMAIN papi[barriers] |->
                       IF i \in Cleared THEN NoFile ELSE papi[barriers][i]]
  <2>1. papi' = [papi EXCEPT ![barriers] = new]
    BY <1>1
  <2>2. \A i \in Reps : new[i] = NoFile
    BY <1>3 DEF Reps, Cleared
  <2> HIDE DEF new
  <2>3. /\ papi'[barriers] = new
        /\ \A m \in Modes \ {barriers} : papi'[m] = papi[m]
    BY <1>1, <2>1
  <2> QED
    BY <2>2, <2>3
<1>5. \A i \in Reps : \A t \in Tids : papi'[barriers][i][t] = <<>>
  BY <1>1, <1>4 DEF NoFile
<1>6. \A i \in Reps : FileTrue(text, barriers, i, papi'[barriers][i])
  BY <1>5, NoFileTrue
<1>7. \A r : OfRun(papi'[barriers], r)
  <2>1. DOMAIN <<>> = {}
    OBVIOUS
  <2> QED
    BY <1>5, <2>1 DEF OfRun
<1>8. \A m \in Modes : \A i \in Reps : FileTrue(text, m, i, papi'[m][i])
  BY <1>4, <1>6 DEF FilesInv
<1>9. \A m \in Modes : \E r \in 0..run : OfRun(papi'[m], r)
  <2>1. run \in 0..run
    BY <1>1
  <2> QED
    BY <1>4, <1>7, <2>1 DEF FilesInv
<1>10. \A t \in Tids : papi'[barriers][0][t] = <<>>
  BY <1>5, StatisticsAssumption DEF Reps
<1>11. Scripted(papi[barriers])'
  <2>1. DOMAIN <<>> = {}
    OBVIOUS
  <2> QED
    BY <1>1, <1>5, <1>7, <1>10, <2>1 DEF Scripted
<1> QED
  BY <1>1, <1>8, <1>9, <1>11 DEF FilesInv

\* A step that writes no file.
LEMMA FilesQuiet ==
  ASSUME FilesInv, UNCHANGED <<text, papi>>, run \in Nat,
         run' \in {run, run + 1},
         stage' \in {"launch", "program"} =>
           /\ stage \in {"launch", "program"}
           /\ UNCHANGED <<run, barriers, rep, round>>
  PROVE  FilesInv'
<1>1. \A m \in Modes : \E r \in 0..run' : OfRun(papi[m], r)
  <2>1. 0..run \subseteq 0..run'
    OBVIOUS
  <2> QED
    BY <2>1 DEF FilesInv
<1>2. stage' \in {"launch", "program"} => Scripted(papi[barriers])'
  BY DEF FilesInv, Scripted
<1> QED
  BY <1>1, <1>2 DEF FilesInv

\* The next round, or the next repetition.
LEMMA FilesEnded ==
  ASSUME PlacesInv, PapiTypes, FilesInv, ExactInv, ProgramEnds
  PROVE  FilesInv'
<1>1. /\ stage = "program" /\ papi' = Appended
      /\ UNCHANGED <<text, run, barriers>> /\ rep \in Reps
      /\ \/ round' = round + 1 /\ rep' = rep
         \/ rep < Iterations - 1 /\ round' = 1 /\ rep' = rep + 1
         \/ stage' \in {"parse", "idle"}
  BY DEF ProgramEnds, PapiTypes, Reps
<1>2. /\ \A m \in Modes : \A i \in Reps :
           FileTrue(text, m, i, Appended[m][i])
      /\ \A m \in Modes : \E r \in 0..run : OfRun(Appended[m], r)
      /\ OfRun(Appended[barriers], run)
      /\ \A i \in Reps : i > rep =>
           \A t \in Tids : Appended[barriers][i][t] = <<>>
      /\ \A t \in Tids : \A n \in DOMAIN Appended[barriers][rep][t] :
           Appended[barriers][rep][t][n].round < round + 1
  BY <1>1, FilesAppended
<1>3. stage' \in {"launch", "program"} => Scripted(papi[barriers])'
  <2>1. CASE round' = round + 1 /\ rep' = rep
    BY <1>1, <1>2, <2>1 DEF Scripted
  <2>2. CASE rep < Iterations - 1 /\ round' = 1 /\ rep' = rep + 1
    <3>1. rep + 1 \in Reps /\ rep + 1 > rep
          /\ \A i \in Reps : i > rep + 1 => i > rep
      BY <1>1, <2>2, StatisticsAssumption DEF Reps
    <3>2. \A t \in Tids : Appended[barriers][rep + 1][t] = <<>>
      BY <1>2, <3>1
    <3>3. DOMAIN <<>> = {}
      OBVIOUS
    <3> QED
      BY <1>1, <1>2, <2>2, <3>1, <3>2, <3>3 DEF Scripted
  <2> QED
    BY <1>1, <2>1, <2>2
<1> QED
  BY <1>1, <1>2, <1>3 DEF FilesInv

\* Every step of the driver.
LEMMA FilesStep ==
  ASSUME PlacesInv, PapiTypes, FilesInv, stage # "identify" => ExactInv,
         [Next]_vars
  PROVE  FilesInv'
<1>1. run \in Nat
  BY DEF PapiTypes
<1>2. CASE Identify
  BY <1>1, <1>2, FilesQuiet DEF Identify, DrProgram, DrEnds, driverVars
<1>3. CASE \E d \in BOOLEAN : StartBenchmarks(d)
  BY <1>1, <1>3, FilesQuiet DEF StartBenchmarks, StaysOut
<1>4. CASE CreateExperimentBatch \/ DryRun
  BY <1>1, <1>4, FilesQuiet DEF CreateExperimentBatch, DryRun, StaysOut
<1>5. CASE RemoveOld
  BY <1>5, FilesRemoved
<1>6. CASE LaunchProgram
  BY <1>1, <1>6, FilesQuiet DEF LaunchProgram
<1>7. CASE CountedProgram
  BY <1>1, <1>7, FilesQuiet DEF CountedProgram
<1>8. CASE ProgramEnds
  <2>1. ExactInv
    BY <1>8 DEF ProgramEnds
  <2> QED
    BY <1>8, <2>1, FilesEnded
<1>9. CASE ParseAndWrite
  BY <1>1, <1>9, FilesQuiet DEF ParseAndWrite, StaysOut
<1>10. CASE WriteFails
  BY <1>1, <1>10, FilesQuiet DEF WriteFails, StaysOut
<1>11. CASE Interrupt
  <2>1. stage' = "idle" /\ UNCHANGED <<text, run, barriers>>
    BY <1>11 DEF Interrupt
  <2>2. CASE stage = "program"
    <3>1. papi' = Appended
      BY <1>11, <2>2 DEF Interrupt
    <3> QED
      BY <2>1, <2>2, <3>1, FilesAppended DEF FilesInv
  <2>3. CASE stage # "program"
    <3>1. papi' = papi
      BY <1>11, <2>3 DEF Interrupt
    <3> QED
      BY <1>1, <2>1, <3>1, FilesQuiet
  <2> QED
    BY <2>2, <2>3
<1>12. CASE \E bp \in 1..(regions - 1) : EstimateError(bp)
  BY <1>1, <1>12, FilesQuiet DEF EstimateError, StaysOut
<1>13. CASE UNCHANGED vars
  BY <1>1, <1>13, FilesQuiet DEF vars, driverVars
<1> QED
  BY <1>2, <1>3, <1>4, <1>5, <1>6, <1>7, <1>8, <1>9, <1>10, <1>11, <1>12,
     <1>13 DEF Next

\* At first there are no files.
LEMMA FilesBegin == Init => FilesInv
<1> SUFFICES ASSUME Init
             PROVE  FilesInv
  OBVIOUS
<1>1. /\ papi = [m \in Modes |-> [i \in Reps |-> NoFile]]
      /\ stage = "identify" /\ run = 0
  BY DEF Init, Reps
<1>2. \A m \in Modes : \A i \in Reps : \A t \in Tids : papi[m][i][t] = <<>>
  BY <1>1, MeasurementAssumption DEF NoFile
<1>3. \A m \in Modes : OfRun(papi[m], 0)
  <2>1. DOMAIN <<>> = {}
    OBVIOUS
  <2> QED
    BY <1>2, <2>1 DEF OfRun
<1>4. 0 \in 0..run
  BY <1>1
<1> QED
  BY <1>1, <1>2, <1>3, <1>4, NoFileTrue DEF FilesInv

----------------------------------------------------------------------------
(* How many regions the client has found.                                  *)

\* Only the marker at the end of the region of interest brings the master
\* out of it.
LEMMA DrNumberedStep ==
  ASSUME PlacesInv, DrInv, MarksAlone, DrNumbered, DrProgram, text' = text
  PROVE  DrNumbered'
<1> DEFINE m == at[Master]
<1>1. m \in 1..(Len(text) + 1)
  BY Executing
<1>2. ASSUME at' = at, synch_count' = synch_count \/ in_roi
      PROVE  DrNumbered'
  BY <1>2 DEF DrNumbered, DrInv, DrFlags
<1>3. CASE DrSetRoi \/ \E t \in Threads : \/ DrCallBarrier(t) \/ DrReadEnv(t)
                                          \/ DrFinish(t)
  BY <1>2, <1>3 DEF DrSetRoi, DrCallBarrier, DrReadEnv, DrFinish
<1>4. ASSUME NEW t \in Threads, DrTestFlag(t)
      PROVE  DrNumbered'
  <2>1. at' = at /\ synch_count \in Nat
        /\ synch_count' = synch_count
             + (IF in_roi /\ t = Master /\ pc'[t] = "real" THEN 1 ELSE 0)
    BY <1>4, HereFact, Executing DEF DrTestFlag, Saved, DrInv, DrCounts
  <2>2. synch_count' = synch_count \/ in_roi
    BY <2>1
  <2> QED
    BY <1>2, <2>1, <2>2
<1>5. ASSUME NEW t \in Threads, DrMark(t)
      PROVE  DrNumbered'
  <2>1. /\ t = Master /\ pc[Master] \in {"start", "end"}
        /\ synch_count' = synch_count + (IF pc[Master] = "end" THEN 1 ELSE 0)
        /\ at' = [at EXCEPT ![Master] = @ + 1]
    BY <1>5 DEF DrMark, Mark, Saved, Past, MarksAlone
  <2>2. at'[Master] = m + 1 /\ m \in 1..Len(text)
    BY <2>1, Executing DEF PlacesInv
  <2>3. CASE pc[Master] = "start"
    <3>1. SetTo(text, m + 1) = "1"
      BY <2>2, <2>3, MasterMeets DEF DrInv, DrFlags
    <3> QED
      BY <2>2, <3>1 DEF DrNumbered
  <2>4. CASE pc[Master] = "end"
    <3>1. /\ text[m] = "off" /\ SetTo(text, m) = "1"
          /\ synch_count = Passed(text, m) + 0
      BY <2>4 DEF DrInv, DrFlags, DrCounts
    <3>2. Passed(text, m) \in Nat
      BY <2>2, MasterMeets
    <3> HIDE DEF m
    <3>3. PointCount(text) = Passed(text, m)
      <4>1. text \in Seq(Operations) /\ OneRoi(text)
        BY DEF PlacesInv
      <4> QED
        BY <2>2, <3>1, <4>1, WorkEnds
    <3>4. synch_count' = PointCount(text) + 1
      BY <2>1, <2>4, <3>1, <3>2, <3>3
    <3> QED
      BY <2>2, <3>4 DEF m, DrNumbered
  <2> QED
    BY <2>1, <2>3, <2>4
<1>6. CASE DrFork
  <2>1. /\ Meets(Master, {"par", "sub"})
        /\ Fork(Members(text[m])) /\ TeamPast(Members(text[m]))
        /\ synch_count' = synch_count + (IF in_roi THEN 1 ELSE 0)
    BY <1>6 DEF DrFork, Saved
  <2>2. at'[Master] = m + 1
    BY <2>1, PlacesFork
  <2>3. m <= Len(text) /\ text[m] \in {"par", "sub"}
    BY <2>1 DEF Meets
  <2>4. SetTo(text, m + 1) = SetTo(text, m)
        /\ (SetOn(text, m + 1) <=> SetOn(text, m))
    BY <2>3, MasterMeets
  <2>5. synch_count \in Nat
    BY HereFact, Executing DEF DrInv, DrCounts
  <2>6. synch_count' = synch_count \/ SetTo(text, m) = "1"
    BY <2>1, <2>5 DEF DrInv, DrFlags
  <2> QED
    BY <2>2, <2>4, <2>6 DEF DrNumbered
<1>7. CASE DrLibgomp
  <2>1. synch_count' = synch_count
    BY <1>7 DEF DrLibgomp
  <2>2. /\ m \in 1..Len(text) /\ at'[Master] = m + 1
        /\ \/ pc[Master] = "real" /\ text[m] \in {"on", "off", "bar"}
           \/ pc[Master] = "joined" /\ text[m] = "join"
    BY <1>7, PlacesRelease, PlacesJoin, Executing DEF DrLibgomp
  <2>3. \/ text[m] \in {"bar", "join"}
        \/ text[m] = "off" /\ SetTo(text, m) # "1"
    BY <2>2 DEF DrInv, DrFlags
  <2>4. /\ SetOn(text, m + 1) <=> SetOn(text, m)
        /\ text[m] \in {"bar", "join"} =>
             SetTo(text, m + 1) = SetTo(text, m)
    BY <2>2, <2>3, MasterMeets
  <2>5. SetOn(text, m) => SetTo(text, m) \in {"0", "1"}
    BY DEF SetTo
  <2> QED
    BY <2>1, <2>2, <2>3, <2>4, <2>5 DEF DrNumbered
<1> QED
  BY <1>3, <1>4, <1>5, <1>6, <1>7 DEF DrProgram

\* The identification ends with the program; nothing counts after it.
LEMMA NumberedStep ==
  ASSUME PlacesInv, NumberedInv, stage = "identify" => DrInv /\ MarksAlone,
         [Next]_vars
  PROVE  NumberedInv'
<1>1. CASE Identify /\ DrProgram
  <2>1. stage = "identify" /\ stage' = "identify" /\ UNCHANGED <<text, csv>>
    BY <1>1 DEF Identify, DrProgram, driverVars
  <2> QED
    BY <1>1, <2>1, DrNumberedStep DEF NumberedInv
<1>2. CASE Identify /\ DrEnds
  <2>1. /\ stage = "identify" /\ stage' = "idle" /\ text' = text
        /\ regions' = synch_count /\ at[Master] = Len(text) + 1
    BY <1>2 DEF Identify, DrEnds, AtEnd
  <2>2. HasRoi(text) =>
          SetTo(text, at[Master]) = "0" /\ SetOn(text, at[Master])
    BY <2>1 DEF HasRoi, SetTo
  <2> QED
    BY <2>1, <2>2 DEF NumberedInv, DrNumbered
<1>3. CASE UNCHANGED vars
  BY <1>3 DEF NumberedInv, DrNumbered, vars, clientVars, driverVars
<1>4. CASE stage # "identify" /\ stage' # "identify"
           /\ UNCHANGED <<text, regions>>
  BY <1>4 DEF NumberedInv
<1> QED
  BY <1>1, <1>2, <1>3, <1>4 DEF Next, Identify, StartBenchmarks,
     CreateExperimentBatch, RemoveOld, DryRun, LaunchProgram, CountedProgram,
     ProgramEnds, ParseAndWrite, WriteFails, Interrupt, EstimateError,
     StaysOut, clientVars

\* At first nothing is counted.
LEMMA NumberedBegin ==
  ASSUME Init
  PROVE  NumberedInv
<1>1. /\ stage = "identify" /\ at[Master] = 1 /\ text \in Seq(Operations)
      /\ OneRoi(text)
  BY MeasurementAssumption, MasterAssumption DEF Init, ProgramInit
<1>2. SetTo(text, 1) = "unset"
  BY <1>1, SetFacts DEF SetFact
<1>3. \A m \in Modes : ~csv[m].finished
  BY DEF Init, NoTable
<1> QED
  BY <1>1, <1>2, <1>3 DEF NumberedInv, DrNumbered

----------------------------------------------------------------------------
(* What a table says.                                                      *)

\* The files of one mode and one invocation r.
FilesTrue(x, p, m, files, r) ==
  /\ OrderedFiles(p, files) /\ OfRun(files, r)
  /\ \A i \in Reps : FileTrue(x, m, i, files[i])

RecordOf(x, m, t, b, v) ==
  \E rec : RecordTrue(x, m, t, rec) /\ rec.bid = b /\ v.work = rec.work

\* Element b of STATS has it.
EntryOf(x, m, t, b, v, r) == v.run = r /\ RecordOf(x, m, t, b - 1, v)

\* It is in the row of thread t, repetition i and region b.
TotalOf(x, p, m, t, i, b, s, v, r) ==
  /\ v.run = r /\ RecordOf(x, m, t, b, v)
  /\ s # "TOT_INS" => v.rep = i /\ v.round = RoundOf(p, s)

\* What is taken from a record of the files.
LEMMA EntryTrue ==
  ASSUME NEW x, NEW p, NEW m, NEW files, NEW r, FilesTrue(x, p, m, files, r),
         NEW b, NEW t \in Tids, NEW s, NEW v, OfRecord(p, files, b, t, s, v)
  PROVE  EntryOf(x, m, t, b, v, r)
<1>1. PICK i \in Reps : \E n \in DOMAIN files[i][t] :
        /\ files[i][t][n].bid = b - 1 /\ v = ValueOf(files[i][t][n])
  BY DEF OfRecord, Reps
<1>2. PICK n \in DOMAIN files[i][t] :
        /\ files[i][t][n].bid = b - 1 /\ v = ValueOf(files[i][t][n])
  BY <1>1
<1>3. ThreadTrue(x, m, i, t, files[i])
  BY DEF FilesTrue, FileTrue
<1>4. RecordTrue(x, m, t, files[i][t][n]) /\ files[i][t][n].run = r
  BY <1>3 DEF ThreadTrue, FilesTrue, OfRun
<1> QED
  BY <1>2, <1>4 DEF ValueOf, RecordOf, EntryOf

\* No list of a table with all rows is too short for a repetition.
LEMMA CompleteLists ==
  ASSUME NEW p \in Supported, NEW S, Complete(p, S), NEW b \in 1..Len(S),
         NEW t \in Tids, NEW s \in Stats(p), NEW i \in Reps
  PROVE  i + 1 \in 1..Len(S[b][t][s])
<1>1. Iterations \in Nat \ {0} /\ i \in 0..(Iterations - 1)
  BY StatisticsAssumption DEF Reps
<1>2. CASE s # "TOT_INS"
  <2>1. Len(S[b][t][s]) = Iterations
    BY <1>2 DEF Complete, OnePerRep
  <2> QED
    BY <1>1, <2>1
<1>3. CASE s = "TOT_INS"
  <2> DEFINE k == Len(PAPI_rounds[p])
  <2>1. Len(S[b][t][s]) = Iterations * k
    BY <1>3 DEF Complete, OnePerExecution
  <2>2. k \in Nat /\ k >= 1
    BY RoundsCount
  <2> HIDE DEF k
  <2>3. Iterations * k >= Iterations /\ Iterations * k \in Nat
    BY <1>1, <2>2
  <2> QED
    BY <1>1, <2>1, <2>3
<1> QED
  BY <1>2, <1>3

\* The entry a row is made of, for each thread, repetition and region.
LEMMA TotalTrue ==
  ASSUME NEW x, NEW p \in Supported, NEW m, NEW files, NEW r,
         FilesTrue(x, p, m, files, r),
         NEW S, Holds(p, files, S), Complete(p, S), NEW b \in 0..(Len(S) - 1),
         NEW t \in Tids, NEW s \in Stats(p), NEW i \in Reps,
         NEW v, v = GetTotal(S, s, t, i, b)
  PROVE  TotalOf(x, p, m, t, i, b, s, v, r)
<1> DEFINE list == S[b + 1][t][s]
           e == i + 1
<1>1. b + 1 \in 1..Len(S) /\ (b + 1) - 1 = b /\ i \in Nat /\ e - 1 = i
  BY DEF Reps
<1>2. e \in 1..Len(list)
  BY <1>1, CompleteLists
<1>3. Len(list) \in Nat
  BY <1>1, CellIs
<1>4. v = list[e][2]
  <2>1. i < Len(list)
    <3> HIDE DEF list
    <3> QED
      BY <1>1, <1>2, <1>3
  <2> QED
    BY <2>1 DEF GetTotal, Found
<1>5. OfRecord(p, files, b + 1, t, s, v)
  BY <1>1, <1>2, <1>4 DEF Holds
<1> DEFINE c == b + 1
<1>6. c - 1 = b /\ OfRecord(p, files, c, t, s, v)
  BY <1>1, <1>5
<1> HIDE DEF c
<1>7. EntryOf(x, m, t, c, v, r)
  BY <1>6, EntryTrue
<1>8. v.run = r /\ RecordOf(x, m, t, b, v)
  BY <1>6, <1>7 DEF EntryOf
<1>9. s # "TOT_INS" => OnePerRep(p, list, s)
  BY <1>1 DEF Complete
<1> HIDE DEF list, e
<1>10. s # "TOT_INS" => v.rep = i /\ v.round = RoundOf(p, s)
  BY <1>1, <1>2, <1>4, <1>9 DEF OnePerRep
<1> QED
  BY <1>10, <1>8 DEF TotalOf

\* Such a table is not made unless all threads have met all barriers.
LEMMA RegionsTrue ==
  ASSUME NEW x, PointCount(x) \in Nat, NEW p \in Supported, NEW m \in Modes,
         NEW files, NEW r, FilesTrue(x, p, m, files, r),
         NEW S, Holds(p, files, S), Complete(p, S), S # <<>>
  PROVE  /\ HasRoi(x) /\ Len(S) = TableRegions(x, m)
         /\ m = 1 => \A t \in Tids : Full(x, t)
<1> DEFINE nb == Len(S)
           N == PointCount(x)
<1>1. nb \in Nat \ {0} /\ 0 \in Reps /\ Master \in Tids /\ Master = 0
  <2>1. nb \in Nat
    BY DEF Holds
  <2>2. nb # 0
    BY EmptySeq DEF Holds
  <2> QED
    BY <2>1, <2>2, StatisticsAssumption, MeasurementAssumption,
       MasterAssumption DEF Reps
<1>2. ASSUME NEW b \in 1..nb, NEW t \in Tids
      PROVE  \E rec : RecordTrue(x, m, t, rec) /\ rec.bid = b - 1
  <2> DEFINE c == b - 1
             v == GetTotal(S, "TOT_INS", t, 0, c)
  <2>1. c \in 0..(Len(S) - 1) /\ "TOT_INS" \in Stats(p)
    BY TotalIn
  <2> HIDE DEF c
  <2>2. v = GetTotal(S, "TOT_INS", t, 0, c)
    OBVIOUS
  <2> HIDE DEF v
  <2>3. TotalOf(x, p, m, t, 0, c, "TOT_INS", v, r)
    BY <1>1, <2>1, <2>2, TotalTrue
  <2> QED
    BY <2>3 DEF RecordOf, TotalOf, c
<1>3. nb \in 1..nb /\ 1 \in 1..nb /\ N \in Nat
  BY <1>1
<1>4. HasRoi(x)
  <2>1. PICK rec : RecordTrue(x, m, Master, rec)
    BY <1>1, <1>2, <1>3
  <2> QED
    BY <2>1 DEF RecordTrue
<1>5. CASE m = 0
  <2>1. PICK rec : RecordTrue(x, m, Master, rec) /\ rec.bid = nb - 1
    BY <1>1, <1>2, <1>3
  <2>2. rec.bid = 0
    BY <1>5, <2>1 DEF RecordTrue
  <2> HIDE DEF nb
  <2>3. nb = 1
    BY <1>1, <2>1, <2>2
  <2> QED
    BY <1>4, <1>5, <2>3 DEF nb, TableRegions
<1>6. CASE m = 1
  <2>1. nb <= N + 1
    <3>1. PICK rec : RecordTrue(x, m, Master, rec) /\ rec.bid = nb - 1
      BY <1>1, <1>2, <1>3
    <3>2. rec.bid <= N \/ rec.bid < N
      BY <1>6, <3>1 DEF RecordTrue
    <3> HIDE DEF nb, N
    <3>3. nb - 1 <= N \/ nb - 1 < N
      BY <3>1, <3>2
    <3> QED
      BY <1>1, <1>3, <3>3
  <2>2. nb >= N + 1
    <3>1. "TOT_INS" \in Stats(p)
      BY TotalIn
    <3> DEFINE list == S[1][Master]["TOT_INS"]
    <3>2. 0 + 1 \in 1..Len(list)
      BY <1>1, <1>3, <3>1, CompleteLists
    <3>3. OfRecord(p, files, 1, Master, "TOT_INS", list[1][2])
      BY <1>1, <1>3, <3>1, <3>2 DEF Holds
    <3>4. PICK i \in Reps : \E n \in DOMAIN files[i][Master] : TRUE
      BY <3>3 DEF OfRecord, Reps
    <3>5. files[i][Master] # <<>>
      <4>1. DOMAIN <<>> = {}
        OBVIOUS
      <4> QED
        BY <3>4, <4>1
    <3>6. ThreadTrue(x, m, i, Master, files[i])
      BY <1>1 DEF FilesTrue, FileTrue
    <3>7. PICK n \in DOMAIN files[i][Master] : files[i][Master][n].bid = N
      BY <1>6, <3>5, <3>6 DEF ThreadTrue
    <3>8. AllEntered(p, S, files[i][Master][n], Master)
      BY <1>1 DEF Holds, Reps
    <3>9. N + 1 <= nb
      BY <3>7, <3>8 DEF AllEntered
    <3> HIDE DEF N, nb
    <3> QED
      BY <1>1, <1>3, <3>9
  <2>3. nb = N + 1
    <3> HIDE DEF nb, N
    <3> QED
      BY <1>1, <1>3, <2>1, <2>2
  <2>4. ASSUME NEW t \in Tids
        PROVE  Full(x, t)
    <3>1. PICK rec : RecordTrue(x, m, t, rec) /\ rec.bid = nb - 1
      BY <1>2, <1>3
    <3>2. ~Full(x, t) => rec.bid < N
      BY <1>6, <3>1 DEF RecordTrue
    <3>3. rec.bid = N
      <4> HIDE DEF nb, N
      <4> QED
        BY <1>3, <2>3, <3>1
    <3> HIDE DEF N, nb
    <3> QED
      BY <1>3, <3>2, <3>3
  <2> QED
    BY <1>4, <1>6, <2>3, <2>4 DEF TableRegions
<1> QED
  BY <1>5, <1>6 DEF Modes

\* Every row of the table is about what it says it is about.
LEMMA RowsOfTable ==
  ASSUME NEW x, PointCount(x) \in Nat, NEW p \in Supported, NEW m \in Modes,
         NEW files, NEW r, FilesTrue(x, p, m, files, r),
         NEW S, NEW rows, TableIs(p, files, rows, S), rows # <<>>
  PROVE  RowsAre(x, p, m, rows, r)
<1> DEFINE nb == Len(S)
<1>1. /\ Holds(p, files, S) /\ Complete(p, S) /\ rows = WholeTable(p, S)
  BY DEF TableIs
<1>2. S # <<>>
  <2> SUFFICES ASSUME S = <<>>
               PROVE  rows = <<>>
    OBVIOUS
  <2>1. NThreads * Iterations * 0 = 0
    BY StatisticsAssumption
  <2>2. 1..(NThreads * Iterations * Len(S)) = {}
    BY <2>1
  <2>3. rows = [n \in {} |-> RowOf(p, S, KeyOf(n, Len(S)))]
    BY <1>1, <2>2 DEF WholeTable
  <2> QED
    BY <2>3
<1>3. /\ HasRoi(x) /\ nb = TableRegions(x, m)
      /\ m = 1 => \A t \in Tids : Full(x, t)
  BY <1>1, <1>2, RegionsTrue
<1>4. nb \in Nat \ {0}
  BY <1>2, EmptySeq, <1>1 DEF Holds
<1>5. DOMAIN rows = 1..(NThreads * Iterations * nb)
  BY <1>1 DEF WholeTable
<1>6. ASSUME NEW n \in DOMAIN rows
      PROVE  /\ [tid |-> rows[n].tid, itr |-> rows[n].itr,
                 bid |-> rows[n].bid] = KeyOf(n, nb)
             /\ ValuesTrue(x, p, m, rows[n], r)
  <2> DEFINE k == KeyOf(n, nb)
  <2>1. /\ k.tid \in Tids /\ k.itr \in Reps /\ k.bid \in 0..(nb - 1)
        /\ rows[n] = RowOf(p, S, k)
    BY <1>1, <1>4, <1>5, KeysAre DEF WholeTable
  <2>2. k = [tid |-> k.tid, itr |-> k.itr, bid |-> k.bid]
    BY DEF KeyOf
  <2> HIDE DEF k
  <2>3. /\ rows[n].tid = k.tid /\ rows[n].itr = k.itr /\ rows[n].bid = k.bid
        /\ rows[n].val = [s \in Stats(p) |->
                            GetTotal(S, s, k.tid, k.itr, k.bid)]
    BY <2>1 DEF RowOf
  <2>4. ASSUME NEW s \in Stats(p)
        PROVE  /\ rows[n].val[s].run = r
               /\ rows[n].val[s].work = TableWork(x, m, k.tid, k.bid)
               /\ s # "TOT_INS" => /\ rows[n].val[s].rep = k.itr
                                   /\ rows[n].val[s].round = RoundOf(p, s)
    <3> DEFINE v == rows[n].val[s]
    <3>1. v = GetTotal(S, s, k.tid, k.itr, k.bid)
      BY <2>3
    <3> HIDE DEF v
    <3>2. TotalOf(x, p, m, k.tid, k.itr, k.bid, s, v, r)
      BY <1>1, <2>1, <3>1, TotalTrue
    <3>3. PICK rec : /\ RecordTrue(x, m, k.tid, rec) /\ rec.bid = k.bid
                     /\ v.work = rec.work
      BY <3>2 DEF TotalOf, RecordOf
    <3>4. v.work = TableWork(x, m, k.tid, k.bid)
      BY <1>3, <2>1, <3>3 DEF RecordTrue, TableWork, Modes
    <3> QED
      BY <3>2, <3>4 DEF v, TotalOf
  <2>5. DOMAIN rows[n].val = Stats(p)
    BY <2>3
  <2>6. ValuesTrue(x, p, m, rows[n], r)
    BY <2>3, <2>4, <2>5 DEF ValuesTrue
  <2> QED
    BY <2>2, <2>3, <2>6 DEF k
<1> QED
  BY <1>3, <1>5, <1>6 DEF RowsAre

----------------------------------------------------------------------------
(* The driver keeps RowsInv.                                               *)

\* What is averaged are the lists of STATS.
LEMMA AveragesTrue ==
  ASSUME NEW p \in Supported, NEW files, NEW S, Holds(p, files, S),
         Complete(p, S), Len(S) \in Nat
  PROVE  AveragesAre(p, AverageTable(p, S))
<1> DEFINE avg == AverageTable(p, S)
<1>1. ASSUME NEW k \in DOMAIN avg, NEW s \in Stats(p)
      PROVE  /\ DOMAIN avg[k][s] = 1..Len(avg[k][s])
             /\ IF s = "TOT_INS" THEN OnePerExecution(p, avg[k][s])
                ELSE OnePerRep(p, avg[k][s], s)
  <2>1. k \in Tids \X (0..(Len(S) - 1))
    BY DEF AverageTable
  <2>2. avg[k][s] = S[k[2] + 1][k[1]][s]
    BY <2>1 DEF AverageTable, GetAvg
  <2> HIDE DEF avg
  <2>3. k[1] \in Tids /\ k[2] + 1 \in 1..Len(S)
    BY <2>1
  <2> DEFINE t == k[1]
             b == k[2] + 1
  <2>4. avg[k][s] = S[b][t][s] /\ t \in Tids /\ b \in 1..Len(S)
    BY <2>2, <2>3
  <2> HIDE DEF t, b
  <2>5. DOMAIN S[b][t][s] = 1..Len(S[b][t][s])
    BY <2>4, CellIs
  <2> QED
    BY <2>4, <2>5 DEF Complete
<1> HIDE DEF avg
<1>2. AveragesAre(p, avg)
  BY <1>1 DEF AveragesAre
<1> QED
  BY <1>2 DEF avg

\* The files that are parsed are those of one invocation.
LEMMA FilesParsed ==
  ASSUME PapiTypes, FilesInv, stage = "parse"
  PROVE  /\ platform \in Supported /\ barriers \in Modes
         /\ \E r \in 0..run :
              FilesTrue(text, platform, barriers, papi[barriers], r)
<1>1. /\ platform \in Supported /\ barriers \in Modes
      /\ papi \in [Modes -> PapiFiles(platform)]
  BY DEF PapiTypes
<1>2. papi[barriers] \in PapiFiles(platform)
  BY <1>1
<1>3. PICK r \in 0..run : OfRun(papi[barriers], r)
  BY <1>1 DEF FilesInv
<1>4. \A i \in Reps : FileTrue(text, barriers, i, papi[barriers][i])
  BY <1>1 DEF FilesInv
<1>5. OrderedFiles(platform, papi[barriers])
  BY <1>2, <1>4 DEF OrderedFiles, FileTrue, ThreadTrue, Reps
<1> QED
  BY <1>1, <1>3, <1>4, <1>5 DEF FilesTrue

\* A whole table, and one the disk had no room for.
LEMMA TableWrittenTrue ==
  ASSUME NEW x, PointCount(x) \in Nat, NEW p \in Supported, NEW m \in Modes,
         NEW files, NEW last \in Nat, NEW r \in 0..last,
         FilesTrue(x, p, m, files, r),
         NEW st, st = StatsPerfCounters(p, files), ~st.raised,
         NEW check, check = CheckTable(p, st.STATS),
         NEW table, table.run > 0,
         \/ /\ table.finished = check.finished /\ table.rows = check.rows
            /\ table.avg = IF check.finished THEN AverageTable(p, st.STATS)
                           ELSE <<>>
         \/ /\ table.avg = <<>>
            /\ table.finished => /\ check.finished
                                 /\ table.rows = SubSeq(check.rows, 1,
                                                        Len(check.rows))
  PROVE  TableTrue(x, p, m, table, last)
<1> DEFINE S == st.STATS
<1>1. CASE ~check.finished
  <2>1. table.avg = <<>> /\ ~table.finished
    BY <1>1
  <2>2. AveragesAre(p, <<>>)
    <3>1. DOMAIN <<>> = {}
      OBVIOUS
    <3> QED
      BY <3>1 DEF AveragesAre
  <2> QED
    BY <2>1, <2>2 DEF TableTrue
<1>2. CASE check.finished
  <2>1. OrderedFiles(p, files)
    BY DEF FilesTrue
  <2>2. TableIs(p, files, check.rows, S)
    BY <1>2, <2>1, TableComplete
  <2>3. /\ Holds(p, files, S) /\ Complete(p, S)
        /\ check.rows = WholeTable(p, S)
    BY <2>2 DEF TableIs
  <2>4. Len(S) \in Nat
    BY <2>3 DEF Holds
  <2>5. check.rows # <<>> => RowsAre(x, p, m, check.rows, r)
    <3> HIDE DEF S
    <3> QED
      BY <2>2, RowsOfTable
  <2>6. SubSeq(check.rows, 1, Len(check.rows)) = check.rows
    <3> DEFINE N == NThreads * Iterations * Len(S)
               rows == check.rows
               all == {RowOf(p, S, KeyOf(n, Len(S))) : n \in 1..N}
    <3>1. N \in Nat
      <4>1. Iterations \in Nat /\ NThreads \in Nat /\ Len(S) \in Nat
        BY <2>4, StatisticsAssumption
      <4>2. \A a, b \in Nat : a * b \in Nat
        OBVIOUS
      <4> HIDE DEF S
      <4> QED
        BY <4>1, <4>2
    <3>2. rows = [n \in 1..N |-> RowOf(p, S, KeyOf(n, Len(S)))]
      BY <2>3 DEF WholeTable
    <3>3. \A n \in 1..N : RowOf(p, S, KeyOf(n, Len(S))) \in all
      OBVIOUS
    <3> HIDE DEF all, N
    <3>4. rows \in Seq(all)
      BY <3>1, <3>2, <3>3
    <3> HIDE DEF rows
    <3>5. SubSeq(rows, 1, Len(rows)) = rows
      BY <3>4, SubSeqFull
    <3> QED
      BY <3>5 DEF rows
  <2>7. AveragesAre(p, table.avg)
    <3>1. AveragesAre(p, AverageTable(p, S))
      <4> HIDE DEF S
      <4> QED
        BY <2>3, <2>4, AveragesTrue
    <3>2. AveragesAre(p, <<>>)
      <4>1. DOMAIN <<>> = {}
        OBVIOUS
      <4> QED
        BY <4>1 DEF AveragesAre
    <3>3. table.avg = <<>> \/ table.avg = AverageTable(p, S)
      BY <1>2
    <3> QED
      BY <3>1, <3>2, <3>3
  <2>8. table.finished => table.rows = check.rows
    BY <2>6
  <2> QED
    BY <2>5, <2>7, <2>8 DEF TableTrue
<1> QED
  BY <1>1, <1>2

\* The table of the mode is written; the other stays.
LEMMA RowsWritten ==
  ASSUME RowsInv, csv = [n \in Modes |-> csv[n]], barriers \in Modes,
         NEW table, TableTrue(text, platform, barriers, table, run),
         csv' = [csv EXCEPT ![barriers] = table],
         UNCHANGED <<text, platform, run>>
  PROVE  RowsInv'
<1>1. /\ csv'[barriers] = table
      /\ \A m \in Modes : m # barriers => csv'[m] = csv[m]
  OBVIOUS
<1>2. \A m \in Modes : TableTrue(text, platform, m, csv'[m], run)
  BY <1>1 DEF RowsInv
<1> QED
  BY <1>2 DEF RowsInv

\* Parsing, and an exception or a full disk in between.
LEMMA RowsParsed ==
  ASSUME PlacesInv, PapiTypes, FilesInv, TablesInv, RowsInv,
         ParseAndWrite \/ WriteFails
  PROVE  RowsInv'
<1> DEFINE files == papi[barriers]
           st == StatsPerfCounters(platform, files)
           check == CheckTable(platform, st.STATS)
           table == Table(st.STATS)
           cut(n) == [table EXCEPT
                        !.rows = SubSeq(@, 1, n), !.avg = <<>>,
                        !.finished = table.finished
                                       /\ n = Len(table.rows)]
<1>1. /\ stage = "parse" /\ UNCHANGED <<text, platform, run>>
      /\ csv = [n \in Modes |-> csv[n]]
      /\ run > 0 /\ run \in Nat /\ PointCount(text) \in Nat
  BY HereFact, Executing
     DEF ParseAndWrite, WriteFails, StaysOut, TablesInv, Driving, PointCount
<1>2. /\ platform \in Supported /\ barriers \in Modes
      /\ \E r \in 0..run : FilesTrue(text, platform, barriers, files, r)
  BY <1>1, FilesParsed
<1>3. PICK r \in 0..run : FilesTrue(text, platform, barriers, files, r)
  BY <1>2
<1>4. /\ table.run = run /\ table.finished = check.finished
      /\ table.rows = check.rows
      /\ table.avg = IF check.finished THEN AverageTable(platform, st.STATS)
                     ELSE <<>>
  BY DEF Table
<1>5. ASSUME NEW n
      PROVE  /\ cut(n).run = run /\ cut(n).avg = <<>>
             /\ cut(n).rows = SubSeq(check.rows, 1, n)
             /\ cut(n).finished = (check.finished /\ n = Len(check.rows))
  <2> HIDE DEF st, check
  <2> QED
    BY DEF Table, check
<1>6. st = StatsPerfCounters(platform, files)
      /\ check = CheckTable(platform, st.STATS)
  OBVIOUS
<1>7. ASSUME ~st.raised, csv' = [csv EXCEPT ![barriers] = table]
      PROVE  RowsInv'
  <2> HIDE DEF table, files, st, check
  <2>1. TableTrue(text, platform, barriers, table, run)
    BY <1>1, <1>2, <1>3, <1>4, <1>6, <1>7, TableWrittenTrue
  <2> QED
    BY <1>1, <1>2, <1>7, <2>1, RowsWritten
<1>8. ASSUME ~st.raised, NEW n, csv' = [csv EXCEPT ![barriers] = cut(n)]
      PROVE  RowsInv'
  <2> DEFINE c == cut(n)
  <2> HIDE DEF table, st, check, cut
  <2>1. /\ c.run = run /\ c.avg = <<>>
        /\ c.rows = SubSeq(check.rows, 1, n)
        /\ c.finished = (check.finished /\ n = Len(check.rows))
        /\ csv' = [csv EXCEPT ![barriers] = c]
    BY <1>5, <1>8
  <2> HIDE DEF table, files, st, check, cut, c
  <2>2. c.finished => /\ check.finished
                      /\ c.rows = SubSeq(check.rows, 1, Len(check.rows))
    BY <2>1
  <2>3. TableTrue(text, platform, barriers, c, run)
    BY <1>1, <1>2, <1>3, <1>6, <1>8, <2>1, <2>2, TableWrittenTrue
  <2> QED
    BY <1>1, <1>2, <2>1, <2>3, RowsWritten
<1>9. CASE UNCHANGED csv
  BY <1>1, <1>9 DEF RowsInv
<1>10. CASE ParseAndWrite
  <2>1. IF st.raised THEN UNCHANGED csv
        ELSE csv' = [csv EXCEPT ![barriers] = table]
    BY <1>10 DEF ParseAndWrite
  <2> HIDE DEF table, st
  <2> QED
    BY <1>7, <1>9, <2>1
<1>11. CASE WriteFails
  <2>1. \/ UNCHANGED csv
        \/ ~st.raised /\ \E n : csv' = [csv EXCEPT ![barriers] = cut(n)]
    BY <1>11 DEF WriteFails
  <2> HIDE DEF cut, st
  <2> QED
    BY <1>8, <1>9, <2>1
<1> QED
  BY <1>10, <1>11

\* No other step writes a table.
LEMMA RowsStep ==
  ASSUME PlacesInv, PapiTypes, FilesInv, TablesInv, RowsInv, [Next]_vars
  PROVE  RowsInv'
<1>1. run \in Nat
  BY DEF PapiTypes
<1>2. ASSUME UNCHANGED <<text, platform>>, run' \in {run, run + 1},
             \A m \in Modes : csv'[m] \in {csv[m], NoTable}
      PROVE  RowsInv'
  <2> SUFFICES ASSUME NEW m \in Modes
               PROVE  TableTrue(text, platform, m, csv'[m], run')
    BY <1>2 DEF RowsInv
  <2>1. TableTrue(text, platform, m, NoTable, run')
    <3>1. NoTable.avg = <<>> /\ ~NoTable.finished /\ DOMAIN <<>> = {}
      BY DEF NoTable
    <3> QED
      BY <3>1 DEF TableTrue, AveragesAre
  <2>2. TableTrue(text, platform, m, csv[m], run')
    <3>1. 0..run \subseteq 0..run'
      BY <1>1, <1>2
    <3> QED
      BY <3>1 DEF RowsInv, TableTrue
  <2> QED
    BY <1>2, <2>1, <2>2
<1>3. CASE ParseAndWrite \/ WriteFails
  BY <1>3, RowsParsed
<1>4. CASE RemoveOld
  BY <1>2, <1>4 DEF RemoveOld, StaysOut
<1>5. CASE Identify
  BY <1>2, <1>5 DEF Identify, DrProgram, DrEnds, driverVars
<1>6. ASSUME NEW d \in BOOLEAN, StartBenchmarks(d)
      PROVE  RowsInv'
  BY <1>2, <1>6 DEF StartBenchmarks, StaysOut
<1>7. CASE CreateExperimentBatch \/ DryRun \/ LaunchProgram \/ CountedProgram
  BY <1>2, <1>7 DEF CreateExperimentBatch, DryRun, LaunchProgram,
     CountedProgram, StaysOut
<1>8. CASE ProgramEnds \/ Interrupt
  BY <1>2, <1>8 DEF ProgramEnds, Interrupt
<1>9. ASSUME NEW bp \in 1..(regions - 1), EstimateError(bp)
      PROVE  RowsInv'
  BY <1>2, <1>9 DEF EstimateError, StaysOut
<1>10. CASE UNCHANGED vars
  BY <1>2, <1>10 DEF vars, driverVars
<1> QED
  BY <1>3, <1>4, <1>5, <1>6, <1>7, <1>8, <1>9, <1>10 DEF Next

\* At first there is no table.
LEMMA RowsBegin ==
  ASSUME Init
  PROVE  RowsInv
<1>1. \A m \in Modes : csv[m] = NoTable
  BY DEF Init
<1>2. NoTable.avg = <<>> /\ ~NoTable.finished /\ DOMAIN <<>> = {}
  BY DEF NoTable
<1> QED
  BY <1>1, <1>2 DEF RowsInv, TableTrue, AveragesAre

----------------------------------------------------------------------------
(* What the tables say of the program.                                     *)

\* All of it together.
MeasuredInv ==
  /\ MarksInv /\ TuplesInv /\ PlanInv /\ TablesInv
  /\ stage # "identify" => ExactInv
  /\ FilesInv /\ NumberedInv /\ RowsInv

\* It holds before the program is identified, when there is neither file nor
\* table.
LEMMA MeasuredBegins ==
  ASSUME Init
  PROVE  MeasuredInv
<1>1. MarksInv
  BY RoiInitInv DEF Init, ProgramInit, RoiInit, PerfInit, MarksInv
<1>2. TablesInv
  BY DEF Init, TablesInv, FirstMode, SecondMode, TablesOfOneRun, Driving,
     Removing, Modes, NoTable
<1>3. stage = "identify"
  BY DEF Init
<1> QED
  BY <1>1, <1>2, <1>3, TuplesInit, PlanInit, FilesBegin, NumberedBegin,
     RowsBegin DEF MeasuredInv

\* The parts rest on each other: what the tables say on the files, these on
\* the counted program, and it on where the threads are.
LEMMA MeasuredKept ==
  ASSUME MeasuredInv, [Next]_vars
  PROVE  MeasuredInv'
<1>1. /\ MarksInv /\ TuplesInv /\ PlanInv /\ TablesInv
      /\ stage # "identify" => ExactInv
      /\ FilesInv /\ NumberedInv /\ RowsInv
      /\ PlacesInv /\ PapiTypes
      /\ stage = "identify" => DrInv /\ MarksAlone
  BY DEF MeasuredInv, PlanInv, TuplesInv, MarksInv, RoiInv
<1>2. stage' # "identify" => ExactInv'
  BY <1>1, ExactInvStep, ExactInvBegins
<1>3. MarksInv' /\ TuplesInv' /\ PlanInv' /\ TablesInv'
  BY <1>1, MarksStep, TuplesStep, PlanStep, TablesStep
<1>4. FilesInv' /\ NumberedInv' /\ RowsInv'
  BY <1>1, FilesStep, NumberedStep, RowsStep
<1> QED
  BY <1>2, <1>3, <1>4 DEF MeasuredInv

\* Every platform counts the cycles.
LEMMA CyclesIn ==
  ASSUME NEW p \in Supported
  PROVE  "TOT_CYC" \in Stats(p)
<1>1. 1 \in 1..Len(PAPI_rounds[p])
  BY RoundsCount
<1>2. "TOT_CYC" \in ToSet(PAPI_rounds[p][1])
  <2>1. RoundEvents(p) /\ p \in {"x86_64", "aarch64"}
    BY EventsOfRounds
  <2> QED
    BY <2>1 DEF RoundEvents
<1> QED
  BY <1>1, <1>2, EventIn

\* An average is over all repetitions (RunBenchmarks.py:130-160).
LEMMA AveragesHold ==
  ASSUME MeasuredInv
  PROVE  AveragesComplete
<1> SUFFICES ASSUME NEW m \in Modes, NEW k \in DOMAIN csv[m].avg,
                    NEW s \in Stats(platform)
             PROVE  LET entries == csv[m].avg[k][s]
                        rounds == IF s = "TOT_INS" THEN LastRound ELSE 1
                    IN  /\ Len(entries) = Iterations * rounds
                        /\ \A n \in DOMAIN entries :
                             /\ entries[n][2].rep = (n - 1) \div rounds
                             /\ s = "TOT_INS" =>
                                  entries[n][2].round
                                    = 1 + ((n - 1) % rounds)
  BY DEF AveragesComplete
<1> DEFINE entries == csv[m].avg[k][s]
<1>1. AveragesAre(platform, csv[m].avg)
  BY DEF MeasuredInv, RowsInv, TableTrue
<1>2. /\ DOMAIN entries = 1..Len(entries)
      /\ IF s = "TOT_INS" THEN OnePerExecution(platform, entries)
         ELSE OnePerRep(platform, entries, s)
  BY <1>1 DEF AveragesAre
<1> HIDE DEF entries
<1>3. CASE s = "TOT_INS"
  <2>1. OnePerExecution(platform, entries)
    BY <1>2, <1>3
  <2>2. /\ Len(entries) = Iterations * LastRound
        /\ \A n \in DOMAIN entries :
             /\ entries[n][2].rep = (n - 1) \div LastRound
             /\ entries[n][2].round = 1 + ((n - 1) % LastRound)
    BY <1>2, <2>1 DEF OnePerExecution, LastRound
  <2> QED
    BY <1>3, <2>2 DEF entries
<1>4. CASE s # "TOT_INS"
  <2>1. /\ Len(entries) = Iterations
        /\ \A n \in DOMAIN entries : entries[n][2].rep = n - 1
    BY <1>2, <1>4 DEF OnePerRep
  <2>2. Iterations * 1 = Iterations /\ \A n \in Int : n \div 1 = n
    BY StatisticsAssumption
  <2>3. \A n \in DOMAIN entries : entries[n][2].rep = (n - 1) \div 1
    <3> SUFFICES ASSUME NEW n \in DOMAIN entries
                 PROVE  entries[n][2].rep = (n - 1) \div 1
      OBVIOUS
    <3>1. n - 1 \in Int
      <4>1. Len(entries) \in Nat /\ n \in 1..Len(entries)
        BY <1>2, <2>1, StatisticsAssumption
      <4> QED
        BY <4>1
    <3> QED
      BY <2>1, <2>2, <3>1
  <2> QED
    BY <1>4, <2>1, <2>2, <2>3 DEF entries
<1> QED
  BY <1>3, <1>4

\* A finished table with rows, for the program.
LEMMA MeasuredRows ==
  ASSUME MeasuredInv, NEW m \in Modes, Measured(m)
  PROVE  /\ platform \in Supported /\ stage # "identify"
         /\ \E r \in 0..run : RowsAre(text, platform, m, csv[m].rows, r)
BY DEF MeasuredInv, RowsInv, TableTrue, Measured, NumberedInv

\* Row by row.
LEMMA RowIs ==
  ASSUME NEW x, PointCount(x) \in Nat, NEW p, NEW m \in Modes, NEW rows,
         NEW r, RowsAre(x, p, m, rows, r), NEW n \in DOMAIN rows
  PROVE  /\ rows[n].tid \in Tids /\ rows[n].itr \in Reps
         /\ rows[n].bid \in 0..(TableRegions(x, m) - 1)
         /\ OfDigits(n - 1, Iterations, TableRegions(x, m), rows[n].tid,
                     rows[n].itr, rows[n].bid)
         /\ ValuesTrue(x, p, m, rows[n], r)
<1> DEFINE nb == TableRegions(x, m)
           k == KeyOf(n, nb)
<1>1. nb \in Nat \ {0}
  BY DEF TableRegions
<1>2. /\ n \in 1..(NThreads * Iterations * nb)
      /\ [tid |-> rows[n].tid, itr |-> rows[n].itr, bid |-> rows[n].bid] = k
      /\ ValuesTrue(x, p, m, rows[n], r)
  BY DEF RowsAre
<1>3. /\ k.tid \in Tids /\ k.itr \in Reps /\ k.bid \in 0..(nb - 1)
      /\ OfDigits(n - 1, Iterations, nb, k.tid, k.itr, k.bid)
  BY <1>1, <1>2, KeysAre
<1> HIDE DEF k
<1>4. rows[n].tid = k.tid /\ rows[n].itr = k.itr /\ rows[n].bid = k.bid
  BY <1>2
<1> QED
  BY <1>2, <1>3, <1>4

\* Each row that should be there is.
LEMMA RowThere ==
  ASSUME NEW x, PointCount(x) \in Nat, NEW p, NEW m \in Modes, NEW rows,
         NEW r, RowsAre(x, p, m, rows, r), NEW t \in Tids, NEW i \in Reps,
         NEW b \in 0..(TableRegions(x, m) - 1)
  PROVE  \E n \in DOMAIN rows :
           rows[n].tid = t /\ rows[n].itr = i /\ rows[n].bid = b
<1> DEFINE nb == TableRegions(x, m)
           n == (t * Iterations + i) * nb + b + 1
<1>1. nb \in Nat \ {0}
  BY DEF TableRegions
<1>2. /\ n \in 1..(NThreads * Iterations * nb)
      /\ KeyOf(n, nb) = [tid |-> t, itr |-> i, bid |-> b]
  BY <1>1, KeysAre
<1>3. n \in DOMAIN rows
  BY <1>2 DEF RowsAre
<1>4. [tid |-> rows[n].tid, itr |-> rows[n].itr, bid |-> rows[n].bid]
        = [tid |-> t, itr |-> i, bid |-> b]
  BY <1>2, <1>3 DEF RowsAre
<1> HIDE DEF n
<1>5. rows[n].tid = t /\ rows[n].itr = i /\ rows[n].bid = b
  BY <1>4
<1> QED
  BY <1>3, <1>5

\* What a column of a row should have.
LEMMA ValueTrue ==
  ASSUME PlacesInv, NEW m \in Modes, NEW t, NEW b, NEW v,
         v.work = TableWork(text, m, t, b), ~(m = 1 /\ Unstored(b))
  PROVE  v.work = Due(m, t, b)
<1>1. Runs(t) = AllWork(text, t) /\ LastPhase = PointCount(text)
  BY RunsAre
<1> QED
  BY <1>1 DEF Due, TableWork, PhaseWork, Unstored, Modes

\* Every row of a finished table is about what it says it is about, and all
\* of one invocation (omp_counters.h:261-276, RunBenchmarks.py:480-501).
LEMMA RowsHold ==
  ASSUME MeasuredInv
  PROVE  RowsTrue
<1> SUFFICES ASSUME NEW m \in Modes, Measured(m), NEW n \in DOMAIN csv[m].rows,
                    NEW s \in Stats(platform)
             PROVE  LET row == csv[m].rows[n]
                    IN  /\ TrueValue(row.val[s], m, row.tid, row.itr,
                                     row.bid, s)
                        /\ row.val[s].run
                             = csv[m].rows[1].val["TOT_CYC"].run
  BY DEF RowsTrue
<1> DEFINE rows == csv[m].rows
           row == rows[n]
<1>1. PlacesInv /\ PointCount(text) \in Nat
  BY HereFact, Executing DEF MeasuredInv, PlanInv, PointCount
<1>2. platform \in Supported
  BY MeasuredRows
<1>3. PICK r \in 0..run : RowsAre(text, platform, m, rows, r)
  BY MeasuredRows
<1>4. /\ ValuesTrue(text, platform, m, row, r)
      /\ 1 \in DOMAIN rows
  <2>1. n \in 1..(NThreads * Iterations * TableRegions(text, m))
    BY <1>3 DEF RowsAre
  <2>2. NThreads * Iterations * TableRegions(text, m) \in Nat
    BY <1>1, KeysAre DEF TableRegions
  <2>3. 1 \in 1..(NThreads * Iterations * TableRegions(text, m))
    BY <2>1, <2>2
  <2> QED
    BY <1>3, <2>3 DEF RowsAre
<1>5. rows[1].val["TOT_CYC"].run = r
  <2>1. ValuesTrue(text, platform, m, rows[1], r)
    BY <1>3, <1>4 DEF RowsAre
  <2> QED
    BY <1>2, <2>1, CyclesIn DEF ValuesTrue
<1> HIDE DEF rows, row
<1>6. /\ row.val[s].run = r
      /\ row.val[s].work = TableWork(text, m, row.tid, row.bid)
      /\ s # "TOT_INS" => /\ row.val[s].rep = row.itr
                          /\ row.val[s].round = RoundOf(platform, s)
  BY <1>4 DEF ValuesTrue
<1>7. ~(m = 1 /\ Unstored(row.bid)) =>
        row.val[s].work = Due(m, row.tid, row.bid)
  BY <1>1, <1>6, ValueTrue
<1>8. TrueValue(row.val[s], m, row.tid, row.itr, row.bid, s)
  BY <1>6, <1>7 DEF TrueValue
<1> QED
  BY <1>5, <1>6, <1>8 DEF rows, row

\* The counters and the client number the same regions
\* (bp_perfcntrs.cc:49-102, main.cpp:219-304).
LEMMA NumberingHolds ==
  ASSUME MeasuredInv
  PROVE  SameNumbering
<1> SUFFICES ASSUME Measured(1), NEW tid \in Tids
             PROVE  {csv[1].rows[n].bid :
                       n \in {i \in DOMAIN csv[1].rows :
                                csv[1].rows[i].tid = tid}}
                      = 0..(regions - 1)
  BY DEF SameNumbering
<1> DEFINE rows == csv[1].rows
           N == PointCount(text)
<1>1. N \in Nat /\ 1 \in Modes /\ 0 \in Reps
  BY HereFact, Executing, StatisticsAssumption
     DEF MeasuredInv, PlanInv, PointCount, Modes, Reps
<1>2. stage # "identify"
  BY <1>1, MeasuredRows
<1>3. PICK r \in 0..run : RowsAre(text, platform, 1, rows, r)
  BY <1>1, MeasuredRows
<1>4. regions - 1 = N
  <2>1. HasRoi(text)
    BY <1>3 DEF RowsAre
  <2>2. regions = N + 1
    BY <1>2, <2>1 DEF MeasuredInv, NumberedInv
  <2> HIDE DEF N
  <2> QED
    BY <1>1, <2>2
<1>5. TableRegions(text, 1) - 1 = N
  BY <1>1 DEF TableRegions
<1> HIDE DEF rows
<1>6. \A n \in DOMAIN rows : rows[n].bid \in 0..N
  BY <1>1, <1>3, <1>5, RowIs
<1>7. \A b \in 0..N : \E n \in DOMAIN rows :
        rows[n].tid = tid /\ rows[n].bid = b
  BY <1>1, <1>3, <1>5, RowThere
<1>8. {rows[n].bid : n \in {i \in DOMAIN rows : rows[i].tid = tid}} = 0..N
  <2> HIDE DEF N
  <2> QED
    BY <1>6, <1>7
<1> QED
  BY <1>4, <1>8 DEF rows

\* The stretches that region b of thread t stands for.
LEMMA PhaseIs ==
  ASSUME NEW x, NEW t, NEW b \in Nat
  PROVE  /\ PhaseWork(x, t, b) \ Garbage \subseteq AllWork(x, t) \cap {b}
         /\ b \in AllWork(x, t) /\ ~(b >= MaxPhases /\ b < PointCount(x))
              => b \in PhaseWork(x, t, b) \ Garbage
<1>1. b \notin Garbage
  BY DEF Garbage
<1> QED
  BY <1>1 DEF PhaseWork

\* No two rows are about the same thread, repetition and region.
LEMMA RowsDiffer ==
  ASSUME NEW x, PointCount(x) \in Nat, NEW p, NEW m \in Modes, NEW rows,
         NEW r, RowsAre(x, p, m, rows, r), NEW i \in DOMAIN rows,
         NEW j \in DOMAIN rows, rows[i].tid = rows[j].tid,
         rows[i].itr = rows[j].itr, rows[i].bid = rows[j].bid
  PROVE  i = j
<1> DEFINE nb == TableRegions(x, m)
<1>1. /\ OfDigits(i - 1, Iterations, nb, rows[i].tid, rows[i].itr,
                  rows[i].bid)
      /\ OfDigits(j - 1, Iterations, nb, rows[j].tid, rows[j].itr,
                  rows[j].bid)
  BY RowIs
<1>2. i - 1 = j - 1
  <2> HIDE DEF nb
  <2> QED
    BY <1>1 DEF OfDigits
<1>3. i \in Int /\ j \in Int
  BY DEF RowsAre
<1> QED
  BY <1>2, <1>3

\* What a thread does are stretches up to the last.
LEMMA AllWorkIn ==
  ASSUME PlacesInv, NEW t
  PROVE  AllWork(text, t) \subseteq 0..PointCount(text)
<1> DEFINE L == Len(text) + 1
<1>1. L \in 1..(Len(text) + 1) /\ WorkFact(text, t) /\ PassedFact(text)
  BY WorkFacts, Executing DEF PlacesInv
<1>2. Work(text, t, L) \subseteq 0..Passed(text, L)
  BY <1>1 DEF WorkFact
<1>3. /\ Passed(text, L) \in 0..PointCount(text) /\ PointCount(text) \in Nat
  BY <1>1 DEF PassedFact, PointCount
<1>4. 0..Passed(text, L) \subseteq 0..PointCount(text)
  BY <1>3
<1> QED
  BY <1>2, <1>4 DEF AllWork

\* What a thread does in the region of interest is what it does in its
\* phases, each part once, save for those the array has no room for
\* (errorEstimate.py:161-176).
LEMMA PhasesHold ==
  ASSUME MeasuredInv
  PROVE  PhasesCoverWhole
<1> SUFFICES ASSUME Measured(0), Measured(1), NEW n \in DOMAIN csv[0].rows
             PROVE  LET whole == csv[0].rows[n]
                        parts == {i \in DOMAIN csv[1].rows :
                                    /\ csv[1].rows[i].tid = whole.tid
                                    /\ csv[1].rows[i].itr = whole.itr}
                        work(i) == csv[1].rows[i].val["TOT_CYC"].work
                                     \ Garbage
                        all == UNION {work(i) : i \in parts}
                    IN  /\ all \subseteq whole.val["TOT_CYC"].work
                        /\ \A k \in whole.val["TOT_CYC"].work \ all :
                             Unstored(k)
                        /\ \A i, j \in parts :
                             i # j => work(i) \cap work(j) = {}
  BY DEF PhasesCoverWhole
<1> DEFINE rows == csv[1].rows
           whole == csv[0].rows[n]
           parts == {i \in DOMAIN rows : /\ rows[i].tid = whole.tid
                                         /\ rows[i].itr = whole.itr}
           work(i) == rows[i].val["TOT_CYC"].work \ Garbage
           all == UNION {work(i) : i \in parts}
           t == whole.tid
           mine == AllWork(text, t)
           N == PointCount(text)
<1>1. N \in Nat /\ 1 \in Modes /\ 0 \in Modes /\ PlacesInv
  BY HereFact, Executing DEF MeasuredInv, PlanInv, PointCount, Modes
<1>2. "TOT_CYC" \in Stats(platform)
  BY <1>1, MeasuredRows, CyclesIn
<1>3. PICK q \in 0..run : RowsAre(text, platform, 0, csv[0].rows, q)
  BY <1>1, MeasuredRows
<1>4. PICK r \in 0..run : RowsAre(text, platform, 1, rows, r)
  BY <1>1, MeasuredRows
<1>5. t \in Tids /\ whole.itr \in Reps /\ whole.val["TOT_CYC"].work = mine
  <2>1. /\ t \in Tids /\ whole.itr \in Reps
        /\ ValuesTrue(text, platform, 0, whole, q)
    BY <1>1, <1>3, RowIs
  <2> HIDE DEF whole
  <2> QED
    BY <1>2, <2>1 DEF ValuesTrue, TableWork
<1>6. TableRegions(text, 1) - 1 = N
  BY <1>1 DEF TableRegions
<1>7. ASSUME NEW i \in parts
      PROVE  /\ rows[i].bid \in 0..N
             /\ work(i) = PhaseWork(text, t, rows[i].bid) \ Garbage
  <2>1. /\ rows[i].bid \in 0..N /\ i \in DOMAIN rows /\ rows[i].tid = t
        /\ ValuesTrue(text, platform, 1, rows[i], r)
    BY <1>1, <1>4, <1>6, <1>7, RowIs
  <2> HIDE DEF rows
  <2>2. rows[i].val["TOT_CYC"].work = PhaseWork(text, t, rows[i].bid)
    BY <1>2, <2>1 DEF ValuesTrue, TableWork
  <2> QED
    BY <2>1, <2>2
<1>8. \A i \in parts : work(i) \subseteq mine \cap {rows[i].bid}
  <2> SUFFICES ASSUME NEW i \in parts
               PROVE  work(i) \subseteq mine \cap {rows[i].bid}
    OBVIOUS
  <2>1. /\ rows[i].bid \in 0..N
        /\ work(i) = PhaseWork(text, t, rows[i].bid) \ Garbage
    BY <1>7
  <2>2. rows[i].bid \in Nat
    BY <1>1, <2>1
  <2> HIDE DEF work, rows, t
  <2> QED
    BY <2>1, <2>2, PhaseIs
<1>9. all \subseteq mine
  <2> HIDE DEF work, mine, parts
  <2> QED
    BY <1>8
<1>10. ASSUME NEW k \in mine \ all
       PROVE  Unstored(k)
  <2>1. k \in 0..N
    BY <1>1, AllWorkIn
  <2>2. PICK i \in DOMAIN rows :
          rows[i].tid = t /\ rows[i].itr = whole.itr /\ rows[i].bid = k
    <3> HIDE DEF rows, whole, t, N
    <3> QED
      BY <1>1, <1>4, <1>5, <1>6, <2>1, RowThere DEF N
  <2>3. i \in parts /\ k \notin work(i)
    BY <2>2
  <2>4. work(i) = PhaseWork(text, t, k) \ Garbage
    BY <1>7, <2>2, <2>3
  <2>5. k \in Nat
    BY <1>1, <2>1
  <2> HIDE DEF work
  <2>6. k >= MaxPhases /\ k < N
    BY <2>3, <2>4, <2>5, PhaseIs
  <2> QED
    BY <1>1, <2>6, RunsAre DEF Unstored
<1>11. ASSUME NEW i \in parts, NEW j \in parts, i # j
       PROVE  work(i) \cap work(j) = {}
  <2>1. /\ i \in DOMAIN rows /\ j \in DOMAIN rows
        /\ rows[i].tid = rows[j].tid /\ rows[i].itr = rows[j].itr
    OBVIOUS
  <2>2. rows[i].bid # rows[j].bid
    <3> HIDE DEF rows
    <3> QED
      BY <1>1, <1>4, <1>11, <2>1, RowsDiffer
  <2>3. work(i) \subseteq {rows[i].bid} /\ work(j) \subseteq {rows[j].bid}
    BY <1>8
  <2> HIDE DEF work
  <2> QED
    BY <2>2, <2>3
<1> QED
  BY <1>5, <1>9, <1>10, <1>11

----------------------------------------------------------------------------
(* What errorEstimate.py makes of the tables.                              *)

\* The rows of a finished table are those that its keys ask for.
LEMMA RowsKeyed ==
  ASSUME NEW x, NEW p, NEW m, NEW rows, NEW r, RowsAre(x, p, m, rows, r)
  PROVE  KeyedRows(rows, TableRegions(x, m))
<1> DEFINE nb == TableRegions(x, m)
<1>1. ASSUME NEW n \in DOMAIN rows
      PROVE  /\ rows[n].tid = KeyOf(n, nb).tid
             /\ rows[n].itr = KeyOf(n, nb).itr
             /\ rows[n].bid = KeyOf(n, nb).bid
  <2> DEFINE k == KeyOf(n, nb)
  <2>1. [tid |-> rows[n].tid, itr |-> rows[n].itr, bid |-> rows[n].bid] = k
    BY DEF RowsAre
  <2> HIDE DEF k
  <2>2. rows[n].tid = k.tid /\ rows[n].itr = k.itr /\ rows[n].bid = k.bid
    BY <2>1
  <2> QED
    BY <2>2 DEF k
<1> QED
  BY <1>1 DEF RowsAre, KeyedRows

\* What a row has, by its thread, repetition and region.
LEMMA ValuesByKey ==
  ASSUME NEW x, PointCount(x) \in Nat, NEW p, 1 \in Modes, NEW rows, NEW r,
         RowsAre(x, p, 1, rows, r), NEW t \in Tids, NEW i \in Reps,
         NEW b, b \in 0..PointCount(x),
         NEW v, v = ValuesOf(rows, PointCount(x) + 1)[t + 1][i + 1][b + 1]
  PROVE  PointTrue(x, p, t, i, b, v)
<1> DEFINE nb == PointCount(x) + 1
<1>1. TableRegions(x, 1) = nb /\ b \in 0..(TableRegions(x, 1) - 1)
  BY DEF TableRegions
<1>2. nb \in Nat \ {0}
  OBVIOUS
<1>3. PICK n \in DOMAIN rows :
        rows[n].tid = t /\ rows[n].itr = i /\ rows[n].bid = b
  BY <1>1, RowThere
<1>4. KeyedRows(rows, nb)
  <2> HIDE DEF nb
  <2>1. KeyedRows(rows, TableRegions(x, 1))
    BY RowsKeyed
  <2> QED
    BY <1>1, <2>1
<1>5. ValuesTrue(x, p, 1, rows[n], r)
  BY DEF RowsAre
<1> HIDE DEF nb
<1>6. rows[n].val = ValuesOf(rows, nb)[rows[n].tid + 1][rows[n].itr + 1]
                      [rows[n].bid + 1]
  BY <1>2, <1>4, ValuesOfAre
<1> QED
  BY <1>3, <1>5, <1>6 DEF nb, ValuesTrue, PointTrue

\* With finished tables of both modes a barrier point is estimated, and from
\* the region it is about.
LEMMA PointEstimated ==
  ASSUME MeasuredInv, Measured(0), Measured(1), NEW bp \in 1..(regions - 1),
         EstimateError(bp)
  PROVE  EstimateTrue(text, platform, estimate')
<1> DEFINE rows == csv[1].rows
           N == PointCount(text)
           whole == ReadTable(csv[0].rows)
           parts == ReadTable(rows)
           taken == [j \in DOMAIN whole.stats |->
                       EstMetric(parts.stats, j - 1, bp)]
<1>1. N \in Nat /\ 1 \in Modes /\ 0 \in Modes
  BY HereFact, Executing DEF MeasuredInv, PlanInv, PointCount, Modes
<1>2. stage # "identify"
  BY <1>1, MeasuredRows
<1>3. PICK r \in 0..run : RowsAre(text, platform, 1, rows, r)
  BY <1>1, MeasuredRows
<1>4. PICK q \in 0..run : RowsAre(text, platform, 0, csv[0].rows, q)
  BY <1>1, MeasuredRows
<1>5. regions - 1 = N
  <2>1. HasRoi(text)
    BY <1>3 DEF RowsAre
  <2>2. regions = N + 1
    BY <1>2, <2>1 DEF MeasuredInv, NumberedInv
  <2> HIDE DEF N
  <2> QED
    BY <1>1, <2>2
<1> DEFINE nb == N + 1
<1>6. /\ TableRegions(text, 1) = nb /\ TableRegions(text, 0) = 1
      /\ nb \in Nat \ {0} /\ bp \in 1..(nb - 1) /\ nb - 1 = N
  BY <1>1, <1>5 DEF TableRegions
<1>7. KeyedRows(rows, nb) /\ KeyedRows(csv[0].rows, 1)
  BY <1>3, <1>4, <1>6, RowsKeyed
<1> HIDE DEF rows, nb, N
<1>8. ~whole.raised /\ Len(whole.stats) = NThreads
      /\ DOMAIN whole.stats = 1..NThreads
  <2> DEFINE w == ValuesOf(csv[0].rows, 1)
             f == [u \in 1..NThreads |-> RepsTaken(w[u], Iterations, 1, 1)]
             L == {f[u] : u \in 1..NThreads}
  <2>1. ~whole.raised /\ whole.stats = f
    BY <1>7, TableRead
  <2>2. f \in [1..NThreads -> L] /\ DOMAIN f = 1..NThreads
    OBVIOUS
  <2> HIDE DEF f, L, whole
  <2>3. Len(f) = NThreads
    BY <2>2, StatisticsAssumption, ListIs
  <2> QED
    BY <2>1, <2>2, <2>3
<1> HIDE DEF whole
<1>9. ~parts.raised
  BY <1>6, <1>7, TableRead
<1>10. /\ ~PlotRaises(whole.stats, parts.stats, bp)
       /\ \A t \in Tids :
            EstMetric(parts.stats, t, bp)
              = [j \in 1..Iterations |-> ValuesOf(rows, nb)[t + 1][j][bp + 1]]
  <2> DEFINE all == whole.stats
  <2>1. Len(all) = NThreads
    BY <1>8
  <2> HIDE DEF all
  <2>2. /\ ~PlotRaises(all, parts.stats, bp)
        /\ \A t \in Tids :
             EstMetric(parts.stats, t, bp)
               = [j \in 1..Iterations |->
                    ValuesOf(rows, nb)[t + 1][j][bp + 1]]
    BY <1>6, <1>7, <2>1, PointTaken
  <2> QED
    BY <2>2 DEF all
<1> HIDE DEF parts
<1>11. FindsTables
  <2>1. \A m \in Modes : m = 0 \/ m = 1
    BY DEF Modes
  <2>2. \A m \in Modes : csv[m].finished => csv[m].run > 0
    BY DEF MeasuredInv, RowsInv, TableTrue
  <2> QED
    BY <1>1, <2>1, <2>2 DEF FindsTables, Measured
<1>12. estimate' = [result |-> "plotted", bp |-> bp, taken |-> taken]
  <2>1. LET raises == whole.raised \/ parts.raised
                        \/ PlotRaises(whole.stats, parts.stats, bp)
        IN  estimate' =
              CASE ~FindsTables -> [NoEstimate EXCEPT !.result = "exit"]
                [] FindsTables /\ raises ->
                     [NoEstimate EXCEPT !.result = "raised"]
                [] OTHER -> [result |-> "plotted", bp |-> bp,
                             taken |-> taken]
    BY Zenon DEF EstimateError, whole, parts, rows
  <2> HIDE DEF taken
  <2> QED
    BY <1>8, <1>9, <1>10, <1>11, <2>1
<1> DEFINE e == estimate'
<1>13. e.result = "plotted" /\ e.bp = bp /\ e.taken = taken
  <2> HIDE DEF taken, e
  <2>1. e = [result |-> "plotted", bp |-> bp, taken |-> taken]
    BY <1>12 DEF e
  <2> QED
    BY <2>1
<1>14. Len(taken) = NThreads
  <2> DEFINE L == {taken[u] : u \in 1..NThreads}
  <2>1. taken \in [1..NThreads -> L]
    BY <1>8
  <2> HIDE DEF taken, L
  <2> QED
    BY <2>1, StatisticsAssumption, ListIs
<1>15. ASSUME NEW t \in Tids
       PROVE  /\ Len(taken[t + 1]) = Iterations
              /\ \A i \in Reps :
                   taken[t + 1][i + 1] = ValuesOf(rows, nb)[t + 1][i + 1]
                                           [bp + 1]
  <2>1. t + 1 \in 1..NThreads /\ (t + 1) - 1 = t
    BY StatisticsAssumption DEF Tids
  <2>2. taken[t + 1] = EstMetric(parts.stats, t, bp)
    BY <1>8, <2>1
  <2> DEFINE v == ValuesOf(rows, nb)[t + 1]
             f == [j \in 1..Iterations |-> v[j][bp + 1]]
             L == {f[j] : j \in 1..Iterations}
  <2>3. taken[t + 1] = f
    BY <1>10, <2>2
  <2>4. f \in [1..Iterations -> L]
    OBVIOUS
  <2>5. \A i \in Reps : f[i + 1] = v[i + 1][bp + 1]
    <3>1. \A i \in Reps : i + 1 \in 1..Iterations
      BY StatisticsAssumption DEF Reps
    <3> QED
      BY <3>1
  <2> HIDE DEF f, L, v, taken
  <2>6. Len(f) = Iterations
    BY <2>4, StatisticsAssumption, ListIs
  <2> QED
    BY <2>3, <2>5, <2>6 DEF v
<1> HIDE DEF taken, e
<1>16. ASSUME NEW t \in Tids, NEW i \in Reps
       PROVE  PointTrue(text, platform, t, i, bp, taken[t + 1][i + 1])
  <2> DEFINE v == taken[t + 1][i + 1]
  <2>1. PointCount(text) \in Nat /\ bp \in 0..PointCount(text)
    BY <1>1, <1>6 DEF N
  <2>2. v = ValuesOf(rows, PointCount(text) + 1)[t + 1][i + 1][bp + 1]
    BY <1>15 DEF nb, N
  <2> HIDE DEF v
  <2>3. PointTrue(text, platform, t, i, bp, v)
    BY <1>1, <1>3, <2>1, <2>2, ValuesByKey
  <2> QED
    BY <2>3 DEF v
<1> QED
  BY <1>13, <1>14, <1>15, <1>16 DEF EstimateTrue, e

\* At first there is no estimate.
LEMMA EstimateBegins ==
  ASSUME Init
  PROVE  EstimateInv
BY DEF Init, EstimateInv, NoEstimate

\* An estimate lasts as long as the driver is not started again, and the
\* tables change only while it runs.
LEMMA EstimateKept ==
  ASSUME MeasuredInv, EstimateInv, [Next]_vars
  PROVE  EstimateInv'
<1>1. CASE stage # "idle" /\ UNCHANGED estimate
  BY <1>1 DEF EstimateInv
<1>2. CASE Identify
  BY <1>1, <1>2 DEF Identify, DrProgram, DrEnds, driverVars
<1>3. ASSUME NEW d \in BOOLEAN, StartBenchmarks(d)
      PROVE  EstimateInv'
  BY <1>3 DEF StartBenchmarks, EstimateInv, NoEstimate
<1>4. CASE CreateExperimentBatch \/ RemoveOld \/ DryRun \/ LaunchProgram
  BY <1>1, <1>4 DEF CreateExperimentBatch, RemoveOld, DryRun, LaunchProgram
<1>5. CASE CountedProgram \/ ProgramEnds
  BY <1>1, <1>5 DEF CountedProgram, ProgramEnds
<1>6. CASE ParseAndWrite \/ WriteFails \/ Interrupt
  BY <1>1, <1>6 DEF ParseAndWrite, WriteFails, Interrupt
<1>7. ASSUME NEW bp \in 1..(regions - 1), EstimateError(bp)
      PROVE  EstimateInv'
  <2>1. stage' = "idle" /\ UNCHANGED <<text, platform, csv>>
    BY <1>7 DEF EstimateError, StaysOut
  <2>2. \A m \in {0, 1} : Measured(m)' => Measured(m)
    BY <2>1 DEF Measured
  <2>3. Measured(0) /\ Measured(1) => EstimateTrue(text, platform, estimate')
    BY <1>7, PointEstimated
  <2>4. Measured(0)' /\ Measured(1)' =>
          EstimateTrue(text', platform', estimate')
    BY <2>1, <2>2, <2>3
  <2> QED
    BY <2>1, <2>4 DEF EstimateInv
<1>8. CASE UNCHANGED vars
  <2>1. UNCHANGED <<text, platform, csv, stage, estimate>>
    BY <1>8 DEF vars, driverVars
  <2> QED
    BY <2>1 DEF EstimateInv, Measured
<1> QED
  BY <1>2, <1>3, <1>4, <1>5, <1>6, <1>7, <1>8 DEF Next

\* "bp > len" (errorEstimate.py:171) never decides.
LEMMA EstimateHolds ==
  ASSUME MeasuredInv, EstimateInv
  PROVE  EstimateSound
<1> SUFFICES ASSUME Measured(0), Measured(1), estimate.result # "none"
             PROVE  /\ estimate.result = "plotted"
                    /\ Len(estimate.taken) = NThreads
                    /\ \A tid \in Tids :
                         /\ Len(estimate.taken[tid + 1]) = Iterations
                         /\ \A itr \in 0..(Iterations - 1) :
                            \A s \in Stats(platform) :
                              TrueValue(estimate.taken[tid + 1][itr + 1][s],
                                        1, tid, itr, estimate.bp, s)
  BY DEF EstimateSound
<1>1. EstimateTrue(text, platform, estimate)
  BY DEF EstimateInv
<1>2. PlacesInv /\ 1 \in Modes
  BY DEF MeasuredInv, PlanInv, Modes
<1>3. ASSUME NEW tid \in Tids, NEW itr \in Reps, NEW s \in Stats(platform)
      PROVE  TrueValue(estimate.taken[tid + 1][itr + 1][s], 1, tid, itr,
                       estimate.bp, s)
  <2> DEFINE v == estimate.taken[tid + 1][itr + 1][s]
             bp == estimate.bp
  <2>1. /\ v.work = TableWork(text, 1, tid, bp)
        /\ s # "TOT_INS" => v.rep = itr /\ v.round = RoundOf(platform, s)
    BY <1>1 DEF EstimateTrue, PointTrue
  <2> HIDE DEF v, bp
  <2>2. ~(1 = 1 /\ Unstored(bp)) => v.work = Due(1, tid, bp)
    BY <1>2, <2>1, ValueTrue
  <2>3. TrueValue(v, 1, tid, itr, bp, s)
    BY <2>1, <2>2 DEF TrueValue
  <2> QED
    BY <2>3 DEF v, bp
<1> QED
  BY <1>1, <1>3 DEF EstimateTrue, Reps

----------------------------------------------------------------------------
(* The results.                                                            *)

\* The inductive invariant, of all steps of the client, the library, the
\* script and the driver.
LEMMA MeasuredSpec == Spec => []MeasuredInv
<1>1. Init => MeasuredInv
  BY MeasuredBegins
<1>2. MeasuredInv /\ [Next]_vars => MeasuredInv'
  BY MeasuredKept
<1> QED
  BY <1>1, <1>2, PTL DEF Spec

\* An average is taken over each repetition once, and that of the
\* instructions over each execution once (RunBenchmarks.py:130-160).
THEOREM MeasuredAverages == Spec => []AveragesComplete
<1>1. MeasuredInv => AveragesComplete
  BY AveragesHold
<1> QED
  BY <1>1, MeasuredSpec, PTL

\* A finished check table never shows one thing under the name of another,
\* whatever lines of a thread are lost together, and all of it is of one
\* invocation (omp_counters.h:261-276, 340-350,
\* RunBenchmarks.py:99-113, 480-501).
THEOREM MeasuredRowsTrue == Spec => []RowsTrue
<1>1. MeasuredInv => RowsTrue
  BY RowsHold
<1> QED
  BY <1>1, MeasuredSpec, PTL

\* The counters number the regions as the client does
\* (bp_perfcntrs.cc:49-102, main.cpp:219-304).
THEOREM MeasuredNumbering == Spec => []SameNumbering
<1>1. MeasuredInv => SameNumbering
  BY NumberingHolds
<1> QED
  BY <1>1, MeasuredSpec, PTL

\* What a thread does in the region of interest is what it does in its
\* phases together, save for those beyond MAX_PARALLEL_PHASES
\* (omp_counters.h:340-350, errorEstimate.py:161-176).
THEOREM MeasuredPhases == Spec => []PhasesCoverWhole
<1>1. MeasuredInv => PhasesCoverWhole
  BY PhasesHold
<1> QED
  BY <1>1, MeasuredSpec, PTL

\* With finished tables the estimate is plotted, for each thread and
\* repetition from the region that the client has given that number
\* (errorEstimate.py:161-176, 299-322).
THEOREM MeasuredEstimate == Spec => []EstimateSound
<1> DEFINE I == MeasuredInv /\ EstimateInv
<1>1. Init => I
  BY MeasuredBegins, EstimateBegins
<1>2. I /\ [Next]_vars => I'
  BY MeasuredKept, EstimateKept
<1>3. I => EstimateSound
  BY EstimateHolds
<1> QED
  BY <1>1, <1>2, <1>3, PTL DEF Spec
=============================================================================
