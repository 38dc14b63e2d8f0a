------------------------- MODULE MeasurementProofs -------------------------
(***************************************************************************)
(* What holds of the methodology from end to end, for any programs, any    *)
(* number of threads, of repetitions, of invocations and of failures: the  *)
(* markers of the identification pair up (bp_dr.cc:30-58), tables of two   *)
(* invocations of RunBenchmarks.py are never found together, and what is   *)
(* averaged for an event is paired with the instructions of the same       *)
(* execution; and what is counted never exceeds what the program has.      *)
(*                                                                         *)
(* MarksPaired is not inductive.  In a team the flags must agree with the  *)
(* environment, so that no thread takes the branches of the markers        *)
(* (Agreed); outside of one they agree unless the master is on its way     *)
(* from a setenv to the marker (Requested).  This is proved of RoiMarker   *)
(* alone; the program that Measurement runs under DynamoRIO only takes     *)
(* steps of RoiMarker, and no other program has marks.                     *)
(*                                                                         *)
(* TablesOfOneRun is not inductive either: one has to know what the other  *)
(* table is while one is being made: none in mode 0, whose script has      *)
(* removed both, and that of the same invocation in mode 1, which main()   *)
(* comes to only with the first table written.                             *)
(*                                                                         *)
(* TuplesOfOneRun rests on what the files look like: the lines of an event *)
(* are led by those of the instructions of their thread, region and        *)
(* execution, so that a reader that takes one line after the other always  *)
(* has the right instructions in t_inst (Led and Current in                *)
(* StatisticsProofs).  So the invariant only has to say that the files     *)
(* have complete records, of rounds there are (PapiTypes).                 *)
(*                                                                         *)
(* TypeOK bounds what the client and the library count by the points of    *)
(* the program.  So the invariant has to know where the threads are: all   *)
(* of a team in one operation (PlacesInv), which the client and every      *)
(* thread count when the master passes it (DrCounts, CountedInv).  That a  *)
(* point is counted where the environment says that the region of interest *)
(* is on needs that it is set once (OneRoi).                               *)
(***************************************************************************)
EXTENDS Measurement, StatisticsProofs

----------------------------------------------------------------------------
(* The markers of libbp_dr.so.                                             *)

Labels == {"out", "env", "flag", "start", "end", "real", "joined"}

RoiTypeOK ==
  /\ team \subseteq Threads
  /\ pc \in [Threads -> Labels]
  /\ roi_bp \in {"unset", "0", "1"}
  /\ inside_roi \in BOOLEAN
  /\ dr_flag \in BOOLEAN
  /\ marks \in Seq([call : {"start", "end"}, by : Threads,
                    team : SUBSET Threads])

\* Both flags say what the environment says.
Settled == inside_roi = RoiRead /\ dr_flag = inside_roi

\* The master is in every team, and a thread in none does nothing.
Idle ==
  /\ Master \in Active
  /\ \A t \in Threads \ Active : pc[t] = "out"

Agreed ==
  team # {} \/ pc[Master] \in {"out", "real", "joined"} => Settled

Requested ==
  team = {} =>
    /\ pc[Master] \in {"flag", "start", "end"} => inside_roi = RoiRead
    /\ pc[Master] = "start" => inside_roi /\ ~dr_flag
    /\ pc[Master] = "end" => ~inside_roi /\ dr_flag

MarksAlone ==
  \A t \in Threads : pc[t] \in {"start", "end"} => t = Master /\ team = {}

FlagCounts ==
  /\ dr_flag => Len(marks) % 2 = 1
  /\ ~dr_flag => Len(marks) % 2 = 0

RoiInv ==
  /\ RoiTypeOK
  /\ Idle
  /\ Agreed
  /\ Requested
  /\ MarksAlone
  /\ FlagCounts
  /\ MarksPaired

----------------------------------------------------------------------------
\* At first nobody has asked for anything (bp_dr.cc:27-28).
LEMMA RoiInitInv == RoiInit => RoiInv
<1> SUFFICES ASSUME RoiInit PROVE RoiInv
  OBVIOUS
<1> USE MasterAssumption DEF RoiInit, ProcessInit, MarkerInit
<1>1. marks = <<>> /\ Len(marks) = 0
  OBVIOUS
<1>2. RoiTypeOK
  <2>1. <<>> \in Seq([call : {"start", "end"}, by : Threads,
                      team : SUBSET Threads])
    OBVIOUS
  <2>2. pc \in [Threads -> Labels]
    BY DEF Labels
  <2> QED
    BY <2>1, <2>2, Zenon DEF RoiTypeOK
<1>3. Idle
  BY DEF Idle, Active
<1>4. Agreed /\ Requested
  BY DEF Agreed, Requested, Settled, RoiRead
<1>5. MarksAlone
  BY DEF MarksAlone
<1>6. FlagCounts
  BY <1>1 DEF FlagCounts
<1>7. MarksPaired
  BY <1>1 DEF MarksPaired
<1> QED
  BY <1>2, <1>3, <1>4, <1>5, <1>6, <1>7 DEF RoiInv

----------------------------------------------------------------------------
(* The steps.  All but Mark leave the marks and _dr_flag alone.            *)

\* What is said of the markers' variables alone outlives such a step.
LEMMA MarkersKept ==
  ASSUME RoiInv, UNCHANGED markerVars
  PROVE  FlagCounts' /\ MarksPaired'
BY DEF RoiInv, markerVars, FlagCounts, MarksPaired

\* A team starts with all flags settled.
LEMMA ForkInv ==
  ASSUME RoiInv, NEW members \in SUBSET Threads, Master \in members,
         Fork(members), UNCHANGED markerVars
  PROVE  RoiInv'
<1> USE DEF RoiInv, Fork, markerVars
<1>1. RoiTypeOK'
  BY DEF RoiTypeOK
<1>2. Idle'
  BY DEF Idle, Active
<1>3. Agreed' /\ Requested'
  BY DEF Agreed, Requested, Settled, RoiRead
<1>4. MarksAlone'
  <2> SUFFICES ASSUME NEW t \in Threads, pc'[t] \in {"start", "end"}
               PROVE  FALSE
    BY DEF MarksAlone
  <2> QED
    BY DEF MarksAlone
<1> QED
  BY <1>1, <1>2, <1>3, <1>4, MarkersKept

\* A thread of a team is done.
LEMMA FinishInv ==
  ASSUME RoiInv, NEW t \in Threads, Finish(t), UNCHANGED markerVars
  PROVE  RoiInv'
<1> USE MasterAssumption DEF RoiInv, Finish, GoesTo, markerVars
<1>1. RoiTypeOK'
  BY DEF RoiTypeOK, Labels
<1>2. Idle'
  BY DEF Idle, Active, RoiTypeOK
<1>3. Agreed' /\ Requested'
  BY DEF Agreed, Requested, Settled, RoiRead
<1>4. MarksAlone'
  BY DEF MarksAlone, RoiTypeOK
<1> QED
  BY <1>1, <1>2, <1>3, <1>4, MarkersKept

\* The team ends, and no barrier of it has changed a flag.
LEMMA JoinInv ==
  ASSUME RoiInv, Join, UNCHANGED markerVars
  PROVE  RoiInv'
<1> USE MasterAssumption DEF RoiInv, Join, markerVars
<1>1. RoiTypeOK'
  BY DEF RoiTypeOK, Labels
<1>2. Idle'
  BY DEF Idle, Active
<1>3. Agreed' /\ Requested'
  BY DEF Agreed, Requested, Settled, RoiRead
<1>4. MarksAlone'
  BY DEF MarksAlone
<1> QED
  BY <1>1, <1>2, <1>3, <1>4, MarkersKept

\* All threads were in libgomp's barrier, so none is on its way to a marker.
LEMMA ReleaseInv ==
  ASSUME RoiInv, Release, UNCHANGED markerVars
  PROVE  RoiInv'
<1> USE MasterAssumption DEF RoiInv, Release, markerVars
<1>1. RoiTypeOK'
  BY DEF RoiTypeOK, Labels
<1>2. Idle'
  BY DEF Idle, Active
<1>3. pc[Master] = "real"
  BY DEF Idle
<1>4. Agreed' /\ Requested'
  BY <1>3 DEF Agreed, Requested, Settled, RoiRead
<1>5. MarksAlone'
  BY DEF MarksAlone
<1> QED
  BY <1>1, <1>2, <1>4, <1>5, MarkersKept

\* The program asks for a marker: the environment is ahead of the flags.
LEMMA SetRoiInv ==
  ASSUME RoiInv, NEW value \in {"0", "1"}, SetRoi(value),
         UNCHANGED markerVars
  PROVE  RoiInv'
<1> USE MasterAssumption DEF RoiInv, SetRoi, GoesTo, markerVars
<1>1. RoiTypeOK'
  BY DEF RoiTypeOK, Labels
<1>2. pc'[Master] = "env" /\ team' = {}
  BY DEF RoiTypeOK
<1>3. Idle'
  BY DEF Idle, Active, RoiTypeOK
<1>4. Agreed' /\ Requested'
  BY <1>2 DEF Agreed, Requested
<1>5. MarksAlone'
  BY DEF MarksAlone, RoiTypeOK
<1> QED
  BY <1>1, <1>3, <1>4, <1>5, MarkersKept

\* Any other barrier of the program.
LEMMA CallBarrierInv ==
  ASSUME RoiInv, NEW t \in Threads, CallBarrier(t), UNCHANGED markerVars
  PROVE  RoiInv'
<1> USE MasterAssumption DEF RoiInv, CallBarrier, GoesTo, markerVars
<1>1. RoiTypeOK'
  BY DEF RoiTypeOK, Labels
<1>2. Idle'
  BY DEF Idle, Active, RoiTypeOK
<1>3. Agreed' /\ Requested'
  BY DEF Agreed, Requested, Settled, RoiRead, Active, RoiTypeOK
<1>4. MarksAlone'
  BY DEF MarksAlone, RoiTypeOK
<1> QED
  BY <1>1, <1>2, <1>3, <1>4, MarkersKept

\* In a team the environment tells a thread nothing new.
LEMMA ReadEnvInv ==
  ASSUME RoiInv, NEW t \in Threads, ReadEnv(t), UNCHANGED markerVars
  PROVE  RoiInv'
<1> USE MasterAssumption DEF RoiInv, ReadEnv, GoesTo, markerVars
<1>1. RoiTypeOK'
  <2>1. RoiRead \in BOOLEAN
    BY DEF RoiRead, RoiTypeOK
  <2> QED
    BY <2>1 DEF RoiTypeOK, Labels
<1>2. Idle'
  BY DEF Idle, Active, RoiTypeOK
<1>3. t \in Active
  BY DEF Idle
<1>4. inside_roi' = RoiRead'
  BY DEF RoiRead
<1>5. CASE team # {}
  <2>1. Settled
    BY <1>5 DEF Agreed
  <2>2. inside_roi' = inside_roi
    BY <2>1 DEF Settled
  <2>3. Agreed'
    BY <1>4, <2>1, <2>2 DEF Agreed, Settled
  <2>4. Requested'
    BY <1>5 DEF Requested
  <2>5. MarksAlone'
    BY DEF MarksAlone, RoiTypeOK
  <2> QED
    BY <1>1, <1>2, <2>3, <2>4, <2>5, MarkersKept
<1>6. CASE team = {}
  <2>1. t = Master /\ pc'[Master] = "flag"
    BY <1>3, <1>6 DEF Active, RoiTypeOK
  <2>2. Agreed' /\ Requested'
    BY <1>4, <1>6, <2>1 DEF Agreed, Requested
  <2>3. MarksAlone'
    BY DEF MarksAlone, RoiTypeOK
  <2> QED
    BY <1>1, <1>2, <2>2, <2>3, MarkersKept
<1> QED
  BY <1>5, <1>6

\* With settled flags a thread goes on to libgomp.
LEMMA TestFlagInv ==
  ASSUME RoiInv, NEW t \in Threads, TestFlag(t), UNCHANGED markerVars
  PROVE  RoiInv'
<1> DEFINE next == CASE inside_roi /\ ~dr_flag -> "start"
                     [] ~inside_roi /\ dr_flag -> "end"
                     [] OTHER -> "real"
<1> USE MasterAssumption DEF RoiInv, TestFlag, GoesTo, markerVars
<1>1. /\ next \in {"start", "end", "real"}
      /\ next = "start" => inside_roi /\ ~dr_flag
      /\ next = "end" => ~inside_roi /\ dr_flag
      /\ next = "real" => dr_flag = inside_roi
  BY DEF RoiTypeOK
<1>2. pc' = [pc EXCEPT ![t] = next] /\ pc[t] = "flag"
  OBVIOUS
<1> HIDE DEF next
<1>3. RoiTypeOK'
  BY <1>1, <1>2 DEF RoiTypeOK, Labels
<1>4. Idle'
  BY <1>2 DEF Idle, Active, RoiTypeOK
<1>5. t \in Active
  BY <1>2 DEF Idle
<1>6. CASE team # {}
  <2>1. Settled /\ Settled'
    BY <1>6 DEF Agreed, Settled, RoiRead
  <2>2. next = "real"
    BY <1>1, <2>1 DEF Settled
  <2>3. Agreed' /\ Requested'
    BY <1>6, <2>1 DEF Agreed, Requested
  <2>4. MarksAlone'
    BY <1>2, <2>2 DEF MarksAlone, RoiTypeOK
  <2> QED
    BY <1>3, <1>4, <2>3, <2>4, MarkersKept
<1>7. CASE team = {}
  <2>1. t = Master /\ pc'[Master] = next
    BY <1>2, <1>5, <1>7 DEF Active, RoiTypeOK
  <2>2. inside_roi = RoiRead /\ (inside_roi = RoiRead)'
    BY <1>2, <1>7, <2>1 DEF Requested, RoiRead
  <2>3. Agreed'
    BY <1>1, <1>7, <2>1, <2>2 DEF Agreed, Settled
  <2>4. Requested'
    BY <1>1, <1>7, <2>1, <2>2 DEF Requested
  <2>5. MarksAlone'
    BY <1>2, <1>7, <2>1 DEF MarksAlone, RoiTypeOK
  <2> QED
    BY <1>3, <1>4, <2>3, <2>4, <2>5, MarkersKept
<1> QED
  BY <1>6, <1>7

\* A marker is called by the master alone, and settles the flags.
LEMMA MarkInv ==
  ASSUME RoiInv, NEW t \in Threads, Mark(t)
  PROVE  RoiInv'
<1> USE MasterAssumption DEF RoiInv, Mark, GoesTo, FlagAfter
<1> DEFINE mark == [call |-> pc[t], by |-> t, team |-> team]
<1>1. t = Master /\ team = {} /\ pc[Master] \in {"start", "end"}
  BY DEF MarksAlone
<1>2. /\ mark \in [call : {"start", "end"}, by : Threads,
                   team : SUBSET Threads]
      /\ mark.call = pc[Master] /\ mark.by = Master /\ mark.team = {}
  BY <1>1 DEF RoiTypeOK
<1>3. marks' = Append(marks, mark)
  OBVIOUS
<1> HIDE DEF mark
<1>4. marks \in Seq([call : {"start", "end"}, by : Threads,
                     team : SUBSET Threads])
  BY DEF RoiTypeOK
<1>5. /\ Len(marks') = Len(marks) + 1
      /\ marks'[Len(marks')] = mark
      /\ \A i \in 1..Len(marks) : marks'[i] = marks[i]
      /\ Len(marks) \in Nat
  BY <1>2, <1>3, <1>4
<1>6. RoiTypeOK'
  <2>1. marks' \in Seq([call : {"start", "end"}, by : Threads,
                        team : SUBSET Threads])
    BY <1>2, <1>3, <1>4
  <2> QED
    BY <2>1 DEF RoiTypeOK, Labels
<1>7. Idle'
  BY DEF Idle, Active, RoiTypeOK
<1>8. pc'[Master] = "out" /\ team' = {}
  BY <1>1 DEF RoiTypeOK
<1>9. /\ pc[Master] = "start" => inside_roi /\ ~dr_flag /\ dr_flag'
      /\ pc[Master] = "end" => ~inside_roi /\ dr_flag /\ ~dr_flag'
      /\ inside_roi = RoiRead
  BY <1>1 DEF Requested
<1>10. Agreed' /\ Requested'
  <2>1. inside_roi' = inside_roi /\ RoiRead' = RoiRead
    BY DEF RoiRead
  <2>2. dr_flag' = inside_roi'
    BY <1>1, <1>9, <1>6, <2>1 DEF RoiTypeOK
  <2> QED
    BY <1>8, <1>9, <2>1, <2>2 DEF Agreed, Requested, Settled
<1>11. MarksAlone'
  BY <1>1 DEF MarksAlone, RoiTypeOK
<1>12. /\ pc[Master] = "start" => Len(marks) % 2 = 0 /\ Len(marks') % 2 = 1
       /\ pc[Master] = "end" => Len(marks) % 2 = 1 /\ Len(marks') % 2 = 0
  BY <1>5, <1>9 DEF FlagCounts
<1>13. FlagCounts'
  BY <1>1, <1>9, <1>12 DEF FlagCounts
<1>14. MarksPaired'
  <2> SUFFICES ASSUME NEW i \in 1..Len(marks')
               PROVE  /\ marks'[i].call = IF (i % 2) = 1 THEN "start"
                                                         ELSE "end"
                      /\ marks'[i].by = Master
                      /\ marks'[i].team = {}
    BY DEF MarksPaired
  <2>1. CASE i \in 1..Len(marks)
    BY <1>5, <2>1 DEF MarksPaired
  <2>2. CASE i = Len(marks')
    BY <1>1, <1>2, <1>5, <1>12, <2>2
  <2> QED
    BY <1>5, <2>1, <2>2
<1> QED
  BY <1>6, <1>7, <1>10, <1>11, <1>13, <1>14

----------------------------------------------------------------------------
\* The markers are called in turns, by the master, outside of every team, for
\* any threads and any master (bp_dr.cc:30-58).
THEOREM RoiMarksPaired == RoiSpec => []MarksPaired
<1>1. RoiInv /\ [RoiNext]_roiVars => RoiInv'
  <2> SUFFICES ASSUME RoiInv, [RoiNext]_roiVars PROVE RoiInv'
    OBVIOUS
  <2>1. CASE RoiNext
    BY <2>1, ForkInv, FinishInv, JoinInv, ReleaseInv, SetRoiInv,
       CallBarrierInv, ReadEnvInv, TestFlagInv, MarkInv DEF RoiNext
  <2>2. CASE UNCHANGED roiVars
    BY <2>2 DEF RoiInv, RoiTypeOK, Idle, Active, Agreed, Settled, Requested,
       RoiRead, MarksAlone, FlagCounts, MarksPaired, roiVars, processVars,
       markerVars
  <2> QED
    BY <2>1, <2>2
<1>2. RoiInv => MarksPaired
  BY DEF RoiInv
<1> QED
  BY RoiInitInv, <1>1, <1>2, PTL DEF RoiSpec

----------------------------------------------------------------------------
(* The programs of the methodology.                                        *)

MarksInv ==
  /\ stage = "identify" => RoiInv
  /\ stage # "identify" => marks = <<>>

\* A program of the driver is being prepared, run or parsed.
Driving == stage \in {"create", "script", "launch", "program", "parse"}

\* The script of the mode has removed the old tables.
Removing == stage \in {"launch", "program", "parse"}

FirstMode ==
  ~dry /\ barriers = 0 /\ Removing => \A m \in Modes : csv[m].run = 0

SecondMode ==
  ~dry /\ barriers = 1 /\ Driving => csv[0].run = run /\ csv[1].run = 0

TablesInv ==
  /\ csv = [m \in Modes |-> csv[m]]
  /\ run \in Nat /\ barriers \in Modes /\ dry \in BOOLEAN
  /\ Driving => run > 0
  /\ FirstMode
  /\ SecondMode
  /\ TablesOfOneRun

----------------------------------------------------------------------------
(* The markers.                                                            *)

\* Any team has the master (GOMP_parallel of libgomp makes its caller 0).
LEMMA MembersFact ==
  ASSUME NEW op
  PROVE  Members(op) \in SUBSET Threads /\ Master \in Members(op)
BY MasterAssumption DEF Members

\* Each step of the program under DynamoRIO is one of the library's
\* (DrProgram against bp_dr.cc:30-58).
LEMMA DrProgramInv ==
  ASSUME RoiInv, DrProgram
  PROVE  RoiInv'
<1>1. CASE DrSetRoi
  <2>1. RoiValue(text[at[Master]]) \in {"0", "1"}
    BY <1>1 DEF DrSetRoi, Meets, RoiValue
  <2> QED
    BY <1>1, <2>1, SetRoiInv DEF DrSetRoi
<1>2. CASE DrFork
  BY <1>2, ForkInv, MembersFact DEF DrFork
<1>3. CASE DrLibgomp
  BY <1>3, ReleaseInv, JoinInv DEF DrLibgomp, ReleaseAll, JoinAll
<1>4. ASSUME NEW t \in Threads,
             \/ DrCallBarrier(t) \/ DrReadEnv(t) \/ DrTestFlag(t)
             \/ DrMark(t) \/ DrFinish(t)
      PROVE  RoiInv'
  BY <1>4, CallBarrierInv, ReadEnvInv, TestFlagInv, MarkInv, FinishInv
     DEF DrCallBarrier, DrReadEnv, DrTestFlag, DrMark, DrFinish
<1> QED
  BY <1>1, <1>2, <1>3, <1>4 DEF DrProgram

\* The marks end with the process, and a program with counters makes none.
LEMMA MarksStep ==
  ASSUME MarksInv, [Next]_vars
  PROVE  MarksInv'
<1>1. CASE Identify /\ DrProgram
  <2>1. stage' = "identify" /\ RoiInv
    BY <1>1 DEF MarksInv, Identify, DrProgram, driverVars
  <2> QED
    BY <1>1, <2>1, DrProgramInv DEF MarksInv
<1>2. CASE Identify /\ DrEnds
  BY <1>2 DEF MarksInv, Identify, DrEnds, Gone
<1>3. CASE stage # "identify" /\ stage' # "identify"
           /\ (UNCHANGED marks \/ Gone)
  BY <1>3 DEF MarksInv, Gone
<1>4. ASSUME NEW d \in BOOLEAN, StartBenchmarks(d)
      PROVE  MarksInv'
  BY <1>3, <1>4 DEF StartBenchmarks, StaysOut, roiVars, markerVars
<1>5. CASE CreateExperimentBatch \/ RemoveOld \/ DryRun \/ ParseAndWrite
           \/ WriteFails
  BY <1>3, <1>5 DEF CreateExperimentBatch, RemoveOld, DryRun, ParseAndWrite,
     WriteFails, StaysOut, roiVars, markerVars
<1>6. CASE LaunchProgram \/ CountedProgram
  BY <1>3, <1>6 DEF LaunchProgram, CountedProgram, roiVars, markerVars
<1>7. CASE ProgramEnds \/ Interrupt
  BY <1>3, <1>7 DEF ProgramEnds, Interrupt
<1>8. ASSUME NEW bp \in 1..(regions - 1), EstimateError(bp)
      PROVE  MarksInv'
  BY <1>3, <1>8 DEF EstimateError, StaysOut, roiVars, markerVars
<1>9. CASE UNCHANGED vars
  BY <1>9 DEF MarksInv, vars, driverVars, roiVars, processVars, markerVars,
     RoiInv, RoiTypeOK, Idle, Active, Agreed, Settled, Requested, RoiRead,
     MarksAlone, FlagCounts, MarksPaired
<1> QED
  BY <1>1, <1>2, <1>4, <1>5, <1>6, <1>7, <1>8, <1>9 DEF Next, Identify

\* In whatever program and however the driver is started, fails or is
\* killed, the client meets starts and ends in turns, from the master outside
\* of every team (bp_dr.cc:30-58).
THEOREM MeasuredMarksPaired == Spec => []MarksPaired
<1>1. Init => MarksInv
  BY RoiInitInv DEF Init, ProgramInit, RoiInit, PerfInit, MarksInv
<1>2. MarksInv => MarksPaired
  <2>1. Len(<<>>) = 0
    OBVIOUS
  <2> QED
    BY <2>1 DEF MarksInv, RoiInv, MarksPaired
<1> QED
  BY <1>1, <1>2, MarksStep, PTL DEF Spec

----------------------------------------------------------------------------
(* The tables.                                                             *)

\* Whatever leaves the driver's variables alone, or gives the invocation up,
\* leaves the tables as they are (the shell goes on with the next program,
\* main() returns).
LEMMA TablesQuiet ==
  ASSUME TablesInv, UNCHANGED <<run, dry, barriers, csv>>,
         Driving' => Driving,
         Removing' => Removing
  PROVE  TablesInv'
<1> USE DEF TablesInv
<1>1. TablesOfOneRun'
  BY DEF TablesOfOneRun
<1>2. FirstMode' /\ SecondMode'
  BY DEF FirstMode, SecondMode
<1> QED
  BY <1>1, <1>2

\* A table belongs to the invocation that makes it, whatever is in it
\* (RunBenchmarks.py:540-636), also when the disk is full after some rows.
LEMMA TableWritten ==
  ASSUME TablesInv, stage = "parse", NEW table,
         table.run = run, table.dry = dry,
         csv' = [csv EXCEPT ![barriers] = table], UNCHANGED <<run, dry>>,
         \/ stage' = "idle"
         \/ stage' = "create" /\ barriers = 0 /\ barriers' = 1,
         barriers' \in Modes
  PROVE  TablesInv'
<1> USE DEF TablesInv, Driving, Removing, Modes
<1>1. /\ csv' = [m \in Modes |-> csv'[m]]
      /\ csv'[barriers] = table
      /\ \A m \in Modes : m # barriers => csv'[m] = csv[m]
  OBVIOUS
<1>2. run > 0
  OBVIOUS
<1>3. CASE dry
  <2>1. csv'[barriers].dry
    BY <1>1, <1>3
  <2>2. TablesOfOneRun'
    BY <2>1 DEF TablesOfOneRun
  <2> QED
    BY <1>1, <1>2, <1>3, <2>2 DEF FirstMode, SecondMode
<1>4. CASE ~dry /\ barriers = 0
  <2>1. csv'[0].run = run /\ csv'[1].run = 0
    BY <1>1, <1>4 DEF FirstMode
  <2>2. TablesOfOneRun' /\ FirstMode' /\ SecondMode'
    BY <1>2, <2>1 DEF TablesOfOneRun, FirstMode, SecondMode
  <2> QED
    BY <1>1, <1>2, <2>2
<1>5. CASE ~dry /\ barriers = 1
  <2>1. csv'[0].run = run /\ csv'[1].run = run
    BY <1>1, <1>5 DEF SecondMode
  <2>2. TablesOfOneRun' /\ FirstMode' /\ SecondMode'
    BY <1>5, <2>1 DEF TablesOfOneRun, FirstMode, SecondMode
  <2> QED
    BY <1>1, <1>2, <2>2
<1> QED
  BY <1>3, <1>4, <1>5

\* The script of mode 0 removes the tables of both modes, that of mode 1 its
\* own (RunBenchmarks.py:476).
LEMMA RemoveOldTables ==
  ASSUME TablesInv, RemoveOld
  PROVE  TablesInv'
<1> USE DEF TablesInv, RemoveOld, Driving, Removing, Modes
<1>1. \A m \in Modes :
        csv'[m] = IF m \in Removed THEN NoTable ELSE csv[m]
  OBVIOUS
<1>2. CASE barriers = 0
  <2>1. \A m \in Modes : csv'[m].run = 0
    BY <1>1, <1>2 DEF Removed, NoTable
  <2> QED
    BY <1>2, <2>1 DEF TablesOfOneRun, FirstMode, SecondMode
<1>3. CASE barriers = 1
  <2>1. csv'[0].run = run /\ csv'[1].run = 0
    BY <1>1, <1>3 DEF Removed, NoTable, SecondMode
  <2> QED
    BY <1>3, <2>1 DEF TablesOfOneRun, FirstMode, SecondMode
<1> QED
  BY <1>2, <1>3

\* Both tables of a mode are written by the invocation that has parsed the
\* files, and main() goes on with mode 1 only if both are there.
LEMMA ParseTables ==
  ASSUME TablesInv, ParseAndWrite \/ WriteFails
  PROVE  TablesInv'
<1> DEFINE st == StatsPerfCounters(platform, papi[barriers])
           table == Table(st.STATS)
           cut(n) == [table EXCEPT
                        !.rows = SubSeq(@, 1, n), !.avg = <<>>,
                        !.finished = table.finished
                                       /\ n = Len(table.rows)]
<1>1. table.run = run /\ table.dry = dry
  BY DEF Table
<1>2. \A n : cut(n).run = run /\ cut(n).dry = dry
  BY <1>1 DEF Table
<1>3. stage = "parse" /\ UNCHANGED <<run, dry>> /\ barriers' \in Modes
  BY DEF ParseAndWrite, WriteFails, TablesInv, Modes
<1>4. CASE UNCHANGED <<csv, barriers>> /\ stage' = "idle"
  BY <1>3, <1>4, TablesQuiet DEF Driving, Removing
<1>5. CASE ParseAndWrite /\ ~UNCHANGED csv
  <2>1. /\ csv' = [csv EXCEPT ![barriers] = table]
        /\ \/ stage' = "idle"
           \/ stage' = "create" /\ barriers = 0 /\ barriers' = 1
    BY <1>5 DEF ParseAndWrite
  <2> HIDE DEF table
  <2> QED
    BY <1>1, <1>3, <2>1, TableWritten
<1>6. ASSUME NEW n \in 0..Len(table.rows),
             csv' = [csv EXCEPT ![barriers] = cut(n)], stage' = "idle",
             UNCHANGED barriers
      PROVE  TablesInv'
  <2> DEFINE c == cut(n)
  <2>1. c.run = run /\ c.dry = dry
    BY <1>2
  <2>2. csv' = [csv EXCEPT ![barriers] = c]
    BY <1>6
  <2> HIDE DEF c
  <2> QED
    BY <1>3, <1>6, <2>1, <2>2, TableWritten
<1>7. CASE WriteFails
  BY <1>4, <1>6, <1>7 DEF WriteFails
<1>8. CASE ParseAndWrite /\ UNCHANGED csv
  <2>1. CASE st.raised
    BY <1>4, <1>8, <2>1 DEF ParseAndWrite
  <2>2. CASE ~st.raised
    <3>1. /\ csv' = [csv EXCEPT ![barriers] = table]
          /\ \/ stage' = "idle"
             \/ stage' = "create" /\ barriers = 0 /\ barriers' = 1
      BY <1>8, <2>2 DEF ParseAndWrite
    <3> HIDE DEF table
    <3> QED
      BY <1>1, <1>3, <3>1, TableWritten
  <2> QED
    BY <2>1, <2>2
<1> QED
  BY <1>5, <1>7, <1>8

\* No step of the driver, of the shell, of a program or of the reader of the
\* tables brings tables of two invocations together.
LEMMA TablesStep ==
  ASSUME TablesInv, [Next]_vars
  PROVE  TablesInv'
<1> USE DEF Driving, Removing
<1>1. CASE Identify
  BY <1>1, TablesQuiet DEF Identify, DrProgram, DrEnds, driverVars
<1>2. ASSUME NEW d \in BOOLEAN, StartBenchmarks(d)
      PROVE  TablesInv'
  BY <1>2 DEF StartBenchmarks, TablesInv, FirstMode, SecondMode,
     TablesOfOneRun, Modes
<1>3. CASE CreateExperimentBatch \/ DryRun
  BY <1>3, TablesQuiet DEF CreateExperimentBatch, DryRun, TablesInv,
     FirstMode, SecondMode, TablesOfOneRun
<1>4. CASE LaunchProgram \/ CountedProgram
  BY <1>4, TablesQuiet DEF LaunchProgram, CountedProgram
<1>5. CASE ProgramEnds \/ Interrupt
  BY <1>5, TablesQuiet DEF ProgramEnds, Interrupt
<1>6. ASSUME NEW bp \in 1..(regions - 1), EstimateError(bp)
      PROVE  TablesInv'
  BY <1>6, TablesQuiet DEF EstimateError
<1>7. CASE UNCHANGED vars
  BY <1>7, TablesQuiet DEF vars, driverVars
<1> QED
  BY <1>1, <1>2, <1>3, <1>4, <1>5, <1>6, <1>7, RemoveOldTables, ParseTables
     DEF Next

\* Wherever invocations fail or are killed, the tables errorEstimate.py finds
\* are of one invocation, or a dry run has made one of them
\* (RunBenchmarks.py:476, errorEstimate.py:299-322).
THEOREM MeasuredTablesOfOneRun == Spec => []TablesOfOneRun
<1>1. Init => TablesInv
  BY DEF Init, TablesInv, FirstMode, SecondMode, TablesOfOneRun, Driving,
     Removing, Modes, NoTable
<1>2. TablesInv => TablesOfOneRun
  BY DEF TablesInv
<1> QED
  BY <1>1, <1>2, TablesStep, PTL DEF Spec

----------------------------------------------------------------------------
(* What the measured programs write.                                       *)

OutLines == Seq([bid : Nat, work : SUBSET Int])

PerfTypes ==
  /\ count \in [Threads -> Nat]
  /\ counters \in [Threads -> SUBSET Int]
  /\ pbarrier \in [Threads -> Seq(SUBSET Int)]
  /\ outfile \in [Threads -> OutLines]

PapiTypes ==
  /\ text \in Seq(Operations)
  /\ PerfTypes
  /\ run \in Nat
  /\ barriers \in Modes
  /\ rep \in 0..(Iterations - 1)
  /\ stage \in {"script", "launch", "program", "parse"}
       => platform \in Supported
  /\ stage \in {"launch", "program"} => round \in 1..LastRound
  /\ platform \in Supported => papi \in [Modes -> PapiFiles(platform)]

TuplesInv ==
  /\ PapiTypes
  /\ csv = [m \in Modes |-> csv[m]]
  /\ TuplesOfOneRun

----------------------------------------------------------------------------
\* The stretches of a program have numbers.
LEMMA StretchNumber ==
  ASSUME text \in Seq(Operations), NEW i
  PROVE  Stretch(i) \in Nat
<1> DEFINE S == {j \in Points : j < i}
<1>1. Len(text) \in Nat /\ DOMAIN text = 1..Len(text)
  OBVIOUS
<1>2. S \subseteq 1..Len(text)
  BY <1>1 DEF Points
<1>3. IsFiniteSet(S)
  <2>1. IsFiniteSet(1..Len(text))
    BY <1>1, FS_Interval
  <2> HIDE DEF S
  <2> QED
    BY <1>2, <2>1, FS_Subset
<1> QED
  BY <1>3, FS_CardinalityType DEF Stretch

\* What the counters hold when a thread has run one stretch more.
LEMMA RanTypes ==
  ASSUME PerfTypes, NEW t, NEW x \in Nat
  PROVE  Ran(t, x) \in [Threads -> SUBSET Int]
<1> DEFINE more == IF running[t] THEN counters[t] \cup {x} ELSE counters[t]
<1>1. Ran(t, x) = [counters EXCEPT ![t] = more]
  BY DEF Ran
<1>2. t \in Threads => more \in SUBSET Int
  BY DEF PerfTypes
<1>3. counters \in [Threads -> SUBSET Int]
  BY DEF PerfTypes
<1> HIDE DEF more
<1> QED
  BY <1>1, <1>2, <1>3

\* A phase is stored where there is room, and its counters start again.
LEMMA RegionTypes ==
  ASSUME PerfTypes, NEW members, NEW ran \in [Threads -> SUBSET Int],
         Region(members, ran), UNCHANGED outfile
  PROVE  PerfTypes'
<1>1. CASE StoresPhases
  <2>1. StorePhase(members, ran)
    BY <1>1 DEF Region
  <2>2. count' \in [Threads -> Nat]
    BY <2>1 DEF StorePhase, PerfTypes
  <2>3. counters' \in [Threads -> SUBSET Int]
    BY <2>1 DEF StorePhase, Reset
  <2>4. pbarrier' \in [Threads -> Seq(SUBSET Int)]
    <3>1. pbarrier' = [t \in Threads |->
            IF t \in members /\ HasRoom(t) THEN Append(pbarrier[t], ran[t])
            ELSE pbarrier[t]]
      BY <2>1 DEF StorePhase
    <3>2. ASSUME NEW t \in Threads
          PROVE  /\ Append(pbarrier[t], ran[t]) \in Seq(SUBSET Int)
                 /\ pbarrier[t] \in Seq(SUBSET Int)
      BY DEF PerfTypes
    <3> QED
      BY <3>1, <3>2
  <2> QED
    BY <2>2, <2>3, <2>4 DEF PerfTypes
<1>2. CASE ~StoresPhases
  BY <1>2 DEF Region, storeVars, PerfTypes
<1> QED
  BY <1>1, <1>2

\* Also a phase that was not stored is printed, whatever it reads.
LEMMA LinesTypes ==
  ASSUME PerfTypes, NEW u \in Threads, NEW ran \in [Threads -> SUBSET Int]
  PROVE  outfile[u] \o Lines(u, ran) \in OutLines
<1> DEFINE Line == [bid : Nat, work : SUBSET Int]
<1>1. count[u] \in Nat /\ pbarrier[u] \in Seq(SUBSET Int)
  BY DEF PerfTypes
<1>2. ASSUME NEW n \in 1..count[u]
      PROVE  [bid |-> n - 1, work |-> Phase(u, n - 1)] \in Line
  <2>1. n - 1 \in Nat /\ (n - 1) + 1 = n
    BY <1>1
  <2>2. Phase(u, n - 1) \in SUBSET Int
    <3>1. Garbage \in SUBSET Int
      BY DEF Garbage
    <3>2. n - 1 < Len(pbarrier[u]) => pbarrier[u][n] \in SUBSET Int
      BY <1>1, <2>1
    <3> QED
      BY <2>1, <3>1, <3>2 DEF Phase
  <2> QED
    BY <2>1, <2>2
<1>3. StoredLines(u) \in Seq(Line)
  <2>1. [n \in 1..count[u] |-> [bid |-> n - 1, work |-> Phase(u, n - 1)]]
          \in Seq(Line)
    <3> HIDE DEF Line
    <3> QED
      BY <1>1, <1>2
  <2>2. <<>> \in Seq(Line)
    OBVIOUS
  <2> HIDE DEF Line
  <2> QED
    BY <2>1, <2>2 DEF StoredLines
<1>4. [bid |-> count[u], work |-> ran[u]] \in Line
  BY <1>1
<1>5. outfile[u] \in Seq(Line)
  BY DEF PerfTypes, OutLines
<1> HIDE DEF Line
<1>6. Lines(u, ran) \in Seq(Line)
  BY <1>3, <1>4 DEF Lines
<1>7. outfile[u] \o Lines(u, ran) \in Seq(Line)
  BY <1>5, <1>6
<1> QED
  BY <1>7 DEF Line, OutLines

\* A barrier of a measured program.
LEMMA BarrierTypes ==
  ASSUME PerfTypes, NEW t, NEW env, NEW x \in Nat,
         \/ PerfPass(t, env, x)
         \/ PerfStart(t, env, x)
         \/ PerfRegion(t, env, x)
         \/ PerfStop(t, env, x)
         \/ PerfStopAgain(t, env, x)
         \/ PerfStopFails(t, env, x)
  PROVE  PerfTypes'
<1>1. Ran(t, x) \in [Threads -> SUBSET Int]
  BY RanTypes
<1>2. CASE PerfPass(t, env, x)
  BY <1>1, <1>2 DEF PerfPass, storeVars, PerfTypes
<1>3. CASE PerfStart(t, env, x)
  BY <1>3 DEF PerfStart, PerfTypes
<1>4. CASE PerfRegion(t, env, x)
  BY <1>1, <1>4, RegionTypes DEF PerfRegion
<1>5. CASE PerfStop(t, env, x)
  <2>1. \A u \in Threads : outfile[u] \o Lines(u, Ran(t, x)) \in OutLines
    BY <1>1, LinesTypes
  <2>2. /\ counters' = Ran(t, x)
        /\ outfile' = [u \in Threads |-> outfile[u] \o Lines(u, Ran(t, x))]
        /\ UNCHANGED <<count, pbarrier>>
    BY <1>5 DEF PerfStop
  <2> QED
    BY <1>1, <2>1, <2>2 DEF PerfTypes
<1>6. CASE PerfStopAgain(t, env, x)
  BY <1>6 DEF PerfStopAgain, storeVars, PerfTypes
<1>7. CASE PerfStopFails(t, env, x)
  <2>1. \A u \in Threads : outfile[u] \o Lines(u, Ran(t, x)) \in OutLines
    BY <1>1, LinesTypes
  <2>2. /\ \E done : outfile' = [u \in Threads |->
             IF u \in done THEN outfile[u] \o Lines(u, Ran(t, x))
             ELSE outfile[u]]
        /\ UNCHANGED <<counters, count, pbarrier>>
    BY <1>7 DEF PerfStopFails, storeVars
  <2>3. \A u \in Threads : outfile[u] \in OutLines
    BY DEF PerfTypes
  <2>4. outfile' \in [Threads -> OutLines]
    BY <2>1, <2>2, <2>3
  <2> QED
    BY <2>2, <2>4 DEF PerfTypes
<1> QED
  BY <1>2, <1>3, <1>4, <1>5, <1>6, <1>7

\* A process starts with nothing.
LEMMA GoneTypes ==
  ASSUME Gone
  PROVE  PerfTypes'
<1>1. <<>> \in Seq(SUBSET Int) /\ <<>> \in OutLines
  BY DEF OutLines
<1> QED
  BY <1>1 DEF Gone, PerfTypes

\* A step of the measured program.
LEMMA CountedTypes ==
  ASSUME PerfTypes, text \in Seq(Operations), CountedProgram
  PROVE  PerfTypes'
<1>1. CASE CountedFork
  <2> DEFINE m == Members(text[at[Master]])
             x == Stretch(at[Master])
  <2>1. PerfParallel(m, x)
    BY <1>1 DEF CountedFork
  <2>2. x \in Nat
    BY StretchNumber
  <2> HIDE DEF m, x
  <2>3. Ran(Master, x) \in [Threads -> SUBSET Int]
    BY <2>2, RanTypes
  <2>4. CASE inside_roi
    BY <2>1, <2>3, <2>4, RegionTypes DEF PerfParallel
  <2>5. CASE ~inside_roi
    BY <2>1, <2>3, <2>5 DEF PerfParallel, storeVars, PerfTypes
  <2> QED
    BY <2>4, <2>5
<1>2. ASSUME NEW t \in Threads, CountedFinish(t)
      PROVE  PerfTypes'
  <2> DEFINE x == Stretch(at[t])
  <2>1. PerfFinish(t, x)
    BY <1>2 DEF CountedFinish
  <2>2. x \in Nat
    BY StretchNumber
  <2> HIDE DEF x
  <2>3. Ran(t, x) \in [Threads -> SUBSET Int]
    BY <2>2, RanTypes
  <2> QED
    BY <2>1, <2>3 DEF PerfFinish, storeVars, PerfTypes
<1>3. ASSUME NEW t \in Threads, CountedBarrier(t)
      PROVE  PerfTypes'
  <2> DEFINE x == Stretch(at[t])
             env == RoiValue(text[at[t]])
  <2>1. x \in Nat
    BY StretchNumber
  <2>2. \/ PerfPass(t, env, x)
        \/ PerfStart(t, env, x)
        \/ PerfRegion(t, env, x)
        \/ PerfStop(t, env, x)
        \/ PerfStopAgain(t, env, x)
    BY <1>3 DEF CountedBarrier
  <2> HIDE DEF x, env
  <2> QED
    BY <2>1, <2>2, BarrierTypes
<1>4. CASE CountedLibgomp
  BY <1>4 DEF CountedLibgomp, perfVars, storeVars, PerfTypes
<1>5. CASE CountedExit
  BY <1>5 DEF CountedExit, storeVars, PerfTypes
<1>6. CASE CountedFails
  <2>1. ASSUME NEW t \in Threads,
               PerfStopFails(t, RoiValue("off"), Stretch(at[t]))
        PROVE  PerfTypes'
    BY <2>1, StretchNumber, BarrierTypes
  <2>2. CASE UNCHANGED <<storeVars, counters, outfile>>
    BY <2>2 DEF storeVars, PerfTypes
  <2>3. CASE PerfWriteFails
    <3>1. \A u \in Threads : outfile[u] \in OutLines
      BY DEF PerfTypes
    <3>2. <<>> \in OutLines
      BY DEF OutLines
    <3>3. PICK lost \in SUBSET Threads : outfile' =
            [u \in Threads |-> IF u \in lost THEN <<>> ELSE outfile[u]]
      BY <2>3 DEF PerfWriteFails
    <3>4. outfile' \in [Threads -> OutLines]
      BY <3>1, <3>2, <3>3
    <3> QED
      BY <2>3, <3>4 DEF PerfWriteFails, storeVars, PerfTypes
  <2> QED
    BY <1>6, <2>1, <2>2, <2>3 DEF CountedFails
<1> QED
  BY <1>1, <1>2, <1>3, <1>4, <1>5, <1>6 DEF CountedProgram

\* The lines a process has printed go to the end of the file of its
\* repetition, and of no other.
LEMMA AppendedTypes ==
  ASSUME PapiTypes, stage = "program"
  PROVE  Appended \in [Modes -> PapiFiles(platform)]
<1> DEFINE Rec == PapiRecord(platform)
           record(t, n) == [run |-> run, rep |-> rep, round |-> round,
                            bid |-> outfile[t][n].bid,
                            work |-> outfile[t][n].work]
           written(t) == [n \in DOMAIN outfile[t] |-> record(t, n)]
           old == papi[barriers][rep]
           new == [t \in Threads |-> old[t] \o written(t)]
           files == [papi[barriers] EXCEPT ![rep] = new]
<1>1. /\ papi \in [Modes -> PapiFiles(platform)]
      /\ barriers \in Modes /\ rep \in 0..(Iterations - 1) /\ run \in Nat
      /\ round \in 1..Len(PAPI_rounds[platform])
      /\ rep \in Nat
      /\ Threads = Tids
  BY StatisticsAssumption, MeasurementAssumption DEF PapiTypes, LastRound
<1>2. papi[barriers] \in [0..(Iterations - 1) -> [Threads -> Seq(Rec)]]
  BY <1>1 DEF PapiFiles
<1>3. old \in [Threads -> Seq(Rec)]
  BY <1>1, <1>2
<1>4. ASSUME NEW t \in Threads
      PROVE  written(t) \in Seq(Rec)
  <2>1. outfile[t] \in OutLines
    BY DEF PapiTypes, PerfTypes
  <2>2. ASSUME NEW n \in DOMAIN outfile[t]
        PROVE  record(t, n) \in Rec
    <3> DEFINE o == outfile[t]
               Line == [bid : Nat, work : SUBSET Int]
    <3>1. outfile[t][n] \in [bid : Nat, work : SUBSET Int]
      <4>1. o \in Seq(Line) /\ n \in DOMAIN o
        BY <2>1 DEF OutLines
      <4> HIDE DEF o, Line
      <4>2. o[n] \in Line
        BY <4>1
      <4> QED
        BY <4>2 DEF o, Line
    <3>2. outfile[t][n].bid \in Nat /\ outfile[t][n].work \in SUBSET Int
      BY <3>1
    <3> QED
      BY <1>1, <3>2 DEF PapiRecord
  <2>3. DOMAIN outfile[t] = 1..Len(outfile[t]) /\ Len(outfile[t]) \in Nat
    BY <2>1 DEF OutLines
  <2> HIDE DEF record, Rec
  <2> QED
    BY <2>2, <2>3
<1>5. new \in [Threads -> Seq(Rec)]
  <2> HIDE DEF written, Rec, old
  <2> QED
    BY <1>3, <1>4
<1>6. files \in PapiFiles(platform)
  <2> HIDE DEF new
  <2> QED
    BY <1>1, <1>2, <1>5 DEF PapiFiles
<1>7. Appended = [papi EXCEPT ![barriers] = files]
  BY DEF Appended
<1> HIDE DEF files
<1> QED
  BY <1>1, <1>6, <1>7

\* The script removes the files of all repetitions before it runs anything,
\* and begins with the first round (RunBenchmarks.py:480-501).
LEMMA RemoveOldTypes ==
  ASSUME PapiTypes, RemoveOld
  PROVE  PapiTypes'
<1> USE DEF PapiTypes
<1>1. platform \in Supported /\ UNCHANGED platform
  BY DEF RemoveOld, StaysOut
<1>2. 1 \in 1..LastRound
  BY <1>1, RoundsCount DEF LastRound
<1>3. /\ barriers \in Modes /\ UNCHANGED barriers
      /\ rep' = 0 /\ round' = 1 /\ UNCHANGED run
      /\ papi' = [papi EXCEPT ![barriers] =
                    [i \in DOMAIN @ |-> IF i \in Cleared THEN NoFile
                                        ELSE @[i]]]
      /\ UNCHANGED <<text, count, counters, pbarrier, outfile>>
  BY DEF RemoveOld, StaysOut, perfVars, storeVars
<1>4. papi' \in [Modes -> PapiFiles(platform)]
  <2> DEFINE old == papi[barriers]
             new == [i \in DOMAIN old |-> IF i \in Cleared THEN NoFile
                                          ELSE old[i]]
             Rec == PapiRecord(platform)
  <2>1. /\ papi \in [Modes -> PapiFiles(platform)]
        /\ old \in [0..(Iterations - 1) -> [Tids -> Seq(Rec)]]
    BY <1>1, <1>3 DEF PapiFiles
  <2>2. NoFile \in [Tids -> Seq(Rec)]
    BY MeasurementAssumption DEF NoFile
  <2>3. new \in [0..(Iterations - 1) -> [Tids -> Seq(Rec)]]
    <3> HIDE DEF old, Rec
    <3> QED
      BY <2>1, <2>2
  <2>4. papi' = [papi EXCEPT ![barriers] = new]
    BY <1>3
  <2> HIDE DEF new, old
  <2>5. new \in PapiFiles(platform)
    BY <2>3 DEF PapiFiles
  <2> QED
    BY <1>3, <2>1, <2>4, <2>5
<1>5. rep' \in 0..(Iterations - 1)
  BY <1>3, StatisticsAssumption
<1>6. PerfTypes'
  BY <1>3 DEF PerfTypes
<1>7. round' \in 1..LastRound'
  BY <1>1, <1>2, <1>3 DEF LastRound
<1>8. platform' \in Supported /\ papi' \in [Modes -> PapiFiles(platform')]
  BY <1>1, <1>4
<1> QED
  BY <1>3, <1>5, <1>6, <1>7, <1>8

\* The shell takes the next round, or the next repetition
\* (RunBenchmarks.py:483-501).
LEMMA ProgramEndsTypes ==
  ASSUME PapiTypes, ProgramEnds
  PROVE  PapiTypes'
<1>1. /\ stage = "program" /\ platform \in Supported /\ UNCHANGED platform
      /\ papi' = Appended /\ UNCHANGED <<text, run, barriers>>
      /\ round \in 1..LastRound
      /\ LastRound' = LastRound
  BY DEF ProgramEnds, PapiTypes, LastRound
<1>2. PerfTypes'
  BY GoneTypes DEF ProgramEnds
<1>3. papi' \in [Modes -> PapiFiles(platform')]
  BY <1>1, AppendedTypes
<1>4. rep' \in 0..(Iterations - 1) /\ rep \in 0..(Iterations - 1)
  BY StatisticsAssumption DEF ProgramEnds, PapiTypes
<1>5. LastRound \in Nat
  BY <1>1, RoundsCount DEF LastRound
<1>6. round' \in 1..LastRound
  <2>1. \/ round < LastRound /\ round' = round + 1
        \/ round' = 1
        \/ round' = round
    BY DEF ProgramEnds
  <2> QED
    BY <1>1, <1>5, <2>1
<1> QED
  BY <1>1, <1>2, <1>3, <1>4, <1>6 DEF PapiTypes

\* Whatever leaves the files alone.
LEMMA PapiQuiet ==
  ASSUME PapiTypes, PerfTypes',
         UNCHANGED <<text, platform, run, barriers, rep, round, papi>>,
         stage' \in {"script", "launch", "program", "parse"}
           => platform \in Supported,
         stage' \in {"launch", "program"} => stage \in {"launch", "program"}
  PROVE  PapiTypes'
BY DEF PapiTypes, LastRound

\* Every step writes complete records, of rounds there are.
LEMMA PapiStep ==
  ASSUME PapiTypes, [Next]_vars
  PROVE  PapiTypes'
<1>1. PerfTypes /\ text \in Seq(Operations)
  BY DEF PapiTypes
<1>2. UNCHANGED perfVars => PerfTypes'
  BY <1>1 DEF perfVars, storeVars, PerfTypes
<1>3. CASE Identify
  <2>1. CASE DrProgram
    BY <1>2, <1>3, <2>1, PapiQuiet DEF Identify, DrProgram, driverVars,
       PapiTypes
  <2>2. CASE DrEnds
    BY <1>3, <2>2, GoneTypes, PapiQuiet DEF Identify, DrEnds
  <2> QED
    BY <1>3, <2>1, <2>2 DEF Identify
<1>4. ASSUME NEW d \in BOOLEAN, StartBenchmarks(d)
      PROVE  PapiTypes'
  <2>1. PerfTypes' /\ stage' = "create" /\ run' \in Nat /\ barriers' \in Modes
    BY <1>2, <1>4 DEF StartBenchmarks, StaysOut, PapiTypes, Modes
  <2>2. UNCHANGED <<text, platform, rep, papi>>
    BY <1>4 DEF StartBenchmarks, StaysOut
  <2> QED
    BY <2>1, <2>2 DEF PapiTypes
<1>5. CASE CreateExperimentBatch
  BY <1>2, <1>5, PapiQuiet DEF CreateExperimentBatch, StaysOut
<1>6. CASE RemoveOld
  BY <1>6, RemoveOldTypes
<1>7. CASE DryRun
  BY <1>2, <1>7, PapiQuiet DEF DryRun, StaysOut, PapiTypes
<1>8. CASE LaunchProgram
  <2>1. PerfTypes'
    BY <1>1, <1>8 DEF LaunchProgram, storeVars, PerfTypes
  <2> QED
    BY <1>8, <2>1, PapiQuiet DEF LaunchProgram, PapiTypes
<1>9. CASE CountedProgram
  BY <1>1, <1>9, CountedTypes, PapiQuiet DEF CountedProgram, PapiTypes
<1>10. CASE ProgramEnds
  BY <1>10, ProgramEndsTypes
<1>11. CASE ParseAndWrite
  <2>1. /\ PerfTypes' /\ stage' \in {"idle", "create"}
        /\ barriers' \in Modes
        /\ UNCHANGED <<text, platform, run, rep, round, papi>>
    BY <1>2, <1>11 DEF ParseAndWrite, StaysOut, PapiTypes, Modes
  <2> QED
    BY <2>1 DEF PapiTypes
<1>12. CASE WriteFails
  BY <1>2, <1>12, PapiQuiet DEF WriteFails, StaysOut
<1>13. CASE Interrupt
  <2>1. PerfTypes' /\ stage' = "idle"
    BY <1>13, GoneTypes DEF Interrupt
  <2>2. UNCHANGED <<text, platform, run, barriers, rep>>
    BY <1>13 DEF Interrupt
  <2>3. CASE stage = "program"
    <3>1. papi' = Appended
      BY <1>13, <2>3 DEF Interrupt
    <3>2. papi' \in [Modes -> PapiFiles(platform')]
      BY <2>2, <2>3, <3>1, AppendedTypes
    <3> QED
      BY <2>1, <2>2, <3>2 DEF PapiTypes
  <2>4. CASE stage # "program"
    <3>1. UNCHANGED papi
      BY <1>13, <2>4 DEF Interrupt
    <3> QED
      BY <2>1, <2>2, <3>1 DEF PapiTypes
  <2> QED
    BY <2>3, <2>4
<1>14. ASSUME NEW bp \in 1..(regions - 1), EstimateError(bp)
       PROVE  PapiTypes'
  BY <1>2, <1>14, PapiQuiet DEF EstimateError, StaysOut, PapiTypes
<1>15. CASE UNCHANGED vars
  BY <1>2, <1>15, PapiQuiet DEF vars, driverVars, PapiTypes
<1> QED
  BY <1>3, <1>4, <1>5, <1>6, <1>7, <1>8, <1>9, <1>10, <1>11, <1>12, <1>13,
     <1>14, <1>15 DEF Next

----------------------------------------------------------------------------
(* The averages.                                                           *)

\* The tuples of one table.
Paired(avg) ==
  \A k \in DOMAIN avg : \A s \in Stats(platform) : \A n \in DOMAIN avg[k][s] :
    avg[k][s][n][1] = avg[k][s][n][2]

\* A table without averages, also one the disk had no room for.
LEMMA NonePaired == Paired(<<>>)
BY DEF Paired

\* What is averaged for a thread and a region is what was parsed for them.
LEMMA AveragesPaired ==
  ASSUME NEW STATS, NEW inst, NEW raised,
         Reads(platform, [STATS |-> STATS, t_inst |-> inst,
                          raised |-> raised])
  PROVE  Paired(Table(STATS).avg)
<1>1. STATS \in Seq([Tids -> [Stats(platform) -> Seq(Same)]])
  BY DEF Reads, ReadStates
<1> DEFINE avg == AverageTable(platform, STATS)
<1>2. ASSUME NEW k \in DOMAIN avg, NEW s \in Stats(platform),
             NEW n \in DOMAIN avg[k][s]
      PROVE  avg[k][s][n][1] = avg[k][s][n][2]
  <2>1. k \in Tids \X (0..(Len(STATS) - 1))
    BY DEF AverageTable
  <2>2. avg[k][s] = STATS[k[2] + 1][k[1]][s]
    BY <2>1 DEF AverageTable, GetAvg
  <2> HIDE DEF avg
  <2>3. k[1] \in Tids /\ k[2] + 1 \in 1..Len(STATS)
    BY <1>1, <2>1
  <2>4. STATS[k[2] + 1] \in [Tids -> [Stats(platform) -> Seq(Same)]]
    BY <1>1, <2>3
  <2>5. avg[k][s] \in Seq(Same)
    BY <2>2, <2>3, <2>4
  <2>6. avg[k][s][n] \in Same
    BY <2>5
  <2> QED
    BY <2>6 DEF Same
<1>3. Paired(avg)
  BY <1>2 DEF Paired
<1>4. Table(STATS).avg = avg \/ Table(STATS).avg = <<>>
  BY DEF Table
<1> HIDE DEF avg
<1> QED
  BY <1>3, <1>4, NonePaired

\* A table goes to the mode it was made for.
LEMMA PairedWritten ==
  ASSUME TuplesInv, NEW table, Paired(table.avg), barriers \in Modes,
         csv' = [csv EXCEPT ![barriers] = table], UNCHANGED platform
  PROVE  (csv = [m \in Modes |-> csv[m]] /\ TuplesOfOneRun)'
<1>1. /\ csv' = [m \in Modes |-> csv'[m]]
      /\ csv'[barriers] = table
      /\ \A m \in Modes : m # barriers => csv'[m] = csv[m]
  BY DEF TuplesInv
<1>2. \A m \in Modes : Paired(csv[m].avg)
  BY DEF TuplesInv, TuplesOfOneRun, Paired
<1>3. \A m \in Modes : Paired(csv'[m].avg)
  BY <1>1, <1>2
<1> QED
  BY <1>1, <1>3 DEF TuplesOfOneRun, Paired

\* Parsing writes the tuples that were read, or none.
LEMMA ParseTuples ==
  ASSUME TuplesInv, ParseAndWrite \/ WriteFails
  PROVE  (csv = [m \in Modes |-> csv[m]] /\ TuplesOfOneRun)'
<1> DEFINE st == StatsPerfCounters(platform, papi[barriers])
           table == Table(st.STATS)
           cut(n) == [table EXCEPT
                        !.rows = SubSeq(@, 1, n), !.avg = <<>>,
                        !.finished = table.finished
                                       /\ n = Len(table.rows)]
<1>1. /\ stage = "parse" /\ UNCHANGED platform /\ barriers \in Modes
      /\ platform \in Supported /\ papi \in [Modes -> PapiFiles(platform)]
  BY DEF ParseAndWrite, WriteFails, StaysOut, TuplesInv, PapiTypes
<1>2. Reads(platform, st)
  BY <1>1, StatsRead
<1>3. Paired(table.avg)
  <2> HIDE DEF st
  <2>1. st = [STATS |-> st.STATS, t_inst |-> st.t_inst,
              raised |-> st.raised]
    BY <1>2 DEF Reads, ReadStates
  <2> QED
    BY <1>2, <2>1, AveragesPaired
<1>4. \A n : cut(n).avg = <<>>
  BY DEF Table
<1>5. CASE csv' = [csv EXCEPT ![barriers] = table]
  <2> HIDE DEF table
  <2> QED
    BY <1>1, <1>3, <1>5, PairedWritten
<1>6. ASSUME NEW n, csv' = [csv EXCEPT ![barriers] = cut(n)]
      PROVE  (csv = [m \in Modes |-> csv[m]] /\ TuplesOfOneRun)'
  <2> DEFINE c == cut(n)
  <2>1. Paired(c.avg)
    BY <1>4, NonePaired
  <2>2. csv' = [csv EXCEPT ![barriers] = c]
    BY <1>6
  <2> HIDE DEF c
  <2> QED
    BY <1>1, <2>1, <2>2, PairedWritten
<1>7. CASE UNCHANGED csv
  BY <1>1, <1>7 DEF TuplesInv, TuplesOfOneRun
<1>8. CASE ParseAndWrite
  <2>1. UNCHANGED csv \/ csv' = [csv EXCEPT ![barriers] = table]
    BY <1>8 DEF ParseAndWrite
  <2> HIDE DEF table
  <2> QED
    BY <1>5, <1>7, <2>1
<1>9. CASE WriteFails
  <2>1. UNCHANGED csv \/ \E n : csv' = [csv EXCEPT ![barriers] = cut(n)]
    BY <1>9 DEF WriteFails
  <2> HIDE DEF cut
  <2> QED
    BY <1>6, <1>7, <2>1
<1> QED
  BY <1>8, <1>9

\* No other step changes the averages, but for the removal of tables.
LEMMA TuplesStep ==
  ASSUME TuplesInv, [Next]_vars
  PROVE  TuplesInv'
<1>1. PapiTypes'
  BY PapiStep DEF TuplesInv
<1>2. CASE UNCHANGED <<csv, platform>>
  BY <1>1, <1>2 DEF TuplesInv, TuplesOfOneRun
<1>3. CASE ParseAndWrite \/ WriteFails
  BY <1>1, <1>3, ParseTuples DEF TuplesInv
<1>4. CASE RemoveOld
  <2>1. /\ UNCHANGED platform
        /\ csv' = [m \in Modes |-> IF m \in Removed THEN NoTable
                                   ELSE csv[m]]
    BY <1>4 DEF RemoveOld, StaysOut
  <2>2. \A m \in Modes : Paired(csv[m].avg)
    BY DEF TuplesInv, TuplesOfOneRun, Paired
  <2>3. NoTable.avg = <<>>
    BY DEF NoTable
  <2>4. \A m \in Modes : Paired(csv'[m].avg)
    <3> SUFFICES ASSUME NEW m \in Modes
                 PROVE  Paired(csv'[m].avg)
      OBVIOUS
    <3>1. csv'[m] = NoTable \/ csv'[m] = csv[m]
      BY <2>1
    <3> QED
      BY <2>2, <2>3, <3>1, NonePaired
  <2>5. csv' = [m \in Modes |-> csv'[m]]
    BY <2>1
  <2> QED
    BY <1>1, <2>1, <2>4, <2>5 DEF TuplesInv, TuplesOfOneRun, Paired
<1>5. CASE Identify
  BY <1>2, <1>5 DEF Identify, DrProgram, DrEnds, driverVars
<1>6. ASSUME NEW d \in BOOLEAN, StartBenchmarks(d)
      PROVE  TuplesInv'
  BY <1>2, <1>6 DEF StartBenchmarks, StaysOut
<1>7. CASE CreateExperimentBatch \/ DryRun \/ LaunchProgram \/ CountedProgram
  BY <1>2, <1>7 DEF CreateExperimentBatch, DryRun, LaunchProgram,
     CountedProgram, StaysOut
<1>8. CASE ProgramEnds \/ Interrupt
  BY <1>2, <1>8 DEF ProgramEnds, Interrupt
<1>9. ASSUME NEW bp \in 1..(regions - 1), EstimateError(bp)
      PROVE  TuplesInv'
  BY <1>2, <1>9 DEF EstimateError, StaysOut
<1>10. CASE UNCHANGED vars
  BY <1>2, <1>10 DEF vars, driverVars
<1> QED
  BY <1>3, <1>4, <1>5, <1>6, <1>7, <1>8, <1>9, <1>10 DEF Next

\* At first there is no file, and no table.
LEMMA TuplesInit ==
  ASSUME Init
  PROVE  TuplesInv
<1>1. text \in Seq(Operations)
  BY MeasurementAssumption DEF Init
<1>2. PerfTypes
  <2>1. <<>> \in Seq(SUBSET Int) /\ <<>> \in OutLines
    BY DEF OutLines
  <2> QED
    BY <2>1 DEF Init, ProgramInit, PerfInit, PerfTypes
<1>3. NoFile \in [Tids -> Seq(PapiRecord(platform))]
  BY MeasurementAssumption DEF NoFile
<1>4. papi \in [Modes -> PapiFiles(platform)]
  BY <1>3 DEF Init, PapiFiles
<1>5. PapiTypes
  BY <1>1, <1>2, <1>4, StatisticsAssumption DEF Init, PapiTypes, Modes
<1>6. csv = [m \in Modes |-> csv[m]]
  BY DEF Init
<1>7. \A m \in Modes : csv[m].avg = <<>>
  BY DEF Init, NoTable
<1>8. TuplesOfOneRun
  BY <1>7, NonePaired DEF TuplesOfOneRun, Paired
<1> QED
  BY <1>5, <1>6, <1>8 DEF TuplesInv

\* For any program, however many threads, repetitions and invocations, and
\* whatever fails: what is averaged for an event is paired with the
\* instructions of the same execution, thread and region
\* (RunBenchmarks.py:67-69, 99-104).
THEOREM MeasuredTuplesOfOneRun == Spec => []TuplesOfOneRun
<1>1. Init => TuplesInv
  BY TuplesInit
<1>2. TuplesInv => TuplesOfOneRun
  BY DEF TuplesInv
<1> QED
  BY <1>1, <1>2, TuplesStep, PTL DEF Spec

----------------------------------------------------------------------------
(* Where the threads are.                                                  *)

\* What the environment says before operation i of program x.
SetOn(x, i) == \E j \in DOMAIN x : j < i /\ x[j] = "on"
SetOff(x, i) == \E j \in DOMAIN x : j < i /\ x[j] = "off"
SetTo(x, i) == IF SetOff(x, i) THEN "0"
               ELSE IF SetOn(x, i) THEN "1" ELSE "unset"

\* The points of x, and how many are passed at operation i.
PointsOf(x) ==
  {i \in DOMAIN x : x[i] \in {"par", "sub", "bar"} /\ SetTo(x, i) = "1"}
Passed(x, i) == Cardinality({j \in PointsOf(x) : j < i})

\* The operation a thread waits in counts as done.
Here(t) == IF pc[t] = "out" THEN at[Master] ELSE at[Master] + 1

\* The operations a thread can be in with that label.
WaitsIn(label) ==
  IF label = "joined" THEN {"join"}
  ELSE IF team = {} THEN {"on", "off", "bar"} ELSE {"bar"}

\* A team is all in one operation.
PlacesInv ==
  /\ text \in Seq(Operations) /\ OneRoi(text)
  /\ at \in [Threads -> 1..(Len(text) + 1)]
  /\ pc \in [Threads -> Labels]
  /\ team \in SUBSET Threads
  /\ Idle
  /\ \A t \in team : at[t] = at[Master]
  /\ \A t \in Active : pc[t] # "out" =>
       at[Master] <= Len(text) /\ text[at[Master]] \in WaitsIn(pc[t])

\* The identification: the client counts the points the master has passed.
DrFlags ==
  /\ roi_bp = SetTo(text, Here(Master))
  /\ inside_roi <=> SetTo(text, IF pc[Master] \in {"out", "env"}
                                THEN at[Master] ELSE at[Master] + 1) = "1"
  /\ in_roi <=> SetTo(text, at[Master]) = "1"
  /\ dr_flag = in_roi
  /\ pc[Master] = "start" => text[at[Master]] = "on"
  /\ pc[Master] = "end" => text[at[Master]] = "off" /\ in_roi
  /\ pc[Master] = "real" =>
       \/ text[at[Master]] = "bar"
       \/ text[at[Master]] = "off" /\ ~in_roi

DrCounts ==
  /\ synch_count \in 0..(Cardinality(PointsOf(text)) + 1)
  /\ ~SetOn(text, at[Master]) => synch_count = 0
  /\ in_roi =>
       synch_count = Passed(text, at[Master])
                       + (IF pc[Master] = "real" THEN 1 ELSE 0)

DrInv == PerfInit /\ DrFlags /\ DrCounts /\ in_roi \in BOOLEAN

\* The counted program, while it runs ...
CountedFlags ==
  /\ roi_bp = SetTo(text, Here(Master))
  /\ inside_roi <=> SetTo(text, Here(Master)) = "1"

\* ... and when it has ended, too: no thread has more phases than it has
\* passed points.
CountedInv ==
  /\ exit_status \in {"running", "ok", "failed"}
  /\ roi_bp \in {"unset", "0", "1"}
  /\ {inside_roi, started, in_roi, dr_flag} \subseteq BOOLEAN
  /\ synch_count \in 0..(Cardinality(PointsOf(text)) + 1)
  /\ BP_number = IF SetOn(text, Here(Master))
                 THEN 1 + Passed(text, Here(Master)) ELSE -1
  /\ ~SetOn(text, Here(Master)) =>
       ~started /\ \A t \in Threads : pbarrier[t] = <<>>
  /\ running \in [Threads -> BOOLEAN]
  /\ \A t \in Threads :
       /\ counters[t] \subseteq 0..Cardinality(PointsOf(text))
       /\ count[t] <= Passed(text, Here(t))
       /\ Len(pbarrier[t]) <= count[t] /\ Len(pbarrier[t]) <= MaxPhases
  /\ exit_status = "running" => CountedFlags

Stages == {"identify", "idle", "create", "script", "launch", "program",
           "parse"}

DriverTypes ==
  /\ {per_region, dry} \subseteq BOOLEAN
  /\ run \in 0..MaxRuns /\ faults \in 0..MaxFaults
  /\ stage \in Stages
  /\ round \in 1..3
  /\ \A m \in Modes : csv[m].run \in 0..run

PlanInv ==
  /\ PlacesInv
  /\ DriverTypes
  /\ IF stage = "identify" THEN DrInv ELSE CountedInv

----------------------------------------------------------------------------
(* What an operation changes.                                              *)

\* The environment, and how many points are passed, at each place.
SetFact(x) ==
  /\ SetTo(x, 1) = "unset" /\ ~SetOn(x, 1)
  /\ \A i \in 1..(Len(x) + 1) :
       /\ SetTo(x, i) \in {"unset", "0", "1"}
       /\ SetTo(x, i) = "1" => SetOn(x, i)
  /\ \A i \in 1..Len(x) :
       /\ x[i] \in Operations
       /\ SetTo(x, i + 1) = CASE x[i] = "on" -> "1" [] x[i] = "off" -> "0"
                              [] OTHER -> SetTo(x, i)
       /\ SetOn(x, i + 1) <=> SetOn(x, i) \/ x[i] = "on"
       /\ x[i] = "on" => SetTo(x, i) = "unset" /\ ~SetOn(x, i)

\* IsPoint, in other words.
Point(x, i) == x[i] \in {"par", "sub", "bar"} /\ SetTo(x, i) = "1"

PassedFact(x) ==
  /\ Cardinality(PointsOf(x)) \in Nat
  /\ \A i \in 1..(Len(x) + 1) :
       /\ Passed(x, i) \in 0..Cardinality(PointsOf(x))
       /\ ~SetOn(x, i) => Passed(x, i) = 0
  /\ \A i \in 1..Len(x) :
       Passed(x, i + 1) = Passed(x, i) + (IF Point(x, i) THEN 1 ELSE 0)

\* The region of interest is set once and ends after its start.
LEMMA SetFacts ==
  ASSUME NEW x \in Seq(Operations), OneRoi(x)
  PROVE  SetFact(x)
<1>1. DOMAIN x = 1..Len(x) /\ Len(x) \in Nat
  OBVIOUS
<1>2. SetTo(x, 1) = "unset" /\ ~SetOn(x, 1)
  BY <1>1 DEF SetTo, SetOn, SetOff
<1>3. \A i : /\ SetTo(x, i) \in {"unset", "0", "1"}
             /\ SetTo(x, i) = "1" => SetOn(x, i)
  BY DEF SetTo
<1>4. ASSUME NEW i \in 1..Len(x)
      PROVE  /\ x[i] \in Operations
             /\ SetTo(x, i + 1) =
                  CASE x[i] = "on" -> "1" [] x[i] = "off" -> "0"
                    [] OTHER -> SetTo(x, i)
             /\ SetOn(x, i + 1) <=> SetOn(x, i) \/ x[i] = "on"
             /\ x[i] = "on" => SetTo(x, i) = "unset" /\ ~SetOn(x, i)
  <2>1. \A j \in DOMAIN x : j < i + 1 <=> j < i \/ j = i
    BY <1>1
  <2>2. i \in DOMAIN x /\ x[i] \in Operations /\ ~(i < i)
    BY <1>1
  <2>3. SetOn(x, i + 1) <=> SetOn(x, i) \/ x[i] = "on"
    BY <2>1, <2>2 DEF SetOn
  <2>4. SetOff(x, i + 1) <=> SetOff(x, i) \/ x[i] = "off"
    BY <2>1, <2>2 DEF SetOff
  <2>5. x[i] = "on" => ~SetOn(x, i) /\ ~SetOff(x, i)
    <3> SUFFICES ASSUME x[i] = "on", NEW j \in DOMAIN x, j < i,
                        x[j] \in {"on", "off"}
                 PROVE  FALSE
      BY DEF SetOn, SetOff
    <3>1. i < j
      BY <1>1, <2>2 DEF OneRoi
    <3> QED
      BY <1>1, <2>2, <3>1
  <2> QED
    BY <2>2, <2>3, <2>4, <2>5 DEF SetTo
<1> QED
  BY <1>2, <1>3, <1>4 DEF SetFact

\* A point is passed after it.
LEMMA PassedFacts ==
  ASSUME NEW x \in Seq(Operations), OneRoi(x)
  PROVE  PassedFact(x)
<1> DEFINE P == PointsOf(x)
           Q(i) == {j \in P : j < i}
<1>1. P \subseteq 1..Len(x) /\ Len(x) \in Nat
  BY DEF PointsOf
<1>2. IsFiniteSet(P)
  <2>1. 1 \in Int /\ Len(x) \in Int
    BY <1>1
  <2>2. IsFiniteSet(1..Len(x))
    BY <2>1, FS_Interval
  <2> QED
    BY <1>1, <2>2, FS_Subset
<1>3. \A i : Q(i) \subseteq P
  OBVIOUS
<1>4. \A i : Passed(x, i) = Cardinality(Q(i))
  BY DEF Passed
<1>5. \A i \in 1..Len(x) : /\ Point(x, i) <=> i \in P
                           /\ Q(i + 1) = IF i \in P THEN Q(i) \cup {i}
                                         ELSE Q(i)
                           /\ i \notin Q(i)
  BY <1>1 DEF PointsOf, Point
<1>6. ASSUME NEW i \in Int, ~SetOn(x, i)
      PROVE  Q(i) = {}
  <2> SUFFICES ASSUME NEW j \in P, j < i
               PROVE  FALSE
    OBVIOUS
  <2>1. SetOn(x, j)
    BY DEF PointsOf, SetTo
  <2>2. PICK k \in DOMAIN x : k < j /\ x[k] = "on"
    BY <2>1 DEF SetOn
  <2>3. k < i
    BY <1>1, <2>2
  <2> QED
    BY <1>6, <2>2, <2>3 DEF SetOn
<1> HIDE DEF P, Q
<1>7. ASSUME NEW i
      PROVE  IsFiniteSet(Q(i)) /\ Cardinality(Q(i)) \in Nat
             /\ Cardinality(P) \in Nat /\ Cardinality(Q(i)) <= Cardinality(P)
  <2>1. IsFiniteSet(Q(i)) /\ Cardinality(Q(i)) <= Cardinality(P)
    BY <1>2, <1>3, FS_Subset
  <2> QED
    BY <1>2, <2>1, FS_CardinalityType
<1>8. ASSUME NEW i \in 1..Len(x)
      PROVE  Passed(x, i + 1) = Passed(x, i)
                                  + (IF Point(x, i) THEN 1 ELSE 0)
  <2>1. CASE i \in P
    <3>1. Cardinality(Q(i) \cup {i}) = Cardinality(Q(i)) + 1
      BY <1>5, <1>7, FS_AddElement
    <3> QED
      BY <1>4, <1>5, <2>1, <3>1
  <2>2. CASE i \notin P
    <3>1. Q(i + 1) = Q(i)
      BY <1>5, <2>2
    <3>2. Passed(x, i + 1) = Cardinality(Q(i)) /\ Cardinality(Q(i)) \in Nat
      BY <1>4, <1>7, <3>1, Zenon
    <3>3. Passed(x, i) = Cardinality(Q(i))
      BY <1>4
    <3>4. ~Point(x, i)
      BY <1>5, <2>2
    <3> QED
      BY <3>2, <3>3, <3>4
  <2> QED
    BY <2>1, <2>2
<1>9. ASSUME NEW i \in Int
      PROVE  /\ Passed(x, i) \in 0..Cardinality(PointsOf(x))
             /\ ~SetOn(x, i) => Passed(x, i) = 0
  <2>1. Cardinality({}) = 0
    BY FS_EmptySet
  <2>2. Passed(x, i) \in 0..Cardinality(P)
    BY <1>4, <1>7
  <2>3. ~SetOn(x, i) => Passed(x, i) = 0
    BY <1>4, <1>6, <2>1
  <2> QED
    BY <2>2, <2>3 DEF P
<1>10. Cardinality(PointsOf(x)) \in Nat
  BY <1>7 DEF P
<1>11. \A i \in 1..(Len(x) + 1) : i \in Int
  BY <1>1
<1> QED
  BY <1>8, <1>9, <1>10, <1>11 DEF PassedFact

\* The points and stretches of the program (IsPoint, Stretch).
LEMMA PointsAre ==
  ASSUME PlacesInv
  PROVE  /\ Points = PointsOf(text)
         /\ \A i : Stretch(i) = Passed(text, i)
<1>1. DOMAIN text = 1..Len(text) /\ Len(text) \in Nat
  BY DEF PlacesInv
<1>2. ASSUME NEW i \in DOMAIN text
      PROVE  IsPoint(i) <=> Point(text, i)
  <2>1. \A j : j \in 1..i <=> j \in DOMAIN text /\ (j < i \/ j = i)
    BY <1>1
  <2> QED
    BY <2>1 DEF IsPoint, Point, SetTo, SetOn, SetOff
<1>3. Points = PointsOf(text)
  BY <1>2 DEF Points, PointsOf, Point
<1> QED
  BY <1>3 DEF Stretch, Passed

----------------------------------------------------------------------------
(* How the threads move.                                                   *)

\* What is known of the threads that execute the program.
LEMMA Executing ==
  ASSUME PlacesInv
  PROVE  /\ Master \in Threads /\ Master \in Active /\ Active \subseteq Threads
         /\ text \in Seq(Operations) /\ Len(text) \in Nat
         /\ DOMAIN text = 1..Len(text)
         /\ \A t \in Threads : at[t] \in 1..(Len(text) + 1)
         /\ \A t \in Active : at[t] = at[Master]
         /\ \A t \in Threads \ Active : pc[t] = "out"
         /\ SetFact(text) /\ PassedFact(text)
<1>1. SetFact(text) /\ PassedFact(text)
  BY SetFacts, PassedFacts DEF PlacesInv
<1> QED
  BY <1>1, MasterAssumption DEF PlacesInv, Active, Idle

\* Nobody moves.
LEMMA PlacesSame ==
  ASSUME PlacesInv, UNCHANGED <<text, at, pc, team>>
  PROVE  PlacesInv'
BY DEF PlacesInv, Idle, Active, WaitsIn

\* A thread goes into the operation it has met, or further in it.
LEMMA PlacesGo ==
  ASSUME PlacesInv, NEW t \in Active, NEW label \in Labels \ {"out"},
         at[t] <= Len(text), text[at[t]] \in WaitsIn(label),
         GoesTo(t, label), UNCHANGED <<text, at, team>>
  PROVE  PlacesInv'
<1>1. t \in Threads /\ at[t] = at[Master]
  BY Executing
<1>2. /\ \A u \in Threads : pc'[u] = IF u = t THEN label ELSE pc[u]
      /\ pc' \in [Threads -> Labels]
  BY <1>1 DEF GoesTo, PlacesInv
<1>3. Active' = Active /\ \A l : (WaitsIn(l))' = WaitsIn(l)
  BY DEF Active, WaitsIn
<1>4. Idle'
  BY <1>2, <1>3 DEF Idle, PlacesInv
<1>5. \A u \in Active : pc'[u] # "out" =>
        at[Master] <= Len(text) /\ text[at[Master]] \in WaitsIn(pc'[u])
  BY <1>1, <1>2, Executing DEF PlacesInv
<1> QED
  BY <1>2, <1>3, <1>4, <1>5 DEF PlacesInv

\* The master forms a team, which starts after that operation.
LEMMA PlacesFork ==
  ASSUME PlacesInv, NEW ops, Meets(Master, ops), NEW op,
         Fork(Members(op)), TeamPast(Members(op)), text' = text
  PROVE  /\ PlacesInv'
         /\ at'[Master] = at[Master] + 1
         /\ \A t \in Threads : pc[t] = "out" /\ pc'[t] = "out"
<1>1. /\ Members(op) \in SUBSET Threads /\ Master \in Members(op)
      /\ team = {} /\ team' = Members(op) /\ pc' = pc
  BY MembersFact DEF Fork
<1>2. /\ at[Master] \in 1..Len(text)
      /\ at' = [t \in Threads |-> IF t \in Members(op) THEN at[Master] + 1
                                  ELSE at[t]]
  BY Executing DEF Meets, TeamPast
<1>3. at' \in [Threads -> 1..(Len(text) + 1)]
  BY <1>2, Executing
<1>4. \A t \in Threads : pc[t] = "out"
  BY <1>1, Executing DEF Fork, Active
<1>5. at'[Master] = at[Master] + 1 /\ \A t \in team' : at'[t] = at'[Master]
  BY <1>1, <1>2
<1>6. Idle'
  BY <1>1, <1>4 DEF Idle, Active
<1>7. \A t \in Active' : pc'[t] = "out"
  BY <1>1, <1>4 DEF Active
<1> QED
  BY <1>1, <1>3, <1>4, <1>5, <1>6, <1>7 DEF PlacesInv

\* libgomp lets all go on from the barrier.
LEMMA PlacesRelease ==
  ASSUME PlacesInv, ReleaseAll, text' = text
  PROVE  /\ PlacesInv'
         /\ pc[Master] = "real" /\ at[Master] \in 1..Len(text)
         /\ at'[Master] = at[Master] + 1
         /\ \A t \in Threads : pc'[t] = "out"
         /\ \A t \in Threads : pc[t] = IF t \in Active THEN "real" ELSE "out"
         /\ text[at[Master]] \in {"on", "off", "bar"}
<1>1. /\ \A t \in Active : pc[t] = "real"
      /\ pc' = [t \in Threads |-> "out"] /\ team' = team
      /\ at' = [t \in Threads |-> IF t \in Active THEN at[t] + 1 ELSE at[t]]
  BY DEF ReleaseAll, Release
<1>2. /\ pc[Master] = "real" /\ at[Master] \in 1..Len(text)
      /\ text[at[Master]] \in {"on", "off", "bar"}
  BY <1>1, Executing DEF PlacesInv, WaitsIn
<1>3. \A t \in Active : at'[t] = at[Master] + 1
  BY <1>1, Executing
<1>4. at' \in [Threads -> 1..(Len(text) + 1)]
  BY <1>1, <1>2, Executing
<1>5. Active' = Active
  BY <1>1 DEF Active
<1>6. Idle'
  BY <1>1, <1>5 DEF Idle, PlacesInv
<1>7. \A t \in team' : at'[t] = at'[Master]
  <2>1. team = {} \/ Active = team
    BY DEF Active
  <2> QED
    BY <1>1, <1>3, <2>1, Executing
<1>8. \A t \in Threads : pc'[t] = "out"
  BY <1>1
<1>9. /\ pc' \in [Threads -> Labels]
      /\ \A t \in Active' : pc'[t] = "out"
  BY <1>1, <1>5, <1>8, Executing DEF Labels
<1>10. team' \in SUBSET Threads
  BY <1>1 DEF PlacesInv
<1>11. PlacesInv'
  BY <1>4, <1>6, <1>7, <1>9, <1>10 DEF PlacesInv
<1> QED
  BY <1>1, <1>2, <1>3, <1>8, <1>11, Executing

\* A team ends, and the master goes on.
LEMMA PlacesJoin ==
  ASSUME PlacesInv, JoinAll, text' = text
  PROVE  /\ PlacesInv'
         /\ pc[Master] = "joined" /\ at[Master] \in 1..Len(text)
         /\ at'[Master] = at[Master] + 1
         /\ \A t \in Threads : pc'[t] = "out"
         /\ \A t \in Threads : pc[t] = IF t \in Active THEN "joined" ELSE "out"
         /\ text[at[Master]] = "join"
<1>1. /\ team # {} /\ \A t \in team : pc[t] = "joined"
      /\ pc' = [t \in Threads |-> "out"] /\ team' = {}
      /\ at' = [at EXCEPT ![Master] = @ + 1]
  BY DEF JoinAll, Join
<1>2. Active = team /\ Master \in team
  BY <1>1, Executing DEF Active
<1>3. pc[Master] = "joined" /\ at[Master] \in 1..Len(text)
      /\ text[at[Master]] = "join"
  BY <1>1, <1>2, Executing DEF PlacesInv, WaitsIn
<1>4. /\ at' \in [Threads -> 1..(Len(text) + 1)]
      /\ at'[Master] = at[Master] + 1
  BY <1>1, <1>3, Executing DEF PlacesInv
<1>5. \A t \in Threads : pc'[t] = "out"
  BY <1>1
<1>6. pc' \in [Threads -> Labels] /\ Active' = {Master}
  BY <1>1, <1>5 DEF Labels, Active
<1>7. Idle'
  BY <1>5, <1>6 DEF Idle
<1>8. \A t \in Active' : pc'[t] = "out"
  BY <1>5, <1>6, Executing
<1>9. PlacesInv'
  BY <1>1, <1>4, <1>6, <1>7, <1>8 DEF PlacesInv
<1> QED
  BY <1>1, <1>2, <1>3, <1>4, <1>5, <1>9, Executing

\* A process ends, and the next starts at the first operation.
LEMMA PlacesGone ==
  ASSUME PlacesInv, Gone, text' = text
  PROVE  PlacesInv'
<1>1. /\ pc' = [t \in Threads |-> "out"] /\ team' = {}
      /\ at' = [t \in Threads |-> 1]
  BY DEF Gone
<1>2. Len(text) \in Nat /\ Master \in Threads
  BY Executing
<1>3. /\ at' \in [Threads -> 1..(Len(text) + 1)]
      /\ pc' \in [Threads -> Labels] /\ Active' = {Master}
      /\ \A t \in Threads : pc'[t] = "out"
  BY <1>1, <1>2 DEF Labels, Active
<1>4. Idle'
  BY <1>3 DEF Idle
<1>5. \A t \in Active' : pc'[t] = "out"
  BY <1>2, <1>3
<1> QED
  BY <1>1, <1>3, <1>4, <1>5 DEF PlacesInv

----------------------------------------------------------------------------
(* The program under DynamoRIO.                                            *)

\* What SetFact and PassedFact say of the operation the master has met.
LEMMA MasterMeets ==
  ASSUME PlacesInv, at[Master] <= Len(text)
  PROVE  LET m == at[Master]
         IN  /\ m \in 1..Len(text) /\ text[m] \in Operations
             /\ text[m] = "on" =>
                  /\ SetTo(text, m) = "unset" /\ ~SetOn(text, m)
                  /\ SetTo(text, m + 1) = "1"
             /\ text[m] = "off" => SetTo(text, m + 1) = "0"
             /\ text[m] \notin {"on", "off"} =>
                  SetTo(text, m + 1) = SetTo(text, m)
             /\ SetOn(text, m + 1) <=> SetOn(text, m) \/ text[m] = "on"
             /\ SetTo(text, m) \in {"unset", "0", "1"}
             /\ SetTo(text, m) = "1" => SetOn(text, m)
             /\ SetTo(text, m + 1) = "1" => SetOn(text, m + 1)
             /\ Passed(text, m) \in 0..Cardinality(PointsOf(text))
             /\ Passed(text, m + 1) \in 0..Cardinality(PointsOf(text))
             /\ ~SetOn(text, m) => Passed(text, m) = 0
             /\ Passed(text, m + 1) =
                  Passed(text, m) + (IF Point(text, m) THEN 1 ELSE 0)
             /\ Cardinality(PointsOf(text)) \in Nat
<1> DEFINE m == at[Master]
<1>1. m \in 1..Len(text) /\ m \in 1..(Len(text) + 1)
      /\ m + 1 \in 1..(Len(text) + 1)
  BY Executing
<1>2. SetFact(text) /\ PassedFact(text)
  BY Executing
<1> HIDE DEF m
<1>3. /\ text[m] \in Operations
      /\ text[m] = "on" =>
           /\ SetTo(text, m) = "unset" /\ ~SetOn(text, m)
           /\ SetTo(text, m + 1) = "1"
      /\ text[m] = "off" => SetTo(text, m + 1) = "0"
      /\ text[m] \notin {"on", "off"} =>
           SetTo(text, m + 1) = SetTo(text, m)
      /\ SetOn(text, m + 1) <=> SetOn(text, m) \/ text[m] = "on"
      /\ SetTo(text, m) \in {"unset", "0", "1"}
      /\ SetTo(text, m) = "1" => SetOn(text, m)
      /\ SetTo(text, m + 1) = "1" => SetOn(text, m + 1)
  BY <1>1, <1>2 DEF SetFact
<1>4. /\ Passed(text, m) \in 0..Cardinality(PointsOf(text))
      /\ Passed(text, m + 1) \in 0..Cardinality(PointsOf(text))
      /\ ~SetOn(text, m) => Passed(text, m) = 0
      /\ Passed(text, m + 1) =
           Passed(text, m) + (IF Point(text, m) THEN 1 ELSE 0)
      /\ Cardinality(PointsOf(text)) \in Nat
  BY <1>1, <1>2 DEF PassedFact
<1> QED
  BY <1>1, <1>3, <1>4 DEF m

\* The environment is set, or a barrier is met: GOMP_barrier is called.
LEMMA DrCalled ==
  ASSUME PlacesInv, DrInv, UNCHANGED <<text, perfVars>>,
         \/ DrSetRoi
         \/ \E t \in Threads : DrCallBarrier(t)
  PROVE  PlacesInv' /\ DrInv'
<1> DEFINE m == at[Master]
<1>1. CASE DrSetRoi
  <2>1. /\ team = {} /\ pc[Master] = "out" /\ m <= Len(text)
        /\ text[m] \in {"on", "off"} /\ roi_bp' = RoiValue(text[m])
        /\ GoesTo(Master, "env")
        /\ UNCHANGED <<team, inside_roi, markerVars, at, in_roi, synch_count>>
    BY <1>1 DEF DrSetRoi, SetRoi, Meets
  <2>2. PlacesInv'
    BY <2>1, Executing, PlacesGo DEF Labels, WaitsIn
  <2>3. pc'[Master] = "env"
    BY <2>1, Executing DEF GoesTo, PlacesInv
  <2>4. DrFlags'
    BY <2>1, <2>3, MasterMeets DEF DrFlags, DrInv, Here, RoiValue, markerVars
  <2>5. DrCounts'
    BY <2>1, <2>3 DEF DrCounts, DrInv
  <2> QED
    BY <2>1, <2>2, <2>4, <2>5 DEF DrInv, PerfInit, perfVars, storeVars
<1>2. ASSUME NEW t \in Threads, DrCallBarrier(t)
      PROVE  PlacesInv' /\ DrInv'
  <2>1. /\ t \in Active /\ pc[t] = "out" /\ at[t] <= Len(text)
        /\ text[at[t]] = "bar" /\ GoesTo(t, "env")
        /\ UNCHANGED <<team, roi_bp, inside_roi, markerVars, at, in_roi,
                       synch_count>>
    BY <1>2 DEF DrCallBarrier, CallBarrier, Meets
  <2>2. PlacesInv'
    BY <2>1, PlacesGo DEF Labels, WaitsIn
  <2>3. pc'[Master] = IF t = Master THEN "env" ELSE pc[Master]
    BY <2>1, Executing DEF GoesTo, PlacesInv
  <2>4. t = Master => m <= Len(text) /\ text[m] = "bar"
    BY <2>1
  <2>5. DrFlags'
    BY <2>1, <2>3, <2>4, MasterMeets DEF DrFlags, DrInv, Here, markerVars
  <2>6. DrCounts'
    BY <2>1, <2>3 DEF DrCounts, DrInv
  <2> QED
    BY <2>1, <2>2, <2>5, <2>6 DEF DrInv, PerfInit, perfVars, storeVars
<1> QED
  BY <1>1, <1>2

\* Threads of a team are in a barrier, where the environment stays.
LEMMA DrInTeam ==
  ASSUME PlacesInv, DrInv, NEW t \in Active, t # Master
  PROVE  /\ roi_bp = SetTo(text, at[Master])
         /\ inside_roi <=> SetTo(text, at[Master]) = "1"
         /\ dr_flag <=> inside_roi
<1>1. team # {} /\ Master \in Active
  BY Executing DEF Active
<1>2. pc[Master] # "out" =>
        /\ at[Master] <= Len(text)
        /\ text[at[Master]] \notin {"on", "off"}
  BY <1>1 DEF PlacesInv, WaitsIn
<1> QED
  BY <1>2, MasterMeets DEF DrInv, DrFlags, Here

\* GOMP_barrier of the library reads the environment.
LEMMA DrRead ==
  ASSUME PlacesInv, DrInv, UNCHANGED <<text, perfVars>>,
         NEW t \in Threads, DrReadEnv(t)
  PROVE  PlacesInv' /\ DrInv'
<1> DEFINE m == at[Master]
<1>1. /\ pc[t] = "env" /\ GoesTo(t, "flag") /\ inside_roi' = RoiRead
      /\ UNCHANGED <<team, roi_bp, markerVars, at, in_roi, synch_count>>
  BY DEF DrReadEnv, ReadEnv
<1>2. /\ t \in Active /\ at[t] = m /\ m <= Len(text)
      /\ text[m] \in WaitsIn("flag")
  BY <1>1, Executing DEF PlacesInv, WaitsIn
<1>3. PlacesInv'
  BY <1>1, <1>2, PlacesGo DEF Labels
<1>4. pc'[Master] = IF t = Master THEN "flag" ELSE pc[Master]
  BY <1>1, Executing DEF GoesTo, PlacesInv
<1>5. DrCounts'
  BY <1>1, <1>4 DEF DrCounts, DrInv
<1>6. DrFlags'
  <2>1. CASE t = Master
    <3>1. inside_roi' <=> SetTo(text, m + 1) = "1"
      BY <1>1, <1>2, <2>1, MasterMeets DEF RoiRead, DrInv, DrFlags, Here
    <3> QED
      BY <1>1, <1>4, <2>1, <3>1 DEF DrFlags, DrInv, Here, markerVars
  <2>2. CASE t # Master
    <3>1. inside_roi' <=> inside_roi
      BY <1>1, <1>2, <2>2, DrInTeam DEF RoiRead
    <3> QED
      BY <1>1, <1>4, <2>2, <3>1 DEF DrFlags, DrInv, Here, markerVars
  <2> QED
    BY <2>1, <2>2
<1> QED
  BY <1>1, <1>3, <1>5, <1>6 DEF DrInv, PerfInit, perfVars, storeVars

\* ... and tests its flag: only the operations that delimit the region of
\* interest lead to a marker, and only points are counted.
LEMMA DrTested ==
  ASSUME PlacesInv, DrInv, UNCHANGED <<text, perfVars>>,
         NEW t \in Threads, DrTestFlag(t)
  PROVE  PlacesInv' /\ DrInv'
<1> DEFINE m == at[Master]
           label == CASE inside_roi /\ ~dr_flag -> "start"
                      [] ~inside_roi /\ dr_flag -> "end"
                      [] OTHER -> "real"
<1>1. /\ pc[t] = "flag" /\ GoesTo(t, label)
      /\ synch_count' = synch_count
           + (IF in_roi /\ t = Master /\ pc'[t] = "real" THEN 1 ELSE 0)
      /\ UNCHANGED <<team, roi_bp, inside_roi, markerVars, at, in_roi>>
  BY DEF DrTestFlag, TestFlag, Saved
<1>2. /\ t \in Active /\ at[t] = m /\ m <= Len(text)
      /\ label \in Labels \ {"out"} /\ text[m] \in WaitsIn(label)
  BY <1>1, Executing DEF PlacesInv, WaitsIn, Labels
<1> HIDE DEF label
<1>3. PlacesInv'
  BY <1>1, <1>2, PlacesGo
<1>4. pc'[Master] = IF t = Master THEN label ELSE pc[Master]
  BY <1>1, Executing DEF GoesTo, PlacesInv
<1>5. CASE t = Master
  <2>1. /\ text[m] \in {"on", "off", "bar"}
        /\ roi_bp = SetTo(text, m + 1)
        /\ inside_roi <=> SetTo(text, m + 1) = "1"
        /\ in_roi <=> SetTo(text, m) = "1"
        /\ dr_flag = in_roi
        /\ synch_count \in 0..(Cardinality(PointsOf(text)) + 1)
        /\ ~SetOn(text, m) => synch_count = 0
        /\ in_roi => synch_count = Passed(text, m) + 0
    BY <1>1, <1>2, <1>5 DEF WaitsIn, DrInv, DrFlags, DrCounts, Here, PlacesInv
  <2>2. /\ text[m] = "on" => label = "start"
        /\ text[m] = "bar" => label = "real"
        /\ text[m] = "off" => label = IF in_roi THEN "end" ELSE "real"
    BY <1>2, <2>1, MasterMeets DEF label
  <2>3. DrFlags'
    BY <1>1, <1>2, <1>4, <1>5, <2>1, <2>2 DEF DrFlags, Here, markerVars
  <2>4. in_roi /\ label = "real" => Point(text, m)
    BY <2>1, <2>2 DEF Point
  <2>5. DrCounts'
    <3>1. CASE in_roi /\ label = "real"
      <4>1. /\ synch_count' = Passed(text, m) + 1
            /\ Passed(text, m) \in 0..Cardinality(PointsOf(text))
            /\ Cardinality(PointsOf(text)) \in Nat
        BY <1>1, <1>2, <1>4, <1>5, <2>1, <3>1, MasterMeets
      <4>2. SetOn(text, m) /\ Passed(text, m) + 1 # 0
        BY <1>2, <2>1, <3>1, <4>1, MasterMeets
      <4> QED
        BY <1>1, <1>4, <1>5, <3>1, <4>1, <4>2 DEF DrCounts
    <3>2. CASE ~(in_roi /\ label = "real")
      <4>1. synch_count' = synch_count
        BY <1>1, <1>4, <1>5, <2>1, <3>2
      <4> QED
        BY <1>1, <1>4, <1>5, <2>1, <3>2, <4>1 DEF DrCounts
    <3> QED
      BY <3>1, <3>2
  <2> QED
    BY <1>1, <1>3, <2>3, <2>5 DEF DrInv, PerfInit, perfVars, storeVars
<1>6. CASE t # Master
  <2>1. pc'[Master] = pc[Master] /\ synch_count' = synch_count
    BY <1>1, <1>4, <1>6 DEF DrInv, DrCounts
  <2>2. DrFlags' /\ DrCounts'
    BY <1>1, <2>1 DEF DrFlags, DrCounts, DrInv, Here, markerVars
  <2> QED
    BY <1>1, <1>3, <2>2 DEF DrInv, PerfInit, perfVars, storeVars
<1> QED
  BY <1>5, <1>6

\* A marker is called by the master, which goes on.
LEMMA DrMarked ==
  ASSUME PlacesInv, DrInv, MarksAlone, UNCHANGED <<text, perfVars>>,
         NEW t \in Threads, DrMark(t)
  PROVE  PlacesInv' /\ DrInv'
<1> DEFINE m == at[Master]
<1>1. /\ t = Master /\ team = {} /\ pc[Master] \in {"start", "end"}
      /\ dr_flag' = (pc[Master] = "start") /\ GoesTo(Master, "out")
      /\ in_roi' = (pc[Master] = "start")
      /\ synch_count' = synch_count + (IF pc[Master] = "end" THEN 1 ELSE 0)
      /\ at' = [at EXCEPT ![Master] = @ + 1]
      /\ UNCHANGED <<team, roi_bp, inside_roi>>
  BY DEF DrMark, Mark, FlagAfter, Saved, Past, MarksAlone
<1>2. /\ m \in 1..Len(text) /\ Active = {Master} /\ Active' = {Master}
      /\ pc[Master] = "start" => text[m] = "on"
      /\ pc[Master] = "end" => text[m] = "off" /\ in_roi
  BY <1>1, Executing DEF PlacesInv, DrInv, DrFlags, Active
<1>3. /\ at' \in [Threads -> 1..(Len(text) + 1)] /\ at'[Master] = m + 1
      /\ pc' \in [Threads -> Labels] /\ \A u \in Threads : pc'[u] = "out"
  BY <1>1, <1>2, Executing DEF PlacesInv, GoesTo, Labels
<1>4. PlacesInv'
  BY <1>1, <1>2, <1>3, Executing DEF PlacesInv, Idle
<1>5. /\ pc'[Master] = "out" /\ Here(Master)' = m + 1
      /\ roi_bp' = SetTo(text, m + 1)
      /\ inside_roi' <=> SetTo(text, m + 1) = "1"
  BY <1>1, <1>3, Executing DEF DrInv, DrFlags, Here
<1>6. in_roi' <=> SetTo(text, m + 1) = "1"
  <2>1. /\ text[m] = "on" => SetTo(text, m + 1) = "1"
        /\ text[m] = "off" => SetTo(text, m + 1) = "0"
    BY <1>2, MasterMeets
  <2> HIDE DEF m
  <2> QED
    BY <1>1, <1>2, <2>1
<1>7. DrFlags'
  BY <1>1, <1>3, <1>5, <1>6 DEF DrFlags, Here
<1>8. DrCounts'
  <2>1. CASE pc[Master] = "start"
    <3>1. synch_count = 0 /\ Passed(text, m + 1) = 0 /\ synch_count' = 0
      BY <1>1, <1>2, <2>1, MasterMeets DEF DrInv, DrCounts, Point
    <3> QED
      BY <1>1, <1>2, <1>3, <1>5, <2>1, <3>1, MasterMeets DEF DrCounts
  <2>2. CASE pc[Master] = "end"
    <3>1. in_roi /\ SetTo(text, m) = "1"
      BY <1>2, <2>2 DEF DrInv, DrFlags
    <3>2. /\ SetOn(text, m) /\ Passed(text, m) \in Nat
          /\ Passed(text, m) \in 0..Cardinality(PointsOf(text))
          /\ SetOn(text, m + 1) /\ Cardinality(PointsOf(text)) \in Nat
      BY <1>2, <3>1, MasterMeets
    <3>3. synch_count = Passed(text, m) + 0
      BY <2>2, <3>1 DEF DrInv, DrCounts
    <3> HIDE DEF m
    <3>4. synch_count' = Passed(text, m) + 1
      BY <1>1, <2>2, <3>2, <3>3
    <3>5. in_roi' = FALSE
      BY <1>1, <2>2, Zenon
    <3> QED
      BY <1>1, <1>3, <3>2, <3>4, <3>5 DEF DrCounts
  <2> QED
    BY <1>1, <2>1, <2>2
<1> QED
  BY <1>1, <1>4, <1>7, <1>8 DEF DrInv, PerfInit, perfVars, storeVars

\* A parallel region is a point of the region of interest.
LEMMA DrForked ==
  ASSUME PlacesInv, DrInv, UNCHANGED <<text, perfVars>>, DrFork
  PROVE  PlacesInv' /\ DrInv'
<1> DEFINE m == at[Master]
<1>1. /\ Meets(Master, {"par", "sub"})
      /\ Fork(Members(text[m])) /\ TeamPast(Members(text[m]))
      /\ synch_count' = synch_count + (IF in_roi THEN 1 ELSE 0)
      /\ UNCHANGED <<roi_bp, inside_roi, markerVars, in_roi>>
  BY DEF DrFork, Fork, Saved
<1>2. /\ PlacesInv' /\ at'[Master] = m + 1
      /\ pc[Master] = "out" /\ pc'[Master] = "out"
  BY <1>1, PlacesFork, Executing
<1>3. m <= Len(text) /\ text[m] \in {"par", "sub"}
  BY <1>1 DEF Meets
<1>4. SetTo(text, m + 1) = SetTo(text, m)
      /\ (SetOn(text, m + 1) <=> SetOn(text, m))
  BY <1>3, MasterMeets
<1>5. DrFlags'
  BY <1>1, <1>2, <1>4 DEF DrInv, DrFlags, Here, markerVars
<1>6. DrCounts'
  <2>1. CASE in_roi
    <3>1. /\ Point(text, m) /\ synch_count = Passed(text, m) + 0
          /\ SetTo(text, m) = "1"
      BY <1>2, <1>3, <2>1 DEF DrInv, DrFlags, DrCounts, Point
    <3>2. /\ synch_count' = Passed(text, m + 1) /\ SetOn(text, m)
          /\ synch_count' \in 0..Cardinality(PointsOf(text))
          /\ Cardinality(PointsOf(text)) \in Nat
      BY <1>1, <1>3, <2>1, <3>1, MasterMeets
    <3> QED
      BY <1>1, <1>2, <1>4, <3>2 DEF DrCounts
  <2>2. CASE ~in_roi
    BY <1>1, <1>2, <1>4, <2>2 DEF DrCounts, DrInv
  <2> QED
    BY <2>1, <2>2
<1> QED
  BY <1>1, <1>2, <1>5, <1>6 DEF DrInv, PerfInit, perfVars, storeVars

\* A thread waits at the end of its team.
LEMMA DrFinished ==
  ASSUME PlacesInv, DrInv, UNCHANGED <<text, perfVars>>,
         NEW t \in Threads, DrFinish(t)
  PROVE  PlacesInv' /\ DrInv'
<1> DEFINE m == at[Master]
<1>1. /\ t \in team /\ pc[t] = "out" /\ GoesTo(t, "joined")
      /\ at[t] <= Len(text) /\ text[at[t]] = "join"
      /\ UNCHANGED <<team, roi_bp, inside_roi, markerVars, at, in_roi,
                     synch_count>>
  BY DEF DrFinish, Finish, Meets
<1>2. t \in Active
  BY <1>1 DEF Active
<1>3. PlacesInv'
  BY <1>1, <1>2, PlacesGo DEF Labels, WaitsIn
<1>4. pc'[Master] = IF t = Master THEN "joined" ELSE pc[Master]
  BY <1>1, Executing DEF GoesTo, PlacesInv
<1>5. t = Master => SetTo(text, m + 1) = SetTo(text, m)
  BY <1>1, MasterMeets
<1>6. DrFlags' /\ DrCounts'
  BY <1>1, <1>4, <1>5 DEF DrFlags, DrCounts, DrInv, Here, markerVars
<1> QED
  BY <1>1, <1>3, <1>6 DEF DrInv, PerfInit, perfVars, storeVars

\* libgomp lets the threads go on.
LEMMA DrGoesOn ==
  ASSUME PlacesInv, DrInv, UNCHANGED <<text, perfVars>>, DrLibgomp
  PROVE  PlacesInv' /\ DrInv'
<1> DEFINE m == at[Master]
<1>1. UNCHANGED <<roi_bp, inside_roi, markerVars, in_roi, synch_count>>
  BY DEF DrLibgomp, ReleaseAll, Release, JoinAll, Join
<1>2. /\ PlacesInv' /\ m \in 1..Len(text) /\ at'[Master] = m + 1
      /\ pc'[Master] = "out"
      /\ \/ pc[Master] = "real" /\ text[m] \in {"on", "off", "bar"}
         \/ pc[Master] = "joined" /\ text[m] = "join"
  BY PlacesRelease, PlacesJoin, Executing DEF DrLibgomp
<1>3. pc[Master] = "real" => \/ text[m] = "bar"
                             \/ text[m] = "off" /\ ~in_roi
  BY DEF DrInv, DrFlags
<1>4. /\ SetTo(text, m + 1) = "1" <=> SetTo(text, m) = "1"
      /\ SetOn(text, m + 1) <=> SetOn(text, m)
  BY <1>2, <1>3, MasterMeets DEF DrInv, DrFlags
<1>5. DrFlags'
  BY <1>1, <1>2, <1>4 DEF DrFlags, DrInv, Here, markerVars
<1>6. DrCounts'
  <2>1. CASE in_roi
    <3>1. SetTo(text, m) = "1" /\ Passed(text, m) \in Nat
      BY <1>2, <2>1, MasterMeets DEF DrInv, DrFlags
    <3>2. Point(text, m) <=> pc[Master] = "real"
      BY <1>2, <1>3, <2>1, <3>1 DEF Point
    <3>3. synch_count = Passed(text, m + 1)
      BY <1>2, <2>1, <3>1, <3>2, MasterMeets DEF DrInv, DrCounts
    <3>4. Passed(text, m + 1) \in Nat
      BY <1>2, MasterMeets
    <3> QED
      BY <1>1, <1>2, <1>4, <3>3, <3>4 DEF DrCounts, DrInv
  <2>2. CASE ~in_roi
    BY <1>1, <1>2, <1>4, <2>2 DEF DrCounts, DrInv
  <2> QED
    BY <2>1, <2>2
<1> QED
  BY <1>1, <1>2, <1>5, <1>6 DEF DrInv, PerfInit, perfVars, storeVars

\* All of them.
LEMMA DrStep ==
  ASSUME PlacesInv, DrInv, MarksAlone, DrProgram, text' = text
  PROVE  PlacesInv' /\ DrInv'
<1>1. UNCHANGED perfVars
  BY DEF DrProgram
<1> QED
  BY <1>1, DrCalled, DrRead, DrTested, DrMarked, DrForked, DrFinished,
     DrGoesOn DEF DrProgram

----------------------------------------------------------------------------
(* The counted program.                                                    *)

\* The phases of a thread: there is one for each point it has passed, but
\* for those the array has no room for.
Phases(c, b) ==
  \A u \in Threads : Len(b[u]) <= c[u] /\ Len(b[u]) <= MaxPhases

Works(ran) ==
  \A u \in Threads : ran[u] \subseteq 0..Cardinality(PointsOf(text))

\* What t has run since the last reset are stretches of the program.
LEMMA RanWorks ==
  ASSUME PlacesInv, PerfTypes, Works(counters), NEW t \in Threads,
         at[Master] <= Len(text)
  PROVE  Works(Ran(t, Stretch(at[Master])))
<1>1. Stretch(at[Master]) \in 0..Cardinality(PointsOf(text))
  BY PointsAre, MasterMeets
<1> QED
  BY <1>1 DEF Works, Ran, PerfTypes

\* parallelRegionPerformanceCounters and barrierRegionPerformanceCounters.
LEMMA RegionCounts ==
  ASSUME PlacesInv, PerfTypes, Phases(count, pbarrier),
         NEW members \in SUBSET Threads, NEW ran, Works(ran),
         ran \in [Threads -> SUBSET Int], Region(members, ran)
  PROVE  /\ started' = started /\ running' = running
         /\ Works(counters') /\ Phases(count', pbarrier')
         /\ \A u \in Threads :
              \/ count'[u] = count[u]
              \/ count'[u] = count[u] + 1 /\ u \in members
         /\ ~started => pbarrier' = pbarrier
<1>1. CASE StoresPhases
  <2>1. /\ pbarrier' = [u \in Threads |->
             IF u \in members /\ HasRoom(u) THEN Append(pbarrier[u], ran[u])
             ELSE pbarrier[u]]
        /\ count' = [u \in Threads |->
             IF u \in members THEN count[u] + 1 ELSE count[u]]
        /\ counters' = Reset(members, ran)
        /\ UNCHANGED <<started, running>>
    BY <1>1 DEF Region, StorePhase
  <2>2. ASSUME NEW u \in Threads
        PROVE  Len(pbarrier'[u]) <= count'[u] /\ Len(pbarrier'[u]) <= MaxPhases
    <3>1. /\ count[u] \in Nat /\ pbarrier[u] \in Seq(SUBSET Int)
          /\ ran[u] \in SUBSET Int
      BY DEF PerfTypes
    <3>2. Len(pbarrier[u]) <= count[u] /\ Len(pbarrier[u]) <= MaxPhases
          /\ Len(pbarrier[u]) \in Nat
      BY <3>1 DEF Phases
    <3>3. CASE u \in members /\ HasRoom(u)
      <4>1. /\ pbarrier'[u] = Append(pbarrier[u], ran[u])
            /\ count'[u] = count[u] + 1 /\ count[u] < MaxPhases
        BY <2>1, <3>3 DEF HasRoom
      <4>2. Len(Append(pbarrier[u], ran[u])) = Len(pbarrier[u]) + 1
        BY <3>1, AppendProperties
      <4> QED
        BY <3>1, <3>2, <4>1, <4>2, PhasesAssumption
    <3>4. CASE ~(u \in members /\ HasRoom(u))
      <4>1. pbarrier'[u] = pbarrier[u] /\ count[u] <= count'[u]
            /\ count'[u] \in Nat
        BY <2>1, <3>1, <3>4
      <4> QED
        BY <3>1, <3>2, <4>1
    <3> QED
      BY <3>3, <3>4
  <2>3. Works(counters')
    BY <2>1 DEF Works, Reset
  <2>4. \A u \in Threads :
          count'[u] = count[u] \/ (count'[u] = count[u] + 1 /\ u \in members)
    BY <2>1
  <2> QED
    BY <1>1, <2>1, <2>2, <2>3, <2>4 DEF StoresPhases, Phases
<1>2. CASE ~StoresPhases
  <2>1. counters' = ran /\ UNCHANGED <<started, running, count, pbarrier>>
    BY <1>2 DEF Region, storeVars
  <2> QED
    BY <2>1
<1> QED
  BY <1>1, <1>2

\* A thread passes the operation, or none.
LEMMA PassedMore ==
  ASSUME PlacesInv, at[Master] <= Len(text)
  PROVE  /\ Passed(text, at[Master]) <= Passed(text, at[Master] + 1)
         /\ Passed(text, at[Master]) \in Nat
         /\ Passed(text, at[Master] + 1) \in Nat
BY MasterMeets

\* The places count[t] is compared with.
LEMMA HereFact ==
  ASSUME PlacesInv, NEW t \in Threads
  PROVE  /\ Here(t) \in 1..(Len(text) + 1)
         /\ Passed(text, Here(t)) \in 0..Cardinality(PointsOf(text))
         /\ Cardinality(PointsOf(text)) \in Nat
<1>1. pc[t] # "out" => t \in Active /\ at[Master] <= Len(text)
  BY Executing DEF PlacesInv
<1>2. Here(t) \in 1..(Len(text) + 1)
  BY <1>1, Executing DEF Here
<1> QED
  BY <1>2, Executing DEF PassedFact

\* What the environment says at the place of the master.
LEMMA HereSet ==
  ASSUME PlacesInv
  PROVE  /\ SetTo(text, Here(Master)) \in {"unset", "0", "1"}
         /\ SetTo(text, Here(Master)) = "1" => SetOn(text, Here(Master))
         /\ ~SetOn(text, Here(Master)) => Passed(text, Here(Master)) = 0
<1>1. Here(Master) \in 1..(Len(text) + 1) /\ SetFact(text)
      /\ PassedFact(text)
  BY HereFact, Executing
<1> HIDE DEF Here
<1> QED
  BY <1>1 DEF SetFact, PassedFact

\* A parallel region: GOMP_parallel.
LEMMA CountedForked ==
  ASSUME PlacesInv, CountedInv, PerfTypes, exit_status = "running",
         CountedFork, text' = text,
         UNCHANGED <<markerVars, in_roi, synch_count>>
  PROVE  PlacesInv' /\ CountedInv'
<1> DEFINE m == at[Master]
<1>1. /\ Meets(Master, {"par", "sub"})
      /\ Fork(Members(text[m])) /\ TeamPast(Members(text[m]))
      /\ PerfParallel(Members(text[m]), Stretch(m))
      /\ m <= Len(text) /\ text[m] \in {"par", "sub"}
  BY DEF CountedFork, PerfParallel, Meets
<1>2. /\ PlacesInv' /\ at'[Master] = m + 1
      /\ \A t \in Threads : pc[t] = "out" /\ pc'[t] = "out"
  BY <1>1, PlacesFork, Executing
<1>3. /\ UNCHANGED <<roi_bp, inside_roi, exit_status>>
      /\ BP_number' = BarrierPoints(Master, inside_roi)
  BY <1>1 DEF PerfParallel, Fork
<1>4. /\ Here(Master) = m /\ Here(Master)' = m + 1
      /\ \A t \in Threads : Here(t) = m /\ Here(t)' = m + 1
  BY <1>2, Executing DEF Here
<1>5. /\ SetTo(text, m + 1) = SetTo(text, m)
      /\ SetOn(text, m + 1) <=> SetOn(text, m)
      /\ inside_roi <=> SetTo(text, m) = "1"
      /\ Point(text, m) <=> inside_roi
      /\ roi_bp = SetTo(text, m)
  BY <1>1, <1>4, MasterMeets DEF CountedInv, CountedFlags, Point
<1>6. /\ Works(counters) /\ Phases(count, pbarrier)
      /\ \A t \in Threads : count[t] <= Passed(text, m) /\ count[t] \in Nat
      /\ BP_number = IF SetOn(text, m) THEN 1 + Passed(text, m) ELSE -1
      /\ ~SetOn(text, m) =>
           ~started /\ \A t \in Threads : pbarrier[t] = <<>>
  BY <1>4 DEF CountedInv, Works, Phases, PerfTypes
<1>7. /\ Works(Ran(Master, Stretch(m)))
      /\ Ran(Master, Stretch(m)) \in [Threads -> SUBSET Int]
  <2>1. Stretch(m) \in 0..Cardinality(PointsOf(text))
    BY <1>1, PointsAre, MasterMeets
  <2>2. Stretch(m) \in Nat
    BY <1>1, <2>1, MasterMeets
  <2>3. Ran(Master, Stretch(m)) \in [Threads -> SUBSET Int]
    BY <2>2, RanTypes
  <2>4. Works(Ran(Master, Stretch(m)))
    BY <1>1, <1>6, Executing, RanWorks
  <2> QED
    BY <2>3, <2>4
<1>8. /\ started' = started /\ running' = running
      /\ Works(counters') /\ Phases(count', pbarrier')
      /\ \A t \in Threads :
           count'[t] = count[t] \/ (count'[t] = count[t] + 1 /\ inside_roi)
      /\ ~started => pbarrier' = pbarrier
  <2>1. CASE inside_roi
    <3>1. Region(Threads, Ran(Master, Stretch(m)))
      BY <1>1, <2>1 DEF PerfParallel
    <3> QED
      BY <1>6, <1>7, <2>1, <3>1, RegionCounts
  <2>2. CASE ~inside_roi
    <3>1. /\ counters' = Ran(Master, Stretch(m))
          /\ UNCHANGED <<started, running, count, pbarrier>>
      BY <1>1, <2>2 DEF PerfParallel, storeVars
    <3> QED
      BY <1>6, <1>7, <3>1
  <2> QED
    BY <2>1, <2>2
<1>9. /\ Passed(text, m + 1) = Passed(text, m)
                                 + (IF inside_roi THEN 1 ELSE 0)
      /\ Passed(text, m) \in Nat
      /\ SetTo(text, m) = "1" => SetOn(text, m)
  BY <1>1, <1>5, MasterMeets
<1>10. BP_number' = IF SetOn(text, m + 1) THEN 1 + Passed(text, m + 1)
                    ELSE -1
  BY <1>3, <1>5, <1>6, <1>9 DEF BarrierPoints
<1>11. \A t \in Threads : count'[t] <= Passed(text, m + 1)
  BY <1>6, <1>8, <1>9
<1>12. CountedFlags'
  BY <1>3, <1>4, <1>5 DEF CountedFlags
<1> HIDE DEF m
<1> QED
  BY <1>2, <1>3, <1>4, <1>5, <1>6, <1>8, <1>10, <1>11, <1>12
     DEF CountedInv, Works, Phases, markerVars

\* A thread of the team waits at its end.
LEMMA CountedFinished ==
  ASSUME PlacesInv, CountedInv, PerfTypes, NEW t \in Threads,
         CountedFinish(t), text' = text,
         UNCHANGED <<markerVars, in_roi, synch_count>>
  PROVE  PlacesInv' /\ CountedInv'
<1> DEFINE m == at[Master]
<1>1. /\ t \in team /\ pc[t] = "out" /\ GoesTo(t, "joined")
      /\ at[t] <= Len(text) /\ text[at[t]] = "join"
      /\ counters' = Ran(t, Stretch(at[t]))
      /\ UNCHANGED <<team, roi_bp, inside_roi, at, BP_number, started,
                     running, count, pbarrier, exit_status>>
  BY DEF CountedFinish, PerfFinish, Finish, Meets, storeVars
<1>2. t \in Active /\ at[t] = m /\ Master \in Threads
  BY <1>1, Executing DEF Active
<1>3. PlacesInv'
  BY <1>1, <1>2, PlacesGo DEF Labels, WaitsIn
<1>4. \A u \in Threads : pc'[u] = IF u = t THEN "joined" ELSE pc[u]
  BY <1>1, Executing DEF GoesTo, PlacesInv
<1>5. \A u \in Threads : \/ Here(u)' = Here(u)
                         \/ Here(u) = m /\ Here(u)' = m + 1
  BY <1>1, <1>4 DEF Here
<1>6. /\ SetTo(text, m + 1) = SetTo(text, m)
      /\ SetOn(text, m + 1) <=> SetOn(text, m)
      /\ Passed(text, m + 1) = Passed(text, m)
  BY <1>1, <1>2, MasterMeets DEF Point
<1>7. ASSUME NEW u \in Threads
      PROVE  /\ SetTo(text, Here(u)') = SetTo(text, Here(u))
             /\ SetOn(text, Here(u)') <=> SetOn(text, Here(u))
             /\ Passed(text, Here(u)') = Passed(text, Here(u))
  <2> HIDE DEF m
  <2> QED
    BY <1>5, <1>6
<1>8. Works(counters) /\ Works(counters')
  <2>1. Works(counters)
    BY DEF CountedInv, Works
  <2> QED
    BY <1>1, <1>2, <2>1, RanWorks
<1>9. exit_status' = "running" => CountedFlags'
  BY <1>1, <1>2, <1>7 DEF CountedInv, CountedFlags
<1> QED
  BY <1>1, <1>2, <1>3, <1>7, <1>8, <1>9 DEF CountedInv, Works, markerVars

\* libgomp lets the threads go on.
LEMMA CountedGoesOn ==
  ASSUME PlacesInv, CountedInv, PerfTypes, CountedLibgomp, text' = text,
         UNCHANGED <<markerVars, in_roi, synch_count>>
  PROVE  PlacesInv' /\ CountedInv'
<1> DEFINE m == at[Master]
<1>1. UNCHANGED <<roi_bp, inside_roi, BP_number, started, running, count,
                  pbarrier, counters, exit_status>>
  BY DEF CountedLibgomp, ReleaseAll, Release, JoinAll, Join, perfVars,
         storeVars
<1>2. /\ PlacesInv' /\ m \in 1..Len(text) /\ at'[Master] = m + 1
      /\ \A t \in Threads : pc'[t] = "out"
      /\ \/ /\ \A t \in Threads : pc[t] = IF t \in Active THEN "real"
                                          ELSE "out"
            /\ text[m] \in {"on", "off", "bar"}
         \/ /\ \A t \in Threads : pc[t] = IF t \in Active THEN "joined"
                                          ELSE "out"
            /\ text[m] = "join"
  BY PlacesRelease, PlacesJoin DEF CountedLibgomp
<1>3. Here(Master) = m + 1
  BY <1>2, Executing DEF Here
<1>4. ASSUME NEW t \in Threads
      PROVE  Here(t) \in {m, m + 1} /\ Here(t)' = m + 1
  BY <1>2 DEF Here
<1>5. Master \in Threads /\ Here(Master)' = Here(Master)
  BY <1>3, <1>4, Executing
<1>6. /\ Passed(text, m) <= Passed(text, m + 1)
      /\ Passed(text, m) \in Nat /\ Passed(text, m + 1) \in Nat
  BY <1>2, PassedMore
<1>7. ASSUME NEW t \in Threads
      PROVE  /\ Passed(text, Here(t)) <= Passed(text, Here(t)')
             /\ Passed(text, Here(t)) \in Nat
             /\ Passed(text, Here(t)') \in Nat
  <2> HIDE DEF m
  <2> QED
    BY <1>4, <1>6
<1>8. exit_status' = "running" => CountedFlags'
  BY <1>1, <1>5 DEF CountedInv, CountedFlags
<1>9. \A t \in Threads : count[t] <= Passed(text, Here(t)')
  BY <1>7 DEF PerfTypes, CountedInv
<1> HIDE DEF m
<1> QED
  BY <1>1, <1>2, <1>5, <1>8, <1>9 DEF CountedInv, markerVars

\* A barrier that leads a thread into libgomp's, with what it has counted.
Entered(t, env) ==
  /\ Enters(t, env)
  /\ GoesTo(t, "real")
  /\ exit_status' = exit_status

\* What the environment says to a thread in GOMP_barrier.
LEMMA EnteredFact ==
  ASSUME PlacesInv, CountedFlags, inside_roi \in BOOLEAN,
         text' = text, at' = at, NEW t \in Threads,
         IF team = {} THEN Meets(t, {"on", "off", "bar"})
                      ELSE Meets(t, {"bar"}),
         Enters(t, RoiValue(text[at[t]]))
  PROVE  LET m == at[Master]
         IN  /\ t \in Active /\ at[t] = m /\ m <= Len(text)
             /\ text[m] \in WaitsIn("real") /\ text[m] \in {"on", "off", "bar"}
             /\ Here(t) = m
             /\ roi_bp' = SetTo(text, m + 1)
             /\ inside_roi' <=> SetTo(text, m + 1) = "1"
             /\ inside_roi' \in BOOLEAN
             /\ t # Master =>
                  /\ text[m] = "bar" /\ team # {}
                  /\ SetTo(text, Here(Master)) = SetTo(text, m)
                  /\ SetTo(text, m + 1) = SetTo(text, m)
                  /\ SetOn(text, Here(Master)) <=> SetOn(text, m)
<1> DEFINE m == at[Master]
<1>1. /\ t \in Active /\ pc[t] = "out"
      /\ roi_bp' = RoiValue(text[at[t]])
      /\ inside_roi' = IF RoiValue(text[at[t]]) = "unset" THEN inside_roi
                       ELSE RoiValue(text[at[t]]) = "1"
  BY DEF Enters
<1>2. at[t] = m /\ m <= Len(text) /\ Here(t) = m
  BY <1>1, Executing DEF Meets, Here
<1>3. text[m] \in WaitsIn("real") /\ text[m] \in {"on", "off", "bar"}
  BY <1>2 DEF Meets, WaitsIn
<1>4. t # Master =>
        /\ text[m] = "bar" /\ team # {}
        /\ SetTo(text, Here(Master)) = SetTo(text, m)
        /\ SetTo(text, m + 1) = SetTo(text, m)
        /\ SetOn(text, Here(Master)) <=> SetOn(text, m)
  <2> SUFFICES ASSUME t # Master
               PROVE  /\ text[m] = "bar" /\ team # {}
                      /\ SetTo(text, Here(Master)) = SetTo(text, m)
                      /\ SetTo(text, m + 1) = SetTo(text, m)
                      /\ SetOn(text, Here(Master)) <=> SetOn(text, m)
    OBVIOUS
  <2>1. team # {}
    BY <1>1 DEF Active
  <2>2. text[m] = "bar"
    BY <1>2, <2>1 DEF Meets
  <2>3. /\ SetTo(text, m + 1) = SetTo(text, m)
        /\ SetOn(text, m + 1) <=> SetOn(text, m)
    BY <1>2, <2>2, MasterMeets
  <2>4. Here(Master) \in {m, m + 1}
    BY DEF Here
  <2> HIDE DEF m
  <2> QED
    BY <2>1, <2>2, <2>3, <2>4
<1>5. CASE text[m] # "bar"
  <2>1. t = Master
    BY <1>4, <1>5
  <2>2. /\ text[m] = "on" => SetTo(text, m + 1) = "1"
        /\ text[m] = "off" => SetTo(text, m + 1) = "0"
    BY <1>2, MasterMeets
  <2>3. /\ roi_bp' = SetTo(text, m + 1)
        /\ inside_roi' = (SetTo(text, m + 1) = "1")
    BY <1>1, <1>2, <1>3, <1>5, <2>2 DEF RoiValue
  <2> QED
    BY <1>1, <1>2, <1>3, <1>4, <2>3
<1>6. CASE text[m] = "bar"
  <2>1. SetTo(text, m + 1) = SetTo(text, m)
    BY <1>2, <1>6, MasterMeets
  <2>2. SetTo(text, Here(Master)) = SetTo(text, m)
    BY <1>2, <1>4
  <2>3. /\ roi_bp = SetTo(text, m) /\ (inside_roi <=> SetTo(text, m) = "1")
    BY <2>2 DEF CountedFlags
  <2>4. /\ roi_bp' = roi_bp
        /\ inside_roi' = IF roi_bp = "unset" THEN inside_roi
                         ELSE roi_bp = "1"
    BY <1>1, <1>2, <1>6 DEF RoiValue
  <2> HIDE DEF m
  <2>5. roi_bp' = SetTo(text, m + 1) /\ inside_roi' = inside_roi
    BY <2>1, <2>3, <2>4
  <2>6. inside_roi' <=> SetTo(text, m + 1) = "1"
    BY <2>1, <2>3, <2>5
  <2>7. inside_roi' \in BOOLEAN
    BY <2>5
  <2> QED
    BY <1>1, <1>2, <1>3, <1>4, <2>5, <2>6, <2>7 DEF m
<1> QED
  BY <1>5, <1>6

\* What a thread that comes to a barrier finds there: CountedBarrier without
\* the five ways on.
Comes(t) ==
  /\ IF team = {} THEN Meets(t, {"on", "off", "bar"}) ELSE Meets(t, {"bar"})
  /\ Enters(t, RoiValue(text[at[t]]))

\* Where a barrier leaves the threads (GOMP_barrier calls libgomp's).
LEMMA ComesFact ==
  ASSUME PlacesInv, CountedInv, exit_status = "running", text' = text,
         NEW t \in Threads, Comes(t), EntersReal(t), at' = at
  PROVE  LET m == at[Master]
         IN  /\ PlacesInv' /\ CountedFlags'
             /\ m <= Len(text) /\ text[m] \in {"on", "off", "bar"}
             /\ at[t] = m /\ Here(t) = m /\ Here(t)' = m + 1
             /\ \A u \in Threads \ {t} : Here(u)' = Here(u)
             /\ inside_roi' <=> SetTo(text, m + 1) = "1"
             /\ inside_roi' \in BOOLEAN /\ roi_bp' \in {"unset", "0", "1"}
             /\ t # Master => text[m] = "bar" /\ team # {}
             /\ t # Master => (SetOn(text, Here(Master)) <=> SetOn(text, m))
<1> DEFINE m == at[Master]
<1>1. GoesTo(t, "real") /\ team' = team
  BY DEF EntersReal, Comes, Enters
<1>2. CountedFlags /\ inside_roi \in BOOLEAN
  BY DEF CountedInv
<1>3. /\ t \in Active /\ at[t] = m /\ m <= Len(text)
      /\ text[m] \in WaitsIn("real") /\ text[m] \in {"on", "off", "bar"}
      /\ Here(t) = m
      /\ roi_bp' = SetTo(text, m + 1)
      /\ inside_roi' <=> SetTo(text, m + 1) = "1"
      /\ inside_roi' \in BOOLEAN
      /\ t # Master =>
           /\ text[m] = "bar" /\ team # {}
           /\ SetTo(text, Here(Master)) = SetTo(text, m)
           /\ SetTo(text, m + 1) = SetTo(text, m)
           /\ SetOn(text, Here(Master)) <=> SetOn(text, m)
  BY <1>2, EnteredFact DEF Comes
<1>4. PlacesInv'
  BY <1>1, <1>3, PlacesGo DEF Labels
<1>5. \A u \in Threads : pc'[u] = IF u = t THEN "real" ELSE pc[u]
  BY <1>1, Executing DEF GoesTo, PlacesInv
<1>6. Here(t)' = m + 1 /\ \A u \in Threads \ {t} : Here(u)' = Here(u)
  BY <1>5 DEF Here
<1>7. roi_bp' \in {"unset", "0", "1"}
  <2>1. m + 1 \in 1..(Len(text) + 1) /\ SetFact(text)
    BY <1>3, Executing
  <2> HIDE DEF m
  <2> QED
    BY <1>3, <2>1 DEF SetFact
<1>8. CountedFlags'
  <2>1. Here(Master)' = IF t = Master THEN m + 1 ELSE Here(Master)
    BY <1>6, Executing
  <2>2. SetTo(text, Here(Master)') = SetTo(text, m + 1)
    <3> HIDE DEF m
    <3> QED
      BY <1>3, <2>1
  <2>3. (CountedFlags)' <=> /\ roi_bp' = SetTo(text, Here(Master)')
                            /\ inside_roi' <=>
                                 SetTo(text, Here(Master)') = "1"
    BY DEF CountedFlags
  <2> HIDE DEF m
  <2> QED
    BY <1>3, <2>2, <2>3
<1> HIDE DEF m
<1> QED
  BY <1>3, <1>4, <1>6, <1>7, <1>8 DEF m

\* What is left to prove of the five ways.
CountedRest ==
  /\ exit_status \in {"running", "ok", "failed"}
  /\ started \in BOOLEAN
  /\ BP_number = IF SetOn(text, Here(Master))
                 THEN 1 + Passed(text, Here(Master)) ELSE -1
  /\ ~SetOn(text, Here(Master)) =>
       ~started /\ \A t \in Threads : pbarrier[t] = <<>>
  /\ running \in [Threads -> BOOLEAN]
  /\ Works(counters) /\ Phases(count, pbarrier)
  /\ \A t \in Threads : count[t] <= Passed(text, Here(t))

\* Nothing else is said of a program with counters.
LEMMA RestIs ==
  CountedInv <=>
    /\ CountedRest
    /\ roi_bp \in {"unset", "0", "1"}
    /\ {inside_roi, in_roi, dr_flag} \subseteq BOOLEAN
    /\ synch_count \in 0..(Cardinality(PointsOf(text)) + 1)
    /\ exit_status = "running" => CountedFlags
BY DEF CountedInv, CountedRest, Works, Phases

\* Nothing but the counters changes before the region of interest.
LEMMA PassRest ==
  ASSUME PlacesInv, CountedInv, PerfTypes, exit_status = "running",
         text' = text, NEW t \in Threads, Comes(t), at' = at,
         PerfPass(t, RoiValue(text[at[t]]), Stretch(at[t]))
  PROVE  EntersReal(t) /\ CountedRest'
<1> DEFINE m == at[Master]
<1>1. /\ EntersReal(t) /\ ~inside_roi' /\ BP_number = -1
      /\ counters' = Ran(t, Stretch(at[t]))
      /\ UNCHANGED <<BP_number, started, running, count, pbarrier,
                     exit_status>>
  BY DEF PerfPass, storeVars
<1>2. /\ m <= Len(text) /\ at[t] = m /\ Here(t) = m /\ Here(t)' = m + 1
      /\ \A u \in Threads \ {t} : Here(u)' = Here(u)
      /\ inside_roi' <=> SetTo(text, m + 1) = "1"
  BY <1>1, ComesFact
<1>3. /\ text[m] = "on" => SetTo(text, m + 1) = "1"
      /\ SetOn(text, m + 1) <=> SetOn(text, m) \/ text[m] = "on"
      /\ Passed(text, m) <= Passed(text, m + 1)
      /\ Passed(text, m) \in Nat /\ Passed(text, m + 1) \in Nat
  BY <1>2, MasterMeets, PassedMore
<1>4. Works(counters) /\ Phases(count, pbarrier)
  BY RestIs DEF CountedRest
<1>5. Works(counters')
  BY <1>1, <1>2, <1>4, RanWorks
<1>6. ~SetOn(text, Here(Master))
  <2>1. Passed(text, Here(Master)) \in Nat
    BY HereFact, Executing
  <2> HIDE DEF Here
  <2> QED
    BY <1>1, <2>1 DEF CountedInv
<1>7. ~SetOn(text, Here(Master)')
  <2>1. Here(Master)' = IF t = Master THEN m + 1 ELSE Here(Master)
    BY <1>2, Executing
  <2> HIDE DEF m
  <2> QED
    BY <1>1, <1>2, <1>3, <1>6, <2>1
<1>8. ASSUME NEW u \in Threads
      PROVE  count'[u] <= Passed(text, Here(u)')
  <2>1. count[u] <= Passed(text, Here(u)) /\ count[u] \in Nat
    BY DEF CountedInv, PerfTypes
  <2>2. Here(u)' = IF u = t THEN m + 1 ELSE Here(u)
    BY <1>2
  <2> HIDE DEF m
  <2> QED
    BY <1>1, <1>2, <1>3, <2>1, <2>2
<1> HIDE DEF m
<1> QED
  BY <1>1, <1>4, <1>5, <1>6, <1>7, <1>8 DEF CountedRest, CountedInv, Works,
     Phases

\* The start of the region of interest (initPerformanceCounters).
LEMMA StartRest ==
  ASSUME PlacesInv, CountedInv, PerfTypes, exit_status = "running",
         text' = text, NEW t \in Threads, Comes(t), at' = at,
         PerfStart(t, RoiValue(text[at[t]]), Stretch(at[t]))
  PROVE  EntersReal(t) /\ CountedRest'
<1> DEFINE m == at[Master]
<1>1. /\ EntersReal(t) /\ inside_roi' /\ BarrierPoints(t, inside_roi') = 0
      /\ BP_number' = 1 /\ started' = TRUE
      /\ running' = [u \in Threads |-> TRUE]
      /\ count' = [u \in Threads |-> 0]
      /\ counters' = [u \in Threads |-> {}]
      /\ UNCHANGED <<pbarrier, exit_status>>
  BY DEF PerfStart
<1>2. /\ m <= Len(text) /\ Here(t) = m /\ Here(t)' = m + 1
      /\ \A u \in Threads \ {t} : Here(u)' = Here(u)
      /\ inside_roi' <=> SetTo(text, m + 1) = "1"
  BY <1>1, ComesFact
<1>3. /\ SetOn(text, m + 1) <=> SetOn(text, m) \/ text[m] = "on"
      /\ SetTo(text, m + 1) = "1" => SetOn(text, m + 1)
      /\ ~SetOn(text, m) => Passed(text, m) = 0
      /\ Passed(text, m + 1) =
           Passed(text, m) + (IF Point(text, m) THEN 1 ELSE 0)
      /\ Passed(text, m) \in Nat
  BY <1>2, MasterMeets, PassedMore
<1>4. /\ Passed(text, Here(Master)) \in Nat
      /\ BP_number = IF SetOn(text, Here(Master))
                     THEN 1 + Passed(text, Here(Master)) ELSE -1
      /\ ~SetOn(text, Here(Master)) => \A u \in Threads : pbarrier[u] = <<>>
  BY HereFact, Executing DEF CountedInv
<1>5. t = Master /\ ~SetOn(text, Here(Master))
  <2> HIDE DEF Here
  <2> QED
    BY <1>1, <1>4 DEF BarrierPoints
<1>6. ~SetOn(text, m) /\ Here(Master)' = m + 1
  <2> HIDE DEF m, Here
  <2> QED
    BY <1>2, <1>5
<1>7. SetOn(text, m + 1) /\ text[m] = "on"
  BY <1>1, <1>2, <1>3, <1>6
<1>8. Passed(text, m + 1) = 0
  BY <1>3, <1>6, <1>7 DEF Point
<1>9. SetOn(text, Here(Master)') /\ Passed(text, Here(Master)') = 0
  <2> HIDE DEF m
  <2> QED
    BY <1>6, <1>7, <1>8
<1>10. \A u \in Threads : /\ count'[u] = 0
                          /\ pbarrier'[u] = <<>> /\ Len(pbarrier'[u]) = 0
  BY <1>1, <1>4, <1>5
<1>11. Phases(count', pbarrier')
  BY <1>10, PhasesAssumption DEF Phases
<1>12. ASSUME NEW u \in Threads
       PROVE  Here(u)' \in 1..(Len(text) + 1)
  <2>1. Here(u)' = IF u = t THEN m + 1 ELSE Here(u)
    BY <1>2
  <2>2. Here(u) \in 1..(Len(text) + 1) /\ m + 1 \in 1..(Len(text) + 1)
    BY <1>2, HereFact, Executing
  <2> HIDE DEF m
  <2> QED
    BY <2>1, <2>2
<1>13. \A u \in Threads : count'[u] <= Passed(text, Here(u)')
  <2> TAKE u \in Threads
  <2>1. Passed(text, Here(u)') \in Nat
    BY <1>12, Executing DEF PassedFact
  <2> QED
    BY <1>10, <2>1
<1>14. Works(counters')
  BY <1>1 DEF Works
<1> HIDE DEF m
<1> QED
  BY <1>1, <1>9, <1>11, <1>13, <1>14 DEF CountedRest, CountedInv, Works,
     Phases

\* A barrier of the region of interest ends a phase of its thread.
LEMMA RegionRest ==
  ASSUME PlacesInv, CountedInv, PerfTypes, exit_status = "running",
         text' = text, NEW t \in Threads, Comes(t), at' = at,
         PerfRegion(t, RoiValue(text[at[t]]), Stretch(at[t]))
  PROVE  EntersReal(t) /\ CountedRest'
<1> DEFINE m == at[Master]
           ran == Ran(t, Stretch(m))
<1>1. /\ EntersReal(t) /\ inside_roi' /\ BarrierPoints(t, inside_roi') # 0
      /\ BP_number' = BarrierPoints(t, inside_roi')
      /\ Region({t}, Ran(t, Stretch(at[t])))
      /\ UNCHANGED exit_status
  BY DEF PerfRegion
<1>2. /\ m <= Len(text) /\ text[m] \in {"on", "off", "bar"} /\ at[t] = m
      /\ Here(t) = m /\ Here(t)' = m + 1
      /\ \A u \in Threads \ {t} : Here(u)' = Here(u)
      /\ inside_roi' <=> SetTo(text, m + 1) = "1"
      /\ t # Master => text[m] = "bar"
  BY <1>1, ComesFact
<1>3. /\ Passed(text, Here(Master)) \in Nat
      /\ BP_number = IF SetOn(text, Here(Master))
                     THEN 1 + Passed(text, Here(Master)) ELSE -1
  BY HereFact, Executing DEF CountedInv
<1>4. t = Master => SetOn(text, m)
  <2> SUFFICES ASSUME t = Master, ~SetOn(text, m)
               PROVE  FALSE
    OBVIOUS
  <2>1. ~SetOn(text, Here(Master))
    <3> HIDE DEF m, Here
    <3> QED
      BY <1>2
  <2> HIDE DEF m, Here
  <2> QED
    BY <1>1, <1>3, <2>1 DEF BarrierPoints
<1>5. text[m] = "bar" /\ SetTo(text, m) = "1"
  <2>1. /\ text[m] = "on" => ~SetOn(text, m)
        /\ text[m] = "off" => SetTo(text, m + 1) = "0"
        /\ text[m] \notin {"on", "off"} =>
             SetTo(text, m + 1) = SetTo(text, m)
    BY <1>2, MasterMeets
  <2> HIDE DEF m
  <2> QED
    BY <1>1, <1>2, <1>4, <2>1
<1>6. /\ Passed(text, m + 1) = Passed(text, m) + 1
      /\ Passed(text, m) \in Nat /\ SetOn(text, m + 1)
  <2>1. Point(text, m)
    BY <1>5 DEF Point
  <2> QED
    BY <1>1, <1>2, <2>1, MasterMeets, PassedMore
<1>7. /\ Works(ran) /\ ran \in [Threads -> SUBSET Int]
      /\ Works(counters) /\ Phases(count, pbarrier)
  <2>1. Works(counters) /\ Phases(count, pbarrier)
    BY RestIs DEF CountedRest
  <2>2. Stretch(m) \in Nat
    BY StretchNumber DEF PlacesInv
  <2>3. ran \in [Threads -> SUBSET Int]
    BY <2>2, RanTypes
  <2> QED
    BY <1>2, <2>1, <2>3, RanWorks
<1>8. Region({t}, ran)
  BY <1>1, <1>2
<1> HIDE DEF ran
<1>9. /\ started' = started /\ running' = running
      /\ Works(counters') /\ Phases(count', pbarrier')
      /\ \A u \in Threads :
           count'[u] = count[u] \/ (count'[u] = count[u] + 1 /\ u \in {t})
      /\ ~started => pbarrier' = pbarrier
  BY <1>7, <1>8, RegionCounts
<1>10. ASSUME NEW u \in Threads
       PROVE  count'[u] <= Passed(text, Here(u)')
  <2>1. count[u] \in Nat /\ count[u] <= Passed(text, Here(u))
        /\ Passed(text, Here(u)) \in Nat
    BY HereFact DEF CountedInv, PerfTypes
  <2>2. count'[u] = count[u] \/ (count'[u] = count[u] + 1 /\ u = t)
    BY <1>9
  <2> HIDE DEF m
  <2>3. CASE u = t
    BY <1>2, <1>6, <2>1, <2>2, <2>3
  <2>4. CASE u # t
    BY <1>2, <2>1, <2>2, <2>4
  <2> QED
    BY <2>3, <2>4
<1>11. BP_number' = IF SetOn(text, Here(Master)')
                    THEN 1 + Passed(text, Here(Master)') ELSE -1
  <2>1. CASE t = Master
    <3>1. BP_number' = BP_number + 1
      BY <1>1, <2>1 DEF BarrierPoints
    <3>2. BP_number = 1 + Passed(text, m)
      <4> HIDE DEF m, Here
      <4> QED
        BY <1>2, <1>3, <1>4, <2>1
    <3> HIDE DEF m, Here
    <3> QED
      BY <1>2, <1>6, <2>1, <3>1, <3>2
  <2>2. CASE t # Master
    <3>1. BP_number' = BP_number
      BY <1>1, <2>2 DEF BarrierPoints
    <3>2. Here(Master)' = Here(Master)
      BY <1>2, <2>2, Executing
    <3> HIDE DEF Here
    <3> QED
      BY <1>3, <3>1, <3>2
  <2> QED
    BY <2>1, <2>2
<1>12. ~SetOn(text, Here(Master)') => ~SetOn(text, Here(Master))
  <2>1. Here(Master)' = IF t = Master THEN m + 1 ELSE Here(Master)
    BY <1>2, Executing
  <2> HIDE DEF m
  <2> QED
    BY <1>6, <2>1
<1> HIDE DEF m
<1> QED
  BY <1>1, <1>9, <1>10, <1>11, <1>12 DEF CountedRest, CountedInv, Works,
     Phases

\* The end of the region of interest (stopPerformanceCounters).
LEMMA StopRest ==
  ASSUME PlacesInv, CountedInv, PerfTypes, exit_status = "running",
         text' = text, NEW t \in Threads, Comes(t), at' = at,
         PerfStop(t, RoiValue(text[at[t]]), Stretch(at[t]))
  PROVE  EntersReal(t) /\ CountedRest'
<1> DEFINE m == at[Master]
<1>1. /\ EntersReal(t) /\ ~inside_roi' /\ BP_number # -1 /\ team = {}
      /\ counters' = Ran(t, Stretch(at[t]))
      /\ running' = [u \in Threads |-> FALSE] /\ started' = FALSE
      /\ UNCHANGED <<BP_number, count, pbarrier, exit_status>>
  BY DEF PerfStop, Stops
<1>2. /\ m <= Len(text) /\ text[m] \in {"on", "off", "bar"} /\ at[t] = m
      /\ Here(t) = m /\ Here(t)' = m + 1
      /\ \A u \in Threads \ {t} : Here(u)' = Here(u)
      /\ inside_roi' <=> SetTo(text, m + 1) = "1"
      /\ t = Master
  BY <1>1, ComesFact
<1>3. BP_number = IF SetOn(text, Here(Master))
                  THEN 1 + Passed(text, Here(Master)) ELSE -1
  BY DEF CountedInv
<1>4. SetOn(text, m) /\ BP_number = 1 + Passed(text, m)
  <2> HIDE DEF m, Here
  <2> QED
    BY <1>1, <1>2, <1>3
<1>5. /\ SetOn(text, m + 1) /\ Passed(text, m) \in Nat
      /\ Passed(text, m + 1) = Passed(text, m)
  <2>1. /\ SetOn(text, m + 1) <=> SetOn(text, m) \/ text[m] = "on"
        /\ text[m] \notin {"on", "off"} =>
             SetTo(text, m + 1) = SetTo(text, m)
        /\ Passed(text, m + 1) =
             Passed(text, m) + (IF Point(text, m) THEN 1 ELSE 0)
        /\ Passed(text, m) \in Nat
    BY <1>2, MasterMeets, PassedMore
  <2>2. ~Point(text, m)
    BY <1>1, <1>2, <2>1 DEF Point
  <2> QED
    BY <1>4, <2>1, <2>2
<1>6. Works(counters) /\ Phases(count, pbarrier)
  BY RestIs DEF CountedRest
<1>7. Works(counters')
  BY <1>1, <1>2, <1>6, RanWorks
<1>8. ASSUME NEW u \in Threads
      PROVE  count'[u] <= Passed(text, Here(u)')
  <2>1. count[u] <= Passed(text, Here(u))
    BY DEF CountedInv
  <2> HIDE DEF m
  <2> QED
    BY <1>1, <1>2, <1>5, <2>1
<1>9. /\ SetOn(text, Here(Master)')
      /\ BP_number' = 1 + Passed(text, Here(Master)')
  <2> HIDE DEF m
  <2> QED
    BY <1>1, <1>2, <1>4, <1>5
<1> HIDE DEF m
<1> QED
  BY <1>1, <1>6, <1>7, <1>8, <1>9 DEF CountedRest, CountedInv, Works,
     Phases

\* The client takes no part in a program that is measured.
LEMMA RestNext ==
  ASSUME CountedInv, CountedRest', roi_bp' \in {"unset", "0", "1"},
         inside_roi' \in BOOLEAN, exit_status' = "running" => CountedFlags',
         UNCHANGED <<text, markerVars, in_roi, synch_count>>
  PROVE  CountedInv'
BY DEF CountedInv, CountedRest, Works, Phases, markerVars

\* A process that ends leaves everything where it is.
LEMMA CountedEnds ==
  ASSUME PlacesInv, CountedInv, exit_status' \in {"ok", "failed"},
         roi_bp' \in {"unset", "0", "1"}, inside_roi' \in BOOLEAN,
         UNCHANGED <<text, at, team, pc, BP_number, storeVars, counters,
                     markerVars, in_roi, synch_count>>
  PROVE  PlacesInv' /\ CountedInv'
<1>1. PlacesInv'
  BY PlacesSame
<1>2. \A u : Here(u)' = Here(u)
  BY DEF Here
<1>3. CountedRest'
  BY <1>2, RestIs DEF CountedRest, Works, Phases, storeVars
<1> QED
  BY <1>1, <1>3, RestNext

\* The process stays where it is, if there is one.
LEMMA CountedStays ==
  ASSUME PlacesInv, CountedInv,
         UNCHANGED <<processVars, dr_flag, BP_number, storeVars, counters,
                     exit_status, at, text, in_roi, synch_count>>
  PROVE  PlacesInv' /\ CountedInv'
<1>1. PlacesInv'
  BY PlacesSame DEF processVars
<1>2. \A u : Here(u)' = Here(u)
  BY DEF Here, processVars
<1>3. CountedFlags' <=> CountedFlags
  BY <1>2 DEF CountedFlags, processVars
<1> QED
  BY <1>1, <1>2, <1>3 DEF CountedInv, processVars, storeVars

\* GOMP_barrier, whatever it finds.
LEMMA CountedMet ==
  ASSUME PlacesInv, CountedInv, PerfTypes, exit_status = "running",
         text' = text, UNCHANGED <<markerVars, in_roi, synch_count>>,
         NEW t \in Threads, CountedBarrier(t)
  PROVE  PlacesInv' /\ CountedInv'
<1> DEFINE env == RoiValue(text[at[t]])
           x == Stretch(at[t])
<1>1. /\ Comes(t)
      /\ \/ PerfPass(t, env, x) \/ PerfStart(t, env, x)
         \/ PerfRegion(t, env, x) \/ PerfStop(t, env, x)
         \/ PerfStopAgain(t, env, x)
      /\ at' = IF pc'[t] = "out" /\ exit_status' = "running"
               THEN [at EXCEPT ![t] = @ + 1] ELSE at
  BY DEF CountedBarrier, Comes, PerfPass, PerfStart, PerfRegion, PerfStop,
         PerfStopAgain, Stops
<1>2. CASE EntersReal(t)
  <2>1. pc'[t] = "real"
    BY <1>2 DEF EntersReal, GoesTo, PlacesInv
  <2>2. at' = at
    BY <1>1, <2>1
  <2>3. CASE PerfStopAgain(t, env, x)
    <3>1. pc' = pc /\ pc[t] = "out"
      BY <1>1, <2>3 DEF PerfStopAgain, Comes, Enters
    <3> QED
      BY <2>1, <3>1
  <2>4. CASE ~PerfStopAgain(t, env, x)
    <3>1. CountedRest'
      BY <1>1, <2>2, <2>4, PassRest, StartRest, RegionRest, StopRest
    <3>2. /\ PlacesInv' /\ CountedFlags' /\ inside_roi' \in BOOLEAN
          /\ roi_bp' \in {"unset", "0", "1"}
      BY <1>1, <1>2, <2>2, ComesFact
    <3> QED
      BY <3>1, <3>2, RestNext
  <2> QED
    BY <2>3, <2>4
<1>3. CASE PerfStopAgain(t, env, x)
  <2>1. /\ exit_status' = "failed" /\ pc' = pc /\ team' = team
        /\ UNCHANGED <<BP_number, storeVars, counters>>
        /\ roi_bp' = env
        /\ inside_roi' = IF env = "unset" THEN inside_roi ELSE env = "1"
    BY <1>3 DEF PerfStopAgain, Stops, Enters
  <2>2. env \in {"unset", "0", "1"} /\ inside_roi \in BOOLEAN
    BY DEF RoiValue, CountedInv
  <2> HIDE DEF env, x
  <2>3. inside_roi' \in BOOLEAN
    BY <2>1, <2>2
  <2> QED
    BY <1>1, <2>1, <2>2, <2>3, CountedEnds
<1>4. PerfPass(t, env, x) \/ PerfStart(t, env, x) \/ PerfRegion(t, env, x)
        \/ PerfStop(t, env, x) => EntersReal(t)
  BY DEF PerfPass, PerfStart, PerfRegion, PerfStop
<1> QED
  BY <1>1, <1>2, <1>3, <1>4

\* All of the steps of the program, and its failures.
LEMMA CountedStep ==
  ASSUME PlacesInv, CountedInv, PerfTypes, CountedProgram
  PROVE  PlacesInv' /\ CountedInv'
<1>1. /\ exit_status = "running" /\ text' = text
      /\ UNCHANGED <<markerVars, in_roi, synch_count>>
  BY DEF CountedProgram, clientVars
<1>2. CASE CountedFork
  BY <1>1, <1>2, CountedForked
<1>3. CASE CountedLibgomp
  BY <1>1, <1>3, CountedGoesOn
<1>4. CASE CountedExit
  BY <1>1, <1>4, CountedEnds DEF CountedExit, processVars, CountedInv
<1>5. CASE \E t \in Threads : CountedFinish(t) \/ CountedBarrier(t)
  BY <1>1, <1>5, CountedFinished, CountedMet
<1>6. CASE CountedFails
  <2>1. ASSUME NEW t \in Threads,
               PerfStopFails(t, RoiValue("off"), Stretch(at[t])),
               UNCHANGED at
        PROVE  PlacesInv' /\ CountedInv'
    <3>1. /\ exit_status' = "failed" /\ pc' = pc /\ team' = team
          /\ UNCHANGED <<BP_number, storeVars, counters>>
          /\ roi_bp' = "0" /\ inside_roi' = FALSE
      BY <2>1 DEF PerfStopFails, Stops, Enters, RoiValue
    <3> QED
      BY <1>1, <2>1, <3>1, CountedEnds
  <2>2. ASSUME exit_status' = "failed",
               UNCHANGED <<processVars, at, per_region, BP_number, storeVars,
                           counters, outfile>>
        PROVE  PlacesInv' /\ CountedInv'
    BY <1>1, <2>2, CountedEnds DEF processVars, CountedInv
  <2>3. CASE PerfWriteFails /\ UNCHANGED at
    <3>1. /\ UNCHANGED <<processVars, BP_number, storeVars, counters>>
          /\ exit_status' = exit_status
      BY <2>3 DEF PerfWriteFails
    <3> QED
      BY <1>1, <2>3, <3>1, CountedStays DEF markerVars
  <2> QED
    BY <1>6, <2>1, <2>2, <2>3 DEF CountedFails
<1> QED
  BY <1>2, <1>3, <1>4, <1>5, <1>6 DEF CountedProgram

----------------------------------------------------------------------------
(* The driver.                                                             *)

\* The next process has counted nothing yet.
LEMMA GoneCounted ==
  ASSUME PlacesInv, Gone, in_roi \in BOOLEAN,
         synch_count \in 0..(Cardinality(PointsOf(text)) + 1),
         UNCHANGED <<text, in_roi, synch_count>>
  PROVE  CountedInv'
<1>1. /\ pc' = [t \in Threads |-> "out"] /\ at' = [t \in Threads |-> 1]
      /\ roi_bp' = "unset" /\ inside_roi' = FALSE /\ dr_flag' = FALSE
      /\ BP_number' = -1 /\ started' = FALSE
      /\ running' = [t \in Threads |-> FALSE]
      /\ counters' = [t \in Threads |-> {}]
      /\ count' = [t \in Threads |-> 0]
      /\ pbarrier' = [t \in Threads |-> <<>>]
      /\ exit_status' = "running"
  BY DEF Gone
<1>2. \A t \in Threads : Here(t)' = 1
  BY <1>1, Executing DEF Here
<1>3. /\ SetTo(text, 1) = "unset" /\ ~SetOn(text, 1)
      /\ Passed(text, 1) \in Nat /\ Cardinality(PointsOf(text)) \in Nat
  <2>1. 1 \in 1..(Len(text) + 1)
    BY Executing
  <2>2. SetFact(text) /\ PassedFact(text)
    BY Executing
  <2> QED
    BY <2>1, <2>2 DEF SetFact, PassedFact
<1>4. ASSUME NEW t \in Threads
      PROVE  /\ counters'[t] \subseteq 0..Cardinality(PointsOf(text))
             /\ count'[t] <= Passed(text, Here(t)')
             /\ Len(pbarrier'[t]) <= count'[t]
             /\ Len(pbarrier'[t]) <= MaxPhases
             /\ pbarrier'[t] = <<>>
  <2>1. counters'[t] = {} /\ count'[t] = 0 /\ pbarrier'[t] = <<>>
    BY <1>1
  <2>2. Passed(text, Here(t)') = Passed(text, 1) /\ Len(pbarrier'[t]) = 0
    BY <1>2, <2>1
  <2> QED
    BY <1>3, <2>1, <2>2, PhasesAssumption
<1>5. Here(Master)' = 1
  BY <1>2, Executing
<1>6. CountedFlags'
  BY <1>1, <1>3, <1>5 DEF CountedFlags
<1> QED
  BY <1>1, <1>3, <1>4, <1>5, <1>6 DEF CountedInv

\* Once it is under way, the driver runs programs with counters.
LEMMA MeasuredStep ==
  ASSUME PlacesInv, CountedInv, PapiTypes, stage # "identify", [Next]_vars
  PROVE  PlacesInv' /\ CountedInv' /\ stage' # "identify"
<1>1. stage' # "identify"
  BY DEF Next, Identify, StartBenchmarks, CreateExperimentBatch, RemoveOld,
     DryRun, LaunchProgram, CountedProgram, ProgramEnds, ParseAndWrite,
     WriteFails, Interrupt, EstimateError, vars, driverVars
<1>2. CASE StaysOut
  BY <1>1, <1>2, CountedStays DEF StaysOut, roiVars, markerVars, perfVars,
     clientVars
<1>3. CASE LaunchProgram
  BY <1>3, CountedStays DEF LaunchProgram, roiVars, markerVars, clientVars
<1>4. CASE CountedProgram
  BY <1>1, <1>4, CountedStep DEF PapiTypes
<1>5. CASE Gone /\ UNCHANGED <<text, clientVars>>
  BY <1>1, <1>5, PlacesGone, GoneCounted DEF CountedInv, clientVars
<1>6. CASE UNCHANGED vars
  BY <1>1, <1>6, CountedStays DEF vars, roiVars, markerVars, perfVars,
     clientVars
<1> QED
  BY <1>1, <1>2, <1>3, <1>4, <1>5, <1>6 DEF Next, Identify, StartBenchmarks,
     CreateExperimentBatch, RemoveOld, DryRun, ProgramEnds, ParseAndWrite,
     WriteFails, Interrupt, EstimateError

\* At first the program is run under DynamoRIO.
LEMMA IdentifiedStep ==
  ASSUME PlacesInv, DrInv, MarksAlone, stage = "identify", [Next]_vars
  PROVE  /\ PlacesInv'
         /\ stage' = "identify" => DrInv'
         /\ stage' # "identify" => CountedInv'
<1>1. CASE Identify /\ DrProgram
  BY <1>1, DrStep DEF Identify, DrProgram, driverVars
<1>2. CASE Identify /\ DrEnds
  <2>1. Gone /\ stage' = "idle" /\ UNCHANGED <<text, in_roi, synch_count>>
    BY <1>2 DEF Identify, DrEnds
  <2> QED
    BY <2>1, PlacesGone, GoneCounted DEF DrInv, DrCounts
<1>3. CASE UNCHANGED vars
  <2>1. PlacesInv'
    BY <1>3, PlacesSame DEF vars, roiVars, processVars
  <2>2. Here(Master)' = Here(Master)
    BY <1>3 DEF Here, vars, roiVars, processVars
  <2>3. DrInv'
    BY <1>3, <2>2 DEF DrInv, DrFlags, DrCounts, PerfInit, vars, roiVars,
       processVars, markerVars, perfVars, storeVars, clientVars
  <2>4. stage' = "identify"
    BY <1>3 DEF vars, driverVars
  <2> QED
    BY <2>1, <2>3, <2>4
<1> QED
  BY <1>1, <1>2, <1>3 DEF Next, Identify, StartBenchmarks,
     CreateExperimentBatch, RemoveOld, DryRun, LaunchProgram, CountedProgram,
     ProgramEnds, ParseAndWrite, WriteFails, Interrupt, EstimateError

\* The tables belong to invocations so far (RunBenchmarks.py:540-636).
LEMMA TableRuns ==
  ASSUME DriverTypes, run \in Nat, barriers \in Modes,
         csv = [m \in Modes |-> csv[m]], run' = run,
         ParseAndWrite \/ WriteFails
  PROVE  \A m \in Modes : csv'[m].run \in 0..run
<1> DEFINE st == StatsPerfCounters(platform, papi[barriers])
           table == Table(st.STATS)
           cut(n) == [table EXCEPT
                        !.rows = SubSeq(@, 1, n), !.avg = <<>>,
                        !.finished = table.finished
                                       /\ n = Len(table.rows)]
<1>1. table.run = run /\ \A n : cut(n).run = run
  BY DEF Table
<1>2. \A m \in Modes : csv[m].run \in 0..run
  BY DEF DriverTypes
<1>3. \/ UNCHANGED csv
      \/ csv' = [csv EXCEPT ![barriers] = table]
      \/ \E n : csv' = [csv EXCEPT ![barriers] = cut(n)]
  <2>1. CASE ParseAndWrite
    <3>1. UNCHANGED csv \/ csv' = [csv EXCEPT ![barriers] = table]
      BY <2>1 DEF ParseAndWrite
    <3> HIDE DEF table
    <3> QED
      BY <3>1
  <2>2. CASE WriteFails
    <3>1. UNCHANGED csv \/ \E n : csv' = [csv EXCEPT ![barriers] = cut(n)]
      BY <2>2 DEF WriteFails
    <3> HIDE DEF cut
    <3> QED
      BY <3>1
  <2> QED
    BY <2>1, <2>2
<1>4. ASSUME NEW other, other.run = run,
             csv' = [csv EXCEPT ![barriers] = other]
      PROVE  \A m \in Modes : csv'[m].run \in 0..run
  <2> TAKE m \in Modes
  <2>1. csv'[m] = IF m = barriers THEN other ELSE csv[m]
    BY <1>4
  <2> QED
    BY <1>2, <1>4, <2>1
<1> HIDE DEF table, cut
<1>5. CASE UNCHANGED csv
  BY <1>2, <1>5
<1>6. CASE csv' = [csv EXCEPT ![barriers] = table]
  BY <1>1, <1>4, <1>6
<1>7. ASSUME NEW n, csv' = [csv EXCEPT ![barriers] = cut(n)]
      PROVE  \A m \in Modes : csv'[m].run \in 0..run
  BY <1>1, <1>4, <1>7
<1> QED
  BY <1>3, <1>5, <1>6, <1>7

\* What a step that is none of the driver's leaves alone.
LEMMA DriverQuiet ==
  ASSUME DriverTypes, per_region' \in BOOLEAN, stage' \in Stages,
         faults' \in 0..MaxFaults, UNCHANGED <<run, dry, round, csv>>
  PROVE  DriverTypes'
BY DEF DriverTypes

\* Failures and kills are bounded in the model.
LEMMA FaultsCount ==
  ASSUME faults \in 0..MaxFaults, UNCHANGED faults \/ Fault
  PROVE  faults' \in 0..MaxFaults
BY MeasurementAssumption DEF Fault

\* The driver's variables, and which mode a program is run in.
LEMMA DriverStep ==
  ASSUME DriverTypes, TuplesInv, [Next]_vars
  PROVE  DriverTypes'
<1>1. /\ run \in Nat /\ barriers \in Modes /\ csv = [m \in Modes |-> csv[m]]
      /\ per_region \in BOOLEAN /\ stage \in Stages
      /\ faults \in 0..MaxFaults
  BY DEF TuplesInv, PapiTypes, DriverTypes
<1>2. CASE Identify
  <2>1. /\ UNCHANGED <<run, dry, round, csv, faults>>
        /\ per_region' \in BOOLEAN /\ stage' \in Stages
    BY <1>1, <1>2 DEF Identify, DrProgram, DrEnds, Gone, driverVars,
       perfVars, Stages
  <2> QED
    BY <1>1, <2>1, DriverQuiet
<1>3. ASSUME NEW d \in BOOLEAN, StartBenchmarks(d)
      PROVE  DriverTypes'
  <2>1. /\ run < MaxRuns /\ run' = run + 1 /\ dry' = d /\ stage' = "create"
        /\ UNCHANGED <<round, csv, faults, per_region>>
    BY <1>3 DEF StartBenchmarks, StaysOut, perfVars
  <2>2. \A m \in Modes : csv'[m].run \in 0..run'
    BY <1>1, <2>1 DEF DriverTypes
  <2>3. run' \in 0..MaxRuns
    BY <1>1, <2>1, MeasurementAssumption
  <2> QED
    BY <1>1, <2>1, <2>2, <2>3 DEF DriverTypes, Stages
<1>4. CASE CreateExperimentBatch \/ DryRun
  <2>1. /\ UNCHANGED <<run, dry, round, csv, per_region>>
        /\ stage' \in Stages /\ (UNCHANGED faults \/ Fault)
    BY <1>4 DEF CreateExperimentBatch, DryRun, StaysOut, perfVars, Stages
  <2> QED
    BY <1>1, <2>1, DriverQuiet, FaultsCount
<1>5. CASE RemoveOld
  <2>1. /\ UNCHANGED <<run, dry, faults, per_region>> /\ round' = 1
        /\ stage' = "launch"
        /\ csv' = [m \in Modes |-> IF m \in Removed THEN NoTable
                                   ELSE csv[m]]
    BY <1>5 DEF RemoveOld, StaysOut, perfVars
  <2>2. NoTable.run = 0
    BY DEF NoTable
  <2>3. \A m \in Modes : csv'[m].run \in 0..run
    <3> TAKE m \in Modes
    <3>1. csv'[m] = NoTable \/ csv'[m] = csv[m]
      BY <2>1
    <3> QED
      BY <1>1, <2>2, <3>1 DEF DriverTypes
  <2> QED
    BY <1>1, <2>1, <2>3 DEF DriverTypes, Stages
<1>6. CASE LaunchProgram
  <2>1. /\ UNCHANGED <<run, dry, round, csv, faults>>
        /\ per_region' = (barriers = 1) /\ stage' = "program"
    BY <1>6 DEF LaunchProgram
  <2>2. per_region' \in BOOLEAN
    BY <2>1, Zenon
  <2> QED
    BY <1>1, <2>1, <2>2, DriverQuiet DEF Stages
<1>7. CASE CountedProgram
  <2>1. UNCHANGED <<run, dry, round, csv, stage>>
    BY <1>7 DEF CountedProgram
  <2>2. UNCHANGED faults \/ Fault
    BY <1>7 DEF CountedProgram, CountedFails
  <2>3. per_region' = per_region
    BY <1>7 DEF CountedProgram, CountedFork, PerfParallel, CountedLibgomp,
       perfVars, CountedExit, CountedFinish, PerfFinish, CountedBarrier,
       PerfPass, PerfStart, PerfRegion, PerfStop, PerfStopAgain, Stops,
       Enters, CountedFails, PerfStopFails, PerfWriteFails
  <2> QED
    BY <1>1, <2>1, <2>2, <2>3, DriverQuiet, FaultsCount
<1>8. CASE ProgramEnds
  <2>1. /\ UNCHANGED <<run, dry, csv, faults>> /\ per_region' = FALSE
        /\ stage' \in Stages /\ stage = "program"
        /\ \/ round < LastRound /\ round' = round + 1
           \/ round' = 1
           \/ round' = round
    BY <1>8 DEF ProgramEnds, Gone, Stages
  <2>2. LastRound \in Nat /\ LastRound <= 3
    BY <2>1, RoundsCount DEF TuplesInv, PapiTypes, LastRound
  <2>3. round' \in 1..3
    BY <2>1, <2>2 DEF DriverTypes
  <2> QED
    BY <1>1, <2>1, <2>3 DEF DriverTypes
<1>9. CASE ParseAndWrite \/ WriteFails
  <2>1. /\ UNCHANGED <<run, dry, round, per_region>> /\ stage' \in Stages
        /\ UNCHANGED faults \/ Fault
    BY <1>9 DEF ParseAndWrite, WriteFails, StaysOut, perfVars, Stages
  <2>2. \A m \in Modes : csv'[m].run \in 0..run
    BY <1>1, <1>9, <2>1, TableRuns
  <2> QED
    BY <1>1, <2>1, <2>2, FaultsCount DEF DriverTypes
<1>10. CASE Interrupt
  <2>1. /\ UNCHANGED <<run, dry, round, csv>> /\ per_region' = FALSE
        /\ stage' = "idle" /\ Fault
    BY <1>10 DEF Interrupt, Gone
  <2> QED
    BY <1>1, <2>1, DriverQuiet, FaultsCount DEF Stages
<1>11. ASSUME NEW bp \in 1..(regions - 1), EstimateError(bp)
       PROVE  DriverTypes'
  <2>1. UNCHANGED <<run, dry, round, csv, per_region, stage, faults>>
    BY <1>11 DEF EstimateError, StaysOut, perfVars
  <2> QED
    BY <1>1, <2>1, DriverQuiet
<1>12. CASE UNCHANGED vars
  BY <1>1, <1>12, DriverQuiet DEF vars, driverVars, perfVars
<1> QED
  BY <1>2, <1>3, <1>4, <1>5, <1>6, <1>7, <1>8, <1>9, <1>10, <1>11, <1>12
     DEF Next

----------------------------------------------------------------------------
(* All of it.                                                              *)

\* The programs there are have one region of interest.
LEMMA PlanInit ==
  ASSUME Init
  PROVE  PlanInv
<1>1. text \in Seq(Operations) /\ OneRoi(text) /\ stage = "identify"
  BY MeasurementAssumption DEF Init
<1>2. /\ pc = [t \in Threads |-> "out"] /\ team = {}
      /\ at = [t \in Threads |-> 1]
      /\ roi_bp = "unset" /\ inside_roi = FALSE /\ dr_flag = FALSE
      /\ in_roi = FALSE /\ synch_count = 0
      /\ PerfInit
  BY DEF Init, ProgramInit, RoiInit, ProcessInit, MarkerInit
<1>3. Master \in Threads /\ Len(text) \in Nat
  BY <1>1, MasterAssumption
<1>4. PlacesInv
  <2>1. /\ at \in [Threads -> 1..(Len(text) + 1)]
        /\ pc \in [Threads -> Labels] /\ Active = {Master}
        /\ \A t \in Threads : pc[t] = "out"
    BY <1>2, <1>3 DEF Labels, Active
  <2>2. Idle
    BY <2>1 DEF Idle
  <2>3. \A t \in Active : pc[t] = "out"
    BY <1>3, <2>1
  <2> QED
    BY <1>1, <1>2, <2>1, <2>2, <2>3 DEF PlacesInv
<1>5. /\ SetTo(text, 1) = "unset" /\ ~SetOn(text, 1)
      /\ Cardinality(PointsOf(text)) \in Nat
  BY <1>4, Executing DEF SetFact, PassedFact
<1>6. pc[Master] = "out" /\ at[Master] = 1 /\ Here(Master) = 1
  BY <1>2, <1>3 DEF Here
<1>7. DrFlags /\ DrCounts
  <2>1. /\ roi_bp = SetTo(text, 1) /\ SetTo(text, 1) # "1"
        /\ ~inside_roi /\ ~in_roi /\ dr_flag = in_roi
    BY <1>2, <1>5
  <2>2. DrFlags
    BY <1>6, <2>1 DEF DrFlags
  <2>3. 0 \in 0..(Cardinality(PointsOf(text)) + 1)
    BY <1>5
  <2> QED
    BY <1>2, <2>1, <2>2, <2>3 DEF DrCounts
<1>8. DriverTypes
  <2>1. \A m \in Modes : csv[m].run = 0
    BY DEF Init, NoTable
  <2>2. /\ per_region = FALSE /\ dry = FALSE /\ run = 0 /\ faults = 0
        /\ round = 1
    BY DEF Init, ProgramInit
  <2>3. 0 \in 0..MaxRuns /\ 0 \in 0..MaxFaults /\ 0 \in 0..0 /\ 1 \in 1..3
    BY MeasurementAssumption
  <2> QED
    BY <1>1, <2>1, <2>2, <2>3 DEF DriverTypes, Stages
<1> QED
  BY <1>1, <1>2, <1>4, <1>7, <1>8 DEF PlanInv, DrInv

\* The markers are those of MarksPaired, and the rounds those of the files.
LEMMA PlanStep ==
  ASSUME PlanInv, MarksInv, TuplesInv, [Next]_vars
  PROVE  PlanInv'
<1>1. DriverTypes'
  BY DriverStep DEF PlanInv
<1>2. CASE stage = "identify"
  <2>1. PlacesInv /\ DrInv /\ MarksAlone
    BY <1>2 DEF PlanInv, MarksInv, RoiInv
  <2>2. /\ PlacesInv'
        /\ stage' = "identify" => DrInv'
        /\ stage' # "identify" => CountedInv'
    BY <1>2, <2>1, IdentifiedStep
  <2> QED
    BY <1>1, <2>2 DEF PlanInv
<1>3. CASE stage # "identify"
  <2>1. PlacesInv' /\ CountedInv' /\ stage' # "identify"
    BY <1>3, MeasuredStep DEF PlanInv, TuplesInv
  <2> QED
    BY <1>1, <2>1 DEF PlanInv
<1> QED
  BY <1>2, <1>3

\* What the invariant says of the program under DynamoRIO ...
LEMMA DrTypes ==
  ASSUME PlacesInv, DrInv, inside_roi \in BOOLEAN
  PROVE  /\ roi_bp \in {"unset", "0", "1"}
         /\ {inside_roi, dr_flag, started, in_roi} \subseteq BOOLEAN
         /\ BP_number \in -1..(Cardinality(Points) + 1)
         /\ running \in [Threads -> BOOLEAN]
         /\ \A t \in Threads :
              /\ counters[t] \subseteq 0..Cardinality(Points)
              /\ count[t] \in 0..Cardinality(Points)
              /\ Len(pbarrier[t]) <= MaxPhases
         /\ exit_status \in {"running", "ok", "failed"}
         /\ synch_count \in 0..(Cardinality(Points) + 1)
<1> DEFINE N == Cardinality(PointsOf(text))
<1>1. N \in Nat /\ Cardinality(Points) = N
  BY PointsAre, HereFact, Executing
<1>2. roi_bp \in {"unset", "0", "1"}
  BY HereSet DEF DrInv, DrFlags
<1>3. synch_count \in 0..(N + 1)
  BY DEF DrInv, DrCounts
<1>4. /\ BP_number = -1 /\ started = FALSE /\ exit_status = "running"
      /\ running = [t \in Threads |-> FALSE]
      /\ \A t \in Threads : /\ counters[t] = {} /\ count[t] = 0
                            /\ Len(pbarrier[t]) = 0
  BY DEF DrInv, PerfInit
<1>5. in_roi \in BOOLEAN /\ dr_flag \in BOOLEAN
  BY DEF DrInv, DrFlags
<1> HIDE DEF N
<1>6. -1 \in -1..(N + 1) /\ 0 \in 0..N /\ 0 <= MaxPhases
  BY <1>1, PhasesAssumption
<1> QED
  BY <1>1, <1>2, <1>3, <1>4, <1>5, <1>6

\* ... and of those with counters.
LEMMA CountedIs ==
  ASSUME PlacesInv, CountedInv, PerfTypes
  PROVE  /\ roi_bp \in {"unset", "0", "1"}
         /\ {inside_roi, dr_flag, started, in_roi} \subseteq BOOLEAN
         /\ BP_number \in -1..(Cardinality(Points) + 1)
         /\ running \in [Threads -> BOOLEAN]
         /\ \A t \in Threads :
              /\ counters[t] \subseteq 0..Cardinality(Points)
              /\ count[t] \in 0..Cardinality(Points)
              /\ Len(pbarrier[t]) <= MaxPhases
         /\ exit_status \in {"running", "ok", "failed"}
         /\ synch_count \in 0..(Cardinality(Points) + 1)
<1> DEFINE N == Cardinality(PointsOf(text))
<1>1. N \in Nat /\ Cardinality(Points) = N
  BY PointsAre, HereFact, Executing
<1>2. BP_number \in -1..(N + 1)
  <2>1. Passed(text, Here(Master)) \in 0..N
    BY HereFact, Executing
  <2>2. BP_number = -1 \/ BP_number = 1 + Passed(text, Here(Master))
    BY DEF CountedInv
  <2> HIDE DEF N
  <2> QED
    BY <1>1, <2>1, <2>2
<1>3. ASSUME NEW t \in Threads
      PROVE  count[t] \in 0..N
  <2>1. Passed(text, Here(t)) \in 0..N
    BY HereFact
  <2>2. count[t] \in Nat /\ count[t] <= Passed(text, Here(t))
    BY DEF CountedInv, PerfTypes
  <2> HIDE DEF N
  <2> QED
    BY <1>1, <2>1, <2>2
<1>4. \A t \in Threads : /\ counters[t] \subseteq 0..N
                         /\ Len(pbarrier[t]) <= MaxPhases
  BY DEF CountedInv
<1>5. synch_count \in 0..(N + 1)
  BY DEF CountedInv
<1> HIDE DEF N
<1> QED
  BY <1>1, <1>2, <1>3, <1>4, <1>5 DEF CountedInv

\* For any programs with one region of interest, any threads, bounds and
\* failures, every variable is in its domain: the client and the counters
\* never count more regions than the program has, and
\* event_values_pbarrier does not overflow (omp_counters.h:340, 378).
THEOREM MeasuredTypes == Spec => []TypeOK
<1>1. Init => MarksInv /\ TuplesInv /\ PlanInv
  BY RoiInitInv, TuplesInit, PlanInit
     DEF Init, ProgramInit, RoiInit, PerfInit, MarksInv
<1>2. MarksInv /\ TuplesInv /\ PlanInv /\ [Next]_vars
        => (MarksInv /\ TuplesInv /\ PlanInv)'
  BY MarksStep, TuplesStep, PlanStep
<1>3. MarksInv /\ TuplesInv /\ PlanInv => TypeOK
  <2> SUFFICES ASSUME MarksInv, TuplesInv, PlanInv PROVE TypeOK
    OBVIOUS
  <2>1. PlacesInv /\ DriverTypes /\ PapiTypes /\ PerfTypes
    BY DEF TuplesInv, PlanInv, PapiTypes
  <2>2. /\ team \subseteq Threads /\ pc \in [Threads -> Labels]
        /\ \A t \in Threads : at[t] \in 1..(Len(text) + 1)
    BY <2>1 DEF PlacesInv
  <2>3. /\ {per_region, dry} \subseteq BOOLEAN
        /\ run \in 0..MaxRuns /\ faults \in 0..MaxFaults
        /\ stage \in Stages /\ round \in 1..3
        /\ \A m \in Modes : csv[m].run \in 0..run
    BY <2>1 DEF DriverTypes
  <2>4. barriers \in Modes /\ rep \in 0..(Iterations - 1)
    BY <2>1 DEF PapiTypes
  <2>5. /\ roi_bp \in {"unset", "0", "1"}
        /\ {inside_roi, dr_flag, started, in_roi} \subseteq BOOLEAN
        /\ BP_number \in -1..(Cardinality(Points) + 1)
        /\ running \in [Threads -> BOOLEAN]
        /\ \A t \in Threads :
             /\ counters[t] \subseteq 0..Cardinality(Points)
             /\ count[t] \in 0..Cardinality(Points)
             /\ Len(pbarrier[t]) <= MaxPhases
        /\ exit_status \in {"running", "ok", "failed"}
        /\ synch_count \in 0..(Cardinality(Points) + 1)
    <3>1. CASE stage = "identify"
      <4>1. DrInv /\ inside_roi \in BOOLEAN
        BY <3>1 DEF PlanInv, MarksInv, RoiInv, RoiTypeOK
      <4> QED
        BY <2>1, <4>1, DrTypes
    <3>2. CASE stage # "identify"
      BY <2>1, <3>2, CountedIs DEF PlanInv
    <3> QED
      BY <3>1, <3>2
  <2> QED
    BY <2>2, <2>3, <2>4, <2>5 DEF TypeOK, Labels, Stages
<1> QED
  BY <1>1, <1>2, <1>3, PTL DEF Spec
=============================================================================
