------------------------ MODULE BarrierClientProofs ------------------------
(***************************************************************************)
(* Theorems about BarrierClient, for every set of threads, every function, *)
(* every bound and every setting of the client's options: types, the       *)
(* master's regions, the alignment of the threads' regions; what the       *)
(* threads save; what the files are made from.                             *)
(***************************************************************************)
EXTENDS BarrierClient, TLAPS

(* What save_data leaves behind stays in its domain.                         *)
LEMMA SaveDataType ==
  ASSUME TypeOK, NEW t \in Thread, NEW name \in Name, SaveData(t, name)
  PROVE  /\ regions' \in [Thread -> SUBSET Region]
         /\ cur_synch_id' \in [Thread -> Nat]
         /\ cur_bbv' \in [Thread -> SUBSET Block]
         /\ cur_lru_hist' \in [Thread -> SUBSET Int]
         /\ synch_count' \in Nat
<1> DEFINE new == [id |-> cur_synch_id[t], name |-> name,
                   bbv |-> cur_bbv[t], hist |-> cur_lru_hist[t]]
<1>1. new \in Region
  BY DEF TypeOK, Region
<1>2. regions' \in [Thread -> SUBSET Region]
  BY <1>1 DEF SaveData, SaveBarrier, Inserted, TypeOK
<1> QED
  BY <1>2 DEF SaveData, SaveBarrier, Inserted, TypeOK

(* What clean_call leaves behind stays in its domain, and it changes neither *)
(* the regions nor any counter.                                              *)
LEMMA ExecuteBlockType ==
  ASSUME TypeOK, NEW t \in Thread, NEW blk \in {"entry", "body"},
         ExecuteBlock(t, blk) \/ SkipBlock
  PROVE  /\ cur_bbv' \in [Thread -> SUBSET Block]
         /\ cur_lru_hist' \in [Thread -> SUBSET Int]
         /\ buf' \in [Thread -> SUBSET Int]
         /\ status' \in {"run", "assert", "null_data", "missing_region",
                         "saved"}
         /\ UNCHANGED <<cur_synch_id, regions, synch_count, roi, birth,
                        in_single, threads>>
<1>1. Now \in Int
  BY DEF Now, Passed, TypeOK
<1>2. [blk |-> blk, at |-> Now] \in Block
  BY <1>1 DEF Block
<1>3. CASE SkipBlock
  BY <1>3 DEF SkipBlock, current, TypeOK
<1>4. CASE ExecuteBlock(t, blk) /\ tls[t]
  <2>1. DrainAndFill(t, blk)
    BY <1>4 DEF ExecuteBlock
  <2>2. cur_bbv' \in [Thread -> SUBSET Block]
    <3> DEFINE b == [blk |-> blk, at |-> Now]
    <3>1. b \in Block
      BY <1>2
    <3>2. \/ cur_bbv' = cur_bbv
          \/ cur_bbv' = [cur_bbv EXCEPT ![t] = cur_bbv[t] \cup {b}]
      BY <2>1 DEF DrainAndFill, AddBb
    <3> HIDE DEF b
    <3> QED
      BY <3>1, <3>2 DEF TypeOK
  <2>3. cur_lru_hist' \in [Thread -> SUBSET Int]
    BY <2>1, ZenonT(30) DEF DrainAndFill, AddAddress, TypeOK
  <2>4. buf' \in [Thread -> SUBSET Int]
    BY <1>1, <2>1 DEF DrainAndFill, TypeOK
  <2> QED
    BY <1>4, <2>1, <2>2, <2>3, <2>4 DEF ExecuteBlock, DrainAndFill, TypeOK
<1>5. CASE ExecuteBlock(t, blk) /\ ~tls[t]
  BY <1>5 DEF ExecuteBlock, current, TypeOK
<1> QED
  BY <1>3, <1>4, <1>5

(* The handlers keep every variable in its domain, whatever the program      *)
(* does: one step per action.                                                *)
LEMMA TypeStep == TypeOK /\ [Next]_vars => TypeOK'
<1> SUFFICES ASSUME TypeOK, [Next]_vars PROVE TypeOK'
  OBVIOUS
<1> USE ThreadAssumption, SwitchAssumption, BoundAssumption
<1> USE DEF TypeOK
<1>1. ASSUME NEW tm \in SUBSET Thread, NEW f \in Fn, Fork(tm, f)
      PROVE  TypeOK'
  BY <1>1 DEF Fork, Keep, roi, current, birth, PcLabel
<1>2. ASSUME NEW s \in Stretch, ReleaseTeam(s)
      PROVE  TypeOK'
  <2>1. script' \in Seq(Name)
    BY <1>2 DEF ReleaseTeam, Name
  <2> QED
    BY <1>2, <2>1 DEF ReleaseTeam, Keep, roi, current, birth, PcLabel
<1>3. ASSUME NEW s \in Stretch, ReleaseBarrier(s)
      PROVE  TypeOK'
  <2>1. script' \in Seq(Name)
    BY <1>3 DEF ReleaseBarrier, Name
  <2> QED
    BY <1>3, <2>1 DEF ReleaseBarrier, Keep, roi, current, birth, PcLabel
<1>4. ASSUME Join
      PROVE  TypeOK'
  BY <1>4 DEF Join, Keep, roi, current, birth, PcLabel
<1>5. ASSUME EndProgram
      PROVE  TypeOK'
  BY <1>5 DEF EndProgram, Keep, roi, current, birth, PcLabel
<1>6. ASSUME NEW t \in Thread, Finish(t) \/ LeavePool(t)
      PROVE  TypeOK'
  BY <1>6, ZenonT(30)
     DEF Finish, LeavePool, Step, Keep, roi, current, birth, PcLabel
<1>7. ASSUME NEW t \in Thread, ThreadInit(t)
      PROVE  TypeOK'
  BY <1>7, ZenonT(30)
     DEF ThreadInit, InitRegistered, FirstId, Step, roi, birth, PcLabel
<1>8. ASSUME NEW t \in Thread, EnterFunction(t)
      PROVE  TypeOK'
  <2>1. ExecuteBlock(t, "entry") \/ SkipBlock
    BY <1>8 DEF EnterFunction
  <2> QED
    BY <1>8, <2>1, ExecuteBlockType
       DEF EnterFunction, Step, roi, birth, PcLabel
<1>9. ASSUME NEW t \in Thread, ResumeBlock(t)
      PROVE  TypeOK'
  <2>1. ExecuteBlock(t, "body") \/ SkipBlock
    BY <1>9 DEF ResumeBlock
  <2> QED
    BY <1>9, <2>1, ExecuteBlockType DEF ResumeBlock, Step, roi, birth, PcLabel
<1>10. ASSUME NEW t \in Thread, BodyBlock(t)
       PROVE  TypeOK'
  BY <1>10, ExecuteBlockType DEF BodyBlock, program, roi, birth
<1>11. ASSUME NEW t \in Thread, EventOmpParallel(t)
       PROVE  TypeOK'
  <2>1. CASE in_roi
    <3>1. SaveData(t, fn) /\ fn \in Name
      BY <1>11, <2>1 DEF EventOmpParallel, Name
    <3> QED
      BY <1>11, <3>1, SaveDataType
         DEF EventOmpParallel, Step, roi, birth, PcLabel
  <2>2. CASE ~in_roi
    BY <1>11, <2>2 DEF EventOmpParallel, Step, roi, current, birth, PcLabel
  <2> QED
    BY <2>1, <2>2
<1>12. ASSUME NEW t \in Thread, EventSingle(t)
       PROVE  TypeOK'
  BY <1>12 DEF EventSingle, Step, roi, current, birth, PcLabel
<1>13. ASSUME NEW t \in Thread, OnBarrier(t)
       PROVE  /\ regions' \in [Thread -> SUBSET Region]
              /\ cur_synch_id' \in [Thread -> Nat]
              /\ cur_bbv' \in [Thread -> SUBSET Block]
              /\ cur_lru_hist' \in [Thread -> SUBSET Int]
              /\ synch_count' \in Nat
              /\ in_single' \in [Thread -> BOOLEAN]
  <2>1. in_single' \in [Thread -> BOOLEAN]
    BY <1>13 DEF OnBarrier
  <2>2. CASE SaveData(t, "GOMP_barrier")
    BY <2>1, <2>2, SaveDataType DEF Name
  <2>3. CASE UNCHANGED current
    BY <2>1, <2>3 DEF current
  <2> QED
    BY <1>13, <2>2, <2>3 DEF OnBarrier
<1>14. ASSUME NEW t \in Thread, EventBarrier(t)
       PROVE  TypeOK'
  <2>1. OnBarrier(t)
    BY <1>14 DEF EventBarrier
  <2> QED
    BY <1>14, <2>1, <1>13 DEF EventBarrier, Step, roi, birth, PcLabel
<1>15. ASSUME SerialBarrier
       PROVE  TypeOK'
  <2>1. OnBarrier(Master)
    BY <1>15 DEF SerialBarrier
  <2>2. script' \in Seq(Name)
    BY <1>15 DEF SerialBarrier, Name
  <2> QED
    BY <1>15, <2>1, <2>2, <1>13 DEF SerialBarrier, roi, birth
<1>16. ASSUME RoiStart
       PROVE  TypeOK'
  BY <1>16 DEF RoiStart, program, current, birth
<1>17. ASSUME RoiEnd
       PROVE  TypeOK'
  <2>1. script' \in Seq(Name)
    BY <1>17 DEF RoiEnd, Name
  <2>2. CASE SaveData(Master, "thread_exit") /\ UNCHANGED status
    BY <1>17, <2>1, <2>2, SaveDataType DEF RoiEnd, birth, Name
  <2>3. CASE status' = "assert" /\ UNCHANGED current
    BY <1>17, <2>1, <2>3 DEF RoiEnd, birth, current
  <2> QED
    BY <1>17, <2>2, <2>3 DEF RoiEnd
<1>18. ASSUME NEW t \in Thread, ThreadExit(t)
       PROVE  TypeOK'
  <2>1. CASE SaveData(t, "thread_exit")
    BY <1>18, <2>1, SaveDataType
       DEF ThreadExit, Step, roi, birth, PcLabel, Name
  <2>2. CASE UNCHANGED current
    BY <1>18, <2>2 DEF ThreadExit, Step, roi, birth, current, PcLabel
  <2> QED
    BY <1>18, <2>1, <2>2 DEF ThreadExit
<1>19. ASSUME EventExit
       PROVE  TypeOK'
  BY <1>19 DEF EventExit, program, roi, current, birth
<1>20. ASSUME UNCHANGED vars
       PROVE  TypeOK'
  BY <1>20 DEF vars, program, roi, current, birth
<1> QED
  BY <1>1, <1>2, <1>3, <1>4, <1>5, <1>6, <1>7, <1>8, <1>9, <1>10, <1>11,
     <1>12, <1>14, <1>15, <1>16, <1>17, <1>18, <1>19, <1>20
     DEF Next, ProgramStep, ThreadStep, Stopped

(* The client's state after dr_client_main is in its domain.                 *)
LEMMA InitType == Init => TypeOK
<1> SUFFICES ASSUME Init PROVE TypeOK
  OBVIOUS
<1>1. [single |-> "none", close |-> "join"] \in Stretch
  BY DEF Stretch
<1>2. pc \in [Thread -> PcLabel] /\ script \in Seq(Name)
  BY DEF Init, PcLabel
<1> QED
  BY <1>1, <1>2 DEF Init, TypeOK

(* The client's data and the program's stay in their domains in every        *)
(* execution.                                                                *)
THEOREM TypeCorrect == Spec => []TypeOK
BY InitType, TypeStep, PTL DEF Spec

-----------------------------------------------------------------------------
(* The master's regions and synch_count.                                     *)

(* The inductive form of MasterComplete: the first thread to be initialised  *)
(* is the master and no other thread ever is; its counter is synch_count;    *)
(* its regions are those of the ids below.                                   *)
MasterInv ==
    /\ first_time_called <=> ~tls[Master]
    /\ first_time_called => /\ pc[Master] = "starting"
                            /\ \A t \in Worker : pc[t] = "unborn"
                            /\ "thread_init" \in registered
                            /\ synch_count = 0
    /\ pc[Master] # "unborn"
    /\ pc[Master] = "starting" => first_time_called
    /\ \A t \in Worker : ~is_master[t]
    /\ tls[Master] => is_master[Master]
    /\ cur_synch_id[Master] = synch_count
    /\ RegionIds(Master) = 0 .. synch_count - 1

(* A save of the master extends its ids by one.                              *)
LEMMA MasterSave ==
  ASSUME TypeOK, MasterInv, tls[Master], NEW name \in Name,
         SaveData(Master, name)
  PROVE  /\ cur_synch_id'[Master] = synch_count'
         /\ RegionIds(Master)' = 0 .. synch_count' - 1
<1> DEFINE new == [id |-> cur_synch_id[Master], name |-> name,
                   bbv |-> cur_bbv[Master], hist |-> cur_lru_hist[Master]]
<1>1. cur_synch_id[Master] = synch_count /\ synch_count \in Nat
  BY DEF MasterInv, TypeOK
<1>2. ~ \E r \in regions[Master] : r.id = cur_synch_id[Master]
  BY <1>1 DEF MasterInv, RegionIds
<1>3. regions'[Master] = regions[Master] \cup {new}
  BY <1>2, ThreadAssumption DEF SaveData, SaveBarrier, Inserted, TypeOK
<1>4. new.id = synch_count
  BY <1>1
<1>5. cur_synch_id'[Master] = synch_count + 1 /\ synch_count' = synch_count + 1
  BY <1>1, ThreadAssumption DEF SaveData, SaveBarrier, Inserted, TypeOK,
                                MasterInv
<1>6. RegionIds(Master)' = RegionIds(Master) \cup {synch_count}
  <2> HIDE DEF new
  <2> QED
    BY <1>3, <1>4 DEF RegionIds
<1> QED
  BY <1>1, <1>5, <1>6 DEF MasterInv

(* A save of a worker leaves the master's data and synch_count alone.        *)
LEMMA WorkerSave ==
  ASSUME TypeOK, MasterInv, NEW t \in Worker, NEW name \in Name,
         SaveData(t, name)
  PROVE  /\ UNCHANGED synch_count
         /\ cur_synch_id'[Master] = cur_synch_id[Master]
         /\ regions'[Master] = regions[Master]
BY ThreadAssumption DEF SaveData, SaveBarrier, Inserted, TypeOK, MasterInv,
                        Worker

(* Either kind of save keeps what MasterInv says of the counts.              *)
LEMMA AnySave ==
  ASSUME TypeOK, MasterInv, tls[Master], NEW t \in Thread, NEW name \in Name,
         SaveData(t, name)
  PROVE  /\ cur_synch_id'[Master] = synch_count'
         /\ RegionIds(Master)' = 0 .. synch_count' - 1
<1>1. CASE t = Master
  BY <1>1, MasterSave
<1>2. CASE t # Master
  <2>1. t \in Worker
    BY <1>2 DEF Worker
  <2> QED
    BY <2>1, WorkerSave DEF MasterInv, RegionIds
<1> QED
  BY <1>1, <1>2

(* Every handler keeps the master's data and synch_count in step.            *)
LEMMA MasterStep == TypeOK /\ MasterInv /\ [Next]_vars => MasterInv'
<1> SUFFICES ASSUME TypeOK, MasterInv, [Next]_vars PROVE MasterInv'
  OBVIOUS
<1> USE ThreadAssumption
<1>1. ASSUME NEW tm \in SUBSET Thread, NEW f \in Fn, Fork(tm, f)
      PROVE  MasterInv'
  BY <1>1 DEF Fork, Keep, roi, current, birth, TypeOK, MasterInv, RegionIds,
     Worker
<1>2. ASSUME NEW s \in Stretch, ReleaseTeam(s) \/ ReleaseBarrier(s)
      PROVE  MasterInv'
  BY <1>2 DEF ReleaseTeam, ReleaseBarrier, Keep, roi, current, birth,
     TypeOK, MasterInv, RegionIds, Worker
<1>3. ASSUME Join \/ EndProgram
      PROVE  MasterInv'
  BY <1>3, SMTT(20) DEF Join, EndProgram, Keep, roi, current, birth,
     TypeOK, MasterInv, RegionIds, Worker
<1>4. ASSUME NEW t \in Thread, Finish(t) \/ LeavePool(t)
      PROVE  MasterInv'
  BY <1>4 DEF Finish, LeavePool, Step, Keep, roi, current, birth,
     TypeOK, MasterInv, RegionIds, Worker
<1>5. ASSUME NEW t \in Thread, ThreadInit(t)
      PROVE  MasterInv'
  <2>1. CASE t = Master
    BY <1>5, <2>1 DEF ThreadInit, InitRegistered, FirstId, Step, roi, birth,
                      TypeOK, MasterInv,
       RegionIds, Worker
  <2>2. CASE t # Master
    BY <1>5, <2>2 DEF ThreadInit, InitRegistered, FirstId, Step, roi, birth,
                      TypeOK, MasterInv,
       RegionIds, Worker
  <2> QED
    BY <2>1, <2>2
<1>6. ASSUME NEW t \in Thread,
             EnterFunction(t) \/ ResumeBlock(t) \/ BodyBlock(t)
      PROVE  MasterInv'
  <2>1. \E blk \in {"entry", "body"} : ExecuteBlock(t, blk) \/ SkipBlock
    BY <1>6 DEF EnterFunction, ResumeBlock, BodyBlock
  <2>2. UNCHANGED <<cur_synch_id, regions, synch_count, roi, birth>>
    BY <2>1, ExecuteBlockType
  <2> QED
    BY <1>6, <2>2 DEF EnterFunction, ResumeBlock, BodyBlock, Step, program,
       roi, birth, TypeOK, MasterInv, RegionIds, Worker
<1>7. ASSUME NEW t \in Thread, EventOmpParallel(t) \/ EventBarrier(t) \/
             (ThreadExit(t) /\ SaveData(t, "thread_exit"))
      PROVE  MasterInv'
  <2>1. tls[Master] /\ UNCHANGED birth /\ UNCHANGED registered
    BY <1>7 DEF EventOmpParallel, EventBarrier, ThreadExit, Step, roi,
       TypeOK, MasterInv, Worker
  <2>2. \/ \E name \in Name : SaveData(t, name)
        \/ UNCHANGED current
    BY <1>7 DEF EventOmpParallel, EventBarrier, ThreadExit, OnBarrier, Name,
       TypeOK
  <2>3. /\ cur_synch_id'[Master] = synch_count'
        /\ RegionIds(Master)' = 0 .. synch_count' - 1
    BY <2>1, <2>2, AnySave DEF MasterInv, current, RegionIds
  <2>4. pc'[Master] \notin {"starting", "unborn"}
    BY <1>7, <2>1 DEF EventOmpParallel, EventBarrier, ThreadExit, Step,
       TypeOK, MasterInv
  <2> QED
    BY <2>1, <2>3, <2>4 DEF birth, MasterInv
<1>8. ASSUME SerialBarrier \/ RoiEnd
      PROVE  MasterInv'
  <2>1. tls[Master] /\ UNCHANGED birth /\ UNCHANGED pc
    BY <1>8 DEF SerialBarrier, RoiEnd, TypeOK, MasterInv
  <2>2. \/ \E name \in Name : SaveData(Master, name)
        \/ UNCHANGED current
    BY <1>8 DEF SerialBarrier, RoiEnd, OnBarrier, Name
  <2>3. /\ cur_synch_id'[Master] = synch_count'
        /\ RegionIds(Master)' = 0 .. synch_count' - 1
    BY <2>1, <2>2, AnySave DEF MasterInv, current, RegionIds
  <2> QED
    BY <2>1, <2>3 DEF birth, MasterInv
<1>9. ASSUME NEW t \in Thread, ThreadExit(t), UNCHANGED current
      PROVE  MasterInv'
  BY <1>9 DEF ThreadExit, Step, roi, birth, current, TypeOK, MasterInv,
     RegionIds, Worker
<1>10. ASSUME NEW t \in Thread, EventSingle(t)
       PROVE  MasterInv'
  BY <1>10 DEF EventSingle, Step, roi, birth, current, TypeOK, MasterInv,
     RegionIds, Worker
<1>11. ASSUME RoiStart
       PROVE  MasterInv'
  BY <1>11 DEF RoiStart, program, birth, current, TypeOK, MasterInv,
     RegionIds
<1>12. ASSUME EventExit \/ UNCHANGED vars
       PROVE  MasterInv'
  BY <1>12 DEF EventExit, vars, program, roi, birth, current, MasterInv,
     RegionIds
<1>13. ASSUME NEW t \in Thread, ThreadExit(t)
       PROVE  SaveData(t, "thread_exit") \/ UNCHANGED current
  BY <1>13 DEF ThreadExit
<1> QED
  BY <1>1, <1>2, <1>3, <1>4, <1>5, <1>6, <1>7, <1>8, <1>9, <1>10, <1>11,
     <1>12, <1>13 DEF Next, ProgramStep, ThreadStep, Stopped

(* Whatever the program does, the master has a region for every value        *)
(* synch_count has had: save_bp_id never misses one.                         *)
THEOREM MasterIsComplete == Spec => []MasterComplete
<1>1. Init => TypeOK /\ MasterInv
  <2>1. Init => MasterInv
    BY ThreadAssumption DEF Init, MasterInv, RegionIds, Worker
  <2> QED
    BY <2>1, InitType
<1>2. (TypeOK /\ MasterInv) /\ [Next]_vars => (TypeOK /\ MasterInv)'
  BY TypeStep, MasterStep
<1>3. MasterInv => MasterComplete
  BY DEF MasterInv, MasterComplete
<1> QED
  BY <1>1, <1>2, <1>3, PTL DEF Spec

-----------------------------------------------------------------------------
(* The alignment of the threads' regions.                                    *)

(* What the program must not do for the regions of its threads to line up.   *)
Misaligning == {"subteam", "serial_barrier", "nowait"}

InTeam  == {"entering", "entered", "body", "tail", "waiting", "resumed",
            "done"}
Gone    == {"exiting", "exited"}
Unready == {"unborn", "starting"}

(* The team is nobody or all the threads that have not left, and they run    *)
(* together.                                                                 *)
TeamInv ==
    /\ team \in {{}, Alive}
    /\ pc[Master] \in InTeam \cup {"forking"} <=> team # {}
    /\ \A t \in Thread :
          pc[t] \in InTeam <=> pc[Master] \in InTeam /\ t \in team
    /\ \A t \in Worker : pc[t] \notin {"serial", "forking"}
    /\ \A t \in Worker : pc[t] = "starting" => pc[Master] = "forking"

(* Before the ROI nothing is counted, and until the whole team is there no   *)
(* point of the ROI is passed: the threads of the pool all count from 0.     *)
StartInv ==
    /\ in_roi \/ roi_has_ended => roi_start_detected
    /\ "thread_exit" \in registered => roi_start_detected
    /\ ~(in_roi /\ roi_has_ended)
    /\ ~roi_start_detected =>
          /\ Passed = 0 /\ synch_count = 0
          /\ \A t \in Thread : cur_synch_id[t] = 0 /\ cur_bbv[t] = {}
    /\ \A t \in Thread : pc[t] \in Unready =>
          /\ cur_synch_id[t] = 0 /\ cur_bbv[t] = {}
          /\ ~roi_has_ended => Passed = 0 /\ synch_count = 0

(* The counter each thread should have, from where it is.                    *)
Expected(t) ==
    CASE pc[t] \in {"entering", "entered"} -> Passed - 1
      [] pc[t] = "waiting" /\ Counted(stretch) -> Passed + 1
      [] OTHER -> Passed

CountInv ==
    in_roi => \A t \in Thread :
                 pc[t] \notin Gone => cur_synch_id[t] = Expected(t)

(* in_single is set exactly between a single and its own barrier.            *)
SingleInv ==
    /\ stretch.single # "nowait"
    /\ stretch.single = "wait" => stretch.close = "barrier"
    /\ \A t \in Thread :
          in_single[t] <=> /\ in_roi /\ IgnoreSingle
                           /\ pc[t] = "tail" /\ stretch.single = "wait"

(* What a thread has counted so far will belong to the region it is in.      *)
BlockInv ==
    \A t \in Thread : \A b \in cur_bbv[t] :
        b.at = IF b.blk = "entry" THEN cur_synch_id[t] + 1
               ELSE cur_synch_id[t]

AlignInv == /\ TypeOK /\ TeamInv /\ StartInv /\ CountInv /\ SingleInv
            /\ BlockInv /\ Aligned

(* The hypothesis of the rest of this module: the program does none of the   *)
(* things that make the threads' regions diverge.                            *)
Plain == Habits \cap Misaligning = {}

(* Every step keeps the team whole: while it runs, all threads are in it,    *)
(* and where each of them is fits the others.                                *)
LEMMA TeamStep ==
  ASSUME Plain, TypeOK, TeamInv, [Next]_vars
  PROVE  TeamInv'
<1> USE ThreadAssumption
<1>1. ASSUME NEW tm \in SUBSET Thread, NEW f \in Fn, Fork(tm, f)
      PROVE  TeamInv'
  <2>1. tm = Alive
    BY <1>1 DEF Fork, Teams, Plain, Misaligning
  <2>2. /\ team' = Alive
        /\ pc[Master] = "serial"
    BY <1>1, <2>1 DEF Fork
  <2>3. \A t \in Thread : pc'[t] =
           IF t = Master THEN "forking"
           ELSE IF pc[t] = "unborn" THEN "starting" ELSE pc[t]
    BY <1>1, <2>1 DEF Fork, Alive
  <2>4. Alive' = Alive
    BY <2>2, <2>3 DEF Alive
  <2>5. Master \in Alive
    BY <2>2 DEF Alive
  <2> QED
    BY <2>2, <2>3, <2>4, <2>5 DEF TypeOK, TeamInv, InTeam, Worker
<1>2. ASSUME NEW s \in Stretch, ReleaseTeam(s)
      PROVE  TeamInv'
  <2>1. team # {} /\ team = Alive /\ Master \in Thread
    BY <1>2 DEF ReleaseTeam, TeamInv
  <2>2. \A t \in Thread : pc'[t] = IF t \in Alive THEN "entering" ELSE pc[t]
    BY <1>2, <2>1 DEF ReleaseTeam
  <2>3. Alive' = Alive
    BY <2>2 DEF Alive
  <2>4. Master \in Alive
    BY <1>2, <2>1 DEF ReleaseTeam, Alive, TeamInv, InTeam
  <2>5. team' = team
    BY <1>2 DEF ReleaseTeam
  <2> QED
    BY <2>1, <2>2, <2>3, <2>4, <2>5 DEF TypeOK, TeamInv, InTeam, Worker, Alive
<1>3. ASSUME NEW s \in Stretch, ReleaseBarrier(s)
      PROVE  TeamInv'
  <2>1. team # {} /\ team = Alive /\ Master \in Thread
    BY <1>3 DEF ReleaseBarrier, TeamInv
  <2>2. \A t \in Thread : pc'[t] = IF t \in Alive THEN "resumed" ELSE pc[t]
    BY <1>3, <2>1 DEF ReleaseBarrier
  <2>3. Alive' = Alive
    BY <2>2 DEF Alive
  <2>4. Master \in Alive
    BY <1>3, <2>1 DEF ReleaseBarrier, Alive, TeamInv, InTeam
  <2>5. team' = team
    BY <1>3 DEF ReleaseBarrier
  <2> QED
    BY <2>1, <2>2, <2>3, <2>4, <2>5 DEF TypeOK, TeamInv, InTeam, Worker, Alive
<1>4. ASSUME Join
      PROVE  TeamInv'
  <2>1. team = Alive /\ team' = {}
    BY <1>4 DEF Join, TeamInv
  <2>2. \A t \in Thread : pc'[t] = IF t = Master THEN "serial"
                                   ELSE IF t \in Alive THEN "docked"
                                   ELSE pc[t]
    BY <1>4, <2>1 DEF Join
  <2> QED
    BY <2>1, <2>2 DEF TypeOK, TeamInv, InTeam, Worker, Alive
<1>5. ASSUME EndProgram
      PROVE  TeamInv'
  BY <1>5 DEF EndProgram, TypeOK, TeamInv, InTeam, Worker
<1>6. ASSUME NEW t \in Thread, NEW from \in PcLabel, NEW to \in PcLabel,
             Step(t, from, to), UNCHANGED team,
             \/ from \in InTeam /\ to \in InTeam
             \/ from \in Gone /\ to \in Gone
             \/ from = "starting" /\ to = IF t = Master THEN "serial"
                                          ELSE "docked"
      PROVE  TeamInv'
  <2>1. Alive' = Alive
    BY <1>6 DEF Step, TypeOK, Alive, InTeam, Gone
  <2> QED
    BY <1>6, <2>1 DEF Step, TypeOK, TeamInv, InTeam, Gone, Worker
<1>7. ASSUME UNCHANGED <<pc, team>>
      PROVE  TeamInv'
  BY <1>7 DEF TeamInv, Alive
<1>8. ASSUME NEW t \in Thread, ThreadStep(t)
      PROVE  TeamInv'
  <2>1. CASE ThreadInit(t)
    BY <2>1, <1>6 DEF ThreadInit, InitRegistered, FirstId, PcLabel
  <2>2. CASE EnterFunction(t)
    BY <2>2, <1>6 DEF EnterFunction, PcLabel, InTeam
  <2>3. CASE EventOmpParallel(t)
    BY <2>3, <1>6 DEF EventOmpParallel, PcLabel, InTeam
  <2>4. CASE ResumeBlock(t)
    BY <2>4, <1>6 DEF ResumeBlock, PcLabel, InTeam
  <2>5. CASE BodyBlock(t)
    BY <2>5, <1>7 DEF BodyBlock, program
  <2>6. CASE EventSingle(t)
    BY <2>6, <1>6 DEF EventSingle, PcLabel, InTeam
  <2>7. CASE EventBarrier(t)
    BY <2>7, <1>6 DEF EventBarrier, PcLabel, InTeam
  <2>8. CASE ThreadExit(t)
    BY <2>8, <1>6 DEF ThreadExit, PcLabel, Gone
  <2> QED
    BY <1>8, <2>1, <2>2, <2>3, <2>4, <2>5, <2>6, <2>7, <2>8 DEF ThreadStep
<1>9. ASSUME NEW t \in Thread, Finish(t)
      PROVE  TeamInv'
  BY <1>9, <1>6 DEF Finish, PcLabel, InTeam
<1>10. ASSUME SerialBarrier \/ RoiStart \/ RoiEnd \/ EventExit
              \/ UNCHANGED vars
       PROVE  TeamInv'
  BY <1>10, <1>7 DEF SerialBarrier, RoiStart, RoiEnd, EventExit, vars,
     program
<1>11. ASSUME NEW t \in Thread, LeavePool(t)
       PROVE  TeamInv'
  <2>1. t \in Alive /\ t \notin team
    BY <1>11 DEF LeavePool, Step, Alive
  <2>2. team = {} /\ team' = {}
    BY <1>11, <2>1 DEF LeavePool, TeamInv
  <2> QED
    BY <1>11, <2>2 DEF LeavePool, Step, TypeOK, TeamInv, InTeam, Worker
<1> QED
  BY <1>1, <1>2, <1>3, <1>4, <1>5, <1>8, <1>9, <1>10, <1>11
     DEF Next, ProgramStep, Stopped

(* The effect of one save on the thread that makes it and on the others.     *)
LEMMA SaveEffect ==
  ASSUME TypeOK, NEW t \in Thread, NEW name \in Name, SaveData(t, name)
  PROVE  /\ \A u \in Thread : u # t =>
              /\ cur_synch_id'[u] = cur_synch_id[u]
              /\ cur_bbv'[u] = cur_bbv[u]
              /\ regions'[u] = regions[u]
         /\ cur_synch_id'[t] = cur_synch_id[t] + 1
         /\ cur_bbv'[t] = {}
         /\ \A r \in regions'[t] :
              \/ r \in regions[t]
              \/ r.id = cur_synch_id[t] /\ r.bbv = cur_bbv[t]
<1> DEFINE new == [id |-> cur_synch_id[t], name |-> name,
                   bbv |-> cur_bbv[t], hist |-> cur_lru_hist[t]]
<1>1. new.id = cur_synch_id[t] /\ new.bbv = cur_bbv[t]
  OBVIOUS
<1>2. \/ regions' = [regions EXCEPT ![t] = regions[t]]
      \/ regions' = [regions EXCEPT ![t] = regions[t] \cup {new}]
  BY DEF SaveData, SaveBarrier, Inserted, TypeOK
<1>3. /\ cur_synch_id' = [cur_synch_id EXCEPT ![t] = cur_synch_id[t] + 1]
      /\ cur_bbv' = [cur_bbv EXCEPT ![t] = {}]
  BY DEF SaveData, SaveBarrier, Inserted, TypeOK
<1> HIDE DEF new
<1> QED
  BY <1>1, <1>2, <1>3 DEF TypeOK

(* The effect of one block: at most one item more, stamped Now.              *)
LEMMA BlockEffect ==
  ASSUME TypeOK, NEW t \in Thread, NEW blk \in {"entry", "body"},
         ExecuteBlock(t, blk) \/ SkipBlock
  PROVE  /\ UNCHANGED <<cur_synch_id, regions, synch_count, roi, in_single>>
         /\ \A u \in Thread : \A b \in cur_bbv'[u] :
              \/ b \in cur_bbv[u]
              \/ u = t /\ in_roi /\ b.blk = blk /\ b.at = Now
<1>1. UNCHANGED <<cur_synch_id, regions, synch_count, roi, in_single>>
  BY ExecuteBlockType
<1> DEFINE new == [blk |-> blk, at |-> Now]
<1>2. new.blk = blk /\ new.at = Now
  OBVIOUS
<1>3. \/ cur_bbv' = cur_bbv
      \/ in_roi /\ cur_bbv' = [cur_bbv EXCEPT ![t] = cur_bbv[t] \cup {new}]
  BY DEF ExecuteBlock, SkipBlock, DrainAndFill, AddBb, current
<1> HIDE DEF new
<1> QED
  BY <1>1, <1>2, <1>3 DEF TypeOK

(* Nothing is counted before the ROI starts, and no thread of a plain        *)
(* program is initialised in the ROI after a point has been passed.          *)
LEMMA StartStep ==
  ASSUME Plain, TypeOK, TeamInv, StartInv, [Next]_vars
  PROVE  StartInv'
<1> USE ThreadAssumption DEF Passed
<1>0. Passed \in Nat
  BY DEF TypeOK
<1>1. ASSUME NEW tm \in SUBSET Thread, NEW f \in Fn, Fork(tm, f)
      PROVE  StartInv'
  BY <1>1 DEF Fork, Keep, roi, current, TypeOK, StartInv, Unready
<1>2. ASSUME NEW s \in Stretch, ReleaseTeam(s)
      PROVE  StartInv'
  <2>1. \A t \in Thread : pc'[t] \notin Unready
    BY <1>2 DEF ReleaseTeam, TypeOK, TeamInv, Alive, Unready
  <2>2. ~roi_start_detected => script' = script
    BY <1>2 DEF ReleaseTeam, StartInv
  <2> QED
    BY <1>2, <2>1, <2>2 DEF ReleaseTeam, Keep, roi, current, StartInv
<1>3. ASSUME NEW s \in Stretch, ReleaseBarrier(s)
      PROVE  StartInv'
  <2>1. \A t \in Thread : pc'[t] \notin Unready
    BY <1>3 DEF ReleaseBarrier, TypeOK, TeamInv, Alive, Unready
  <2>2. ~roi_start_detected => script' = script
    BY <1>3 DEF ReleaseBarrier, StartInv
  <2> QED
    BY <1>3, <2>1, <2>2 DEF ReleaseBarrier, Keep, roi, current, StartInv
<1>4. ASSUME Join \/ EndProgram
      PROVE  StartInv'
  BY <1>4, SMTT(20)
     DEF Join, EndProgram, Keep, roi, current, TypeOK, StartInv, Unready
<1>5. ASSUME NEW t \in Thread, Finish(t) \/ LeavePool(t)
      PROVE  StartInv'
  BY <1>5 DEF Finish, LeavePool, Step, Keep, roi, current, TypeOK, StartInv,
     Unready
<1>6. ASSUME NEW t \in Thread, ThreadInit(t)
      PROVE  StartInv'
  <2>1. /\ pc[t] = "starting"
        /\ UNCHANGED <<script, roi, synch_count>>
        /\ \A u \in Thread : u # t => pc'[u] = pc[u]
        /\ pc'[t] \notin Unready
        /\ pc \in [Thread -> PcLabel]
    BY <1>6 DEF ThreadInit, InitRegistered, FirstId, Step, TypeOK, Unready
  <2>2. \A u \in Thread : u # t => cur_synch_id'[u] = cur_synch_id[u]
                                   /\ cur_bbv'[u] = cur_bbv[u]
    BY <1>6 DEF ThreadInit, InitRegistered, FirstId, TypeOK
  <2>3. \/ cur_synch_id'[t] = synch_count /\ cur_bbv'[t] = {}
        \/ cur_synch_id'[t] = cur_synch_id[t] /\ cur_bbv'[t] = cur_bbv[t]
    BY <1>6 DEF ThreadInit, InitRegistered, FirstId, TypeOK
  <2> QED
    BY <2>1, <2>2, <2>3 DEF StartInv, Unready, roi
<1>7. ASSUME NEW t \in Thread,
             EnterFunction(t) \/ ResumeBlock(t) \/ BodyBlock(t)
      PROVE  StartInv'
  <2>1. PICK blk \in {"entry", "body"} : ExecuteBlock(t, blk) \/ SkipBlock
    BY <1>7 DEF EnterFunction, ResumeBlock, BodyBlock
  <2>2. /\ UNCHANGED <<script, cur_synch_id, synch_count, roi>>
        /\ \A u \in Thread : pc'[u] \in Unready => pc[u] \in Unready /\ u # t
    BY <1>7, <2>1, BlockEffect DEF EnterFunction, ResumeBlock, BodyBlock,
       Step, program, TypeOK, Unready
  <2>3. \A u \in Thread : u # t \/ ~in_roi =>
           \A b \in cur_bbv'[u] : b \in cur_bbv[u]
    BY <2>1, BlockEffect
  <2>4. ASSUME NEW u \in Thread, cur_bbv[u] = {}, u # t \/ ~in_roi
        PROVE  cur_bbv'[u] = {}
    BY <2>3, <2>4
  <2> QED
    BY <2>2, <2>4 DEF StartInv, roi
<1>8. ASSUME NEW t \in Thread, NEW name \in Name, SaveData(t, name),
             UNCHANGED <<roi, script>>, roi_start_detected,
             pc[t] \notin Unready,
             \A u \in Thread : pc'[u] \in Unready => pc[u] \in Unready,
             synch_count' = synch_count
               \/ \A u \in Thread : pc[u] \notin Unready
      PROVE  StartInv'
  BY <1>8, SaveEffect DEF StartInv, roi
<1>9. ASSUME NEW t \in Thread, EventOmpParallel(t) \/ EventBarrier(t)
      PROVE  StartInv'
  <2>1. /\ UNCHANGED <<roi, script>>
        /\ \A u \in Thread : pc[u] \notin Unready
        /\ \A u \in Thread : pc'[u] \notin Unready
    <3>1. team = Alive
      BY <1>9 DEF EventOmpParallel, EventBarrier, Step, TeamInv, InTeam
    <3> QED
      BY <1>9, <3>1 DEF EventOmpParallel, EventBarrier, Step, TypeOK, TeamInv,
         InTeam, Unready, roi, Alive
  <2>2. CASE UNCHANGED current
    BY <2>1, <2>2 DEF StartInv, current, roi
  <2>3. CASE \E name \in Name : SaveData(t, name) /\ in_roi
    BY <2>1, <2>3, <1>8 DEF StartInv
  <2> QED
    BY <1>9, <2>2, <2>3
       DEF EventOmpParallel, EventBarrier, OnBarrier, Name, TypeOK
<1>10. ASSUME NEW t \in Thread, ThreadExit(t)
       PROVE  StartInv'
  <2>1. /\ UNCHANGED <<roi, script>>
        /\ pc[t] \notin Unready
        /\ \A u \in Thread : pc'[u] \in Unready => pc[u] \in Unready /\ u # t
    BY <1>10 DEF ThreadExit, Step, TypeOK, Unready
  <2>2. CASE UNCHANGED current
    BY <2>1, <2>2 DEF StartInv, current, roi
  <2>3. CASE ~UNCHANGED current
    <3>1. "thread_exit" \in registered /\ ~is_master[t]
          /\ SaveData(t, "thread_exit")
      BY <1>10, <2>3 DEF ThreadExit
    <3>2. synch_count' = synch_count
      BY <3>1 DEF SaveData
    <3>3. roi_start_detected
      BY <3>1 DEF StartInv
    <3> QED
      BY <2>1, <3>1, <3>2, <3>3, <1>8 DEF Name
  <2> QED
    BY <2>2, <2>3
<1>11. ASSUME NEW t \in Thread, EventSingle(t)
       PROVE  StartInv'
  BY <1>11 DEF EventSingle, Step, roi, current, TypeOK, StartInv, Unready
<1>12. ASSUME RoiStart
       PROVE  StartInv'
  BY <1>12 DEF RoiStart, program, current, StartInv
<1>13. ASSUME RoiEnd
       PROVE  StartInv'
  <2>1. /\ pc' = pc /\ roi_start_detected /\ roi_start_detected'
        /\ in_roi' = FALSE /\ roi_has_ended' = TRUE
        /\ pc[Master] \notin Unready
    BY <1>13 DEF RoiEnd, Unready
  <2>2. CASE UNCHANGED current
    BY <2>1, <2>2 DEF StartInv, current
  <2>3. CASE SaveData(Master, "thread_exit")
    BY <2>1, <2>3, SaveEffect DEF StartInv, Name
  <2> QED
    BY <1>13, <2>2, <2>3 DEF RoiEnd
<1>14. ASSUME EventExit \/ UNCHANGED vars
       PROVE  StartInv'
  BY <1>14 DEF EventExit, vars, program, roi, current, StartInv
<1>15. ~SerialBarrier
  BY DEF SerialBarrier, Plain, Misaligning
<1> QED
  BY <1>1, <1>2, <1>3, <1>4, <1>5, <1>6, <1>7, <1>9, <1>10, <1>11, <1>12,
     <1>13, <1>14, <1>15 DEF Next, ProgramStep, ThreadStep, Stopped

(* Every step keeps in_single in step with the stretch: it is set between a  *)
(* thread's GOMP_single_start and the barrier of that single, under          *)
(* -ignore_single, and never otherwise.                                      *)
LEMMA SingleStep ==
  ASSUME Plain, TypeOK, TeamInv, StartInv, SingleInv, [Next]_vars
  PROVE  SingleInv'
<1> USE ThreadAssumption
<1>1. \A s \in Stretch : /\ s.single # "nowait"
                         /\ s.single = "wait" => s.close = "barrier"
  BY DEF Stretch, Plain, Misaligning
<1>2. ASSUME NEW tm \in SUBSET Thread, NEW f \in Fn, Fork(tm, f)
      PROVE  SingleInv'
  BY <1>2 DEF Fork, Keep, roi, TypeOK, SingleInv
<1>3. ASSUME NEW s \in Stretch, ReleaseTeam(s) \/ ReleaseBarrier(s)
      PROVE  SingleInv'
  <2>1. team = Alive
    BY <1>3 DEF ReleaseTeam, ReleaseBarrier, TeamInv
  <2>2. \A t \in Thread : pc[t] # "tail" /\ pc'[t] # "tail"
    BY <1>3, <2>1 DEF ReleaseTeam, ReleaseBarrier, TypeOK, Alive
  <2>3. stretch' = s /\ UNCHANGED <<roi, in_single>>
    BY <1>3 DEF ReleaseTeam, ReleaseBarrier, Keep
  <2> QED
    BY <1>1, <2>2, <2>3 DEF SingleInv, roi
<1>4. ASSUME Join \/ EndProgram
      PROVE  SingleInv'
  <2>1. UNCHANGED <<in_roi, in_single, stretch>>
    BY <1>4 DEF Join, EndProgram, Keep, roi
  <2>2. \A u \in Thread : pc'[u] = "tail" <=> pc[u] = "tail"
    <3>1. CASE Join
      <4>1. pc[Master] = "done"
        BY <3>1 DEF Join, TeamInv, Alive, InTeam
      <4>2. \A t \in team : pc[t] = "done"
        BY <3>1 DEF Join
      <4> QED
        BY <3>1, <4>1, <4>2 DEF Join, TypeOK
    <3>2. CASE EndProgram
      BY <3>2 DEF EndProgram
    <3> QED
      BY <1>4, <3>1, <3>2
  <2> QED
    BY <2>1, <2>2 DEF SingleInv
<1>5. ASSUME NEW t \in Thread, Finish(t) \/ LeavePool(t)
      PROVE  SingleInv'
  BY <1>5 DEF Finish, LeavePool, Step, Keep, roi, TypeOK, SingleInv
<1>6. ASSUME NEW t \in Thread, ThreadInit(t)
      PROVE  SingleInv'
  BY <1>6 DEF ThreadInit, InitRegistered, FirstId, Step, roi, TypeOK, SingleInv
<1>7. ASSUME NEW t \in Thread,
             EnterFunction(t) \/ ResumeBlock(t) \/ BodyBlock(t)
      PROVE  SingleInv'
  <2>1. UNCHANGED <<roi, in_single, stretch>>
    BY <1>7, BlockEffect
       DEF EnterFunction, ResumeBlock, BodyBlock, program
  <2>2. \A u \in Thread : pc'[u] = "tail" <=> pc[u] = "tail"
    BY <1>7 DEF EnterFunction, ResumeBlock, BodyBlock, Step, program, TypeOK
  <2>3. in_roi' = in_roi /\ in_single' = in_single /\ stretch' = stretch
    BY <2>1 DEF roi
  <2> QED
    BY <2>2, <2>3 DEF SingleInv
<1>8. ASSUME NEW t \in Thread, EventOmpParallel(t) \/ ThreadExit(t)
      PROVE  SingleInv'
  BY <1>8 DEF EventOmpParallel, ThreadExit, Step, roi, TypeOK, SingleInv
<1>9. ASSUME NEW t \in Thread, EventSingle(t)
      PROVE  SingleInv'
  <2>1. /\ UNCHANGED <<stretch, in_roi>>
        /\ pc'[t] = "tail" /\ pc[t] = "body"
        /\ \A u \in Thread : u # t => pc'[u] = pc[u]
        /\ stretch.single = "wait"
    BY <1>9 DEF EventSingle, Step, roi, TypeOK, Stretch, SingleInv
  <2>2. \A u \in Thread : u # t => in_single'[u] = in_single[u]
    BY <1>9 DEF EventSingle, TypeOK
  <2>3. in_single'[t] <=> in_roi /\ IgnoreSingle
    <3>1. CASE in_roi /\ IgnoreSingle
      BY <1>9, <3>1 DEF EventSingle, TypeOK
    <3>2. CASE ~(in_roi /\ IgnoreSingle)
      <4>1. in_single'[t] = in_single[t]
        BY <1>9, <3>2 DEF EventSingle
      <4> QED
        BY <2>1, <3>2, <4>1 DEF SingleInv
    <3> QED
      BY <3>1, <3>2
  <2> QED
    BY <2>1, <2>2, <2>3 DEF SingleInv
<1>10. ASSUME NEW t \in Thread, EventBarrier(t)
       PROVE  SingleInv'
  BY <1>10 DEF EventBarrier, OnBarrier, Step, roi, TypeOK, SingleInv
<1>11. ASSUME RoiStart \/ RoiEnd
       PROVE  SingleInv'
  <2>1. /\ UNCHANGED <<stretch, in_single>>
        /\ \A u \in Thread : pc[u] # "tail" /\ pc'[u] # "tail"
    BY <1>11 DEF RoiStart, RoiEnd, program, TypeOK, TeamInv, InTeam
  <2> QED
    BY <2>1 DEF SingleInv
<1>12. ASSUME EventExit \/ UNCHANGED vars
       PROVE  SingleInv'
  BY <1>12 DEF EventExit, vars, program, roi, SingleInv
<1>13. ~SerialBarrier
  BY DEF SerialBarrier, Plain, Misaligning
<1> QED
  BY <1>2, <1>3, <1>4, <1>5, <1>6, <1>7, <1>8, <1>9, <1>10, <1>11, <1>12,
     <1>13 DEF Next, ProgramStep, ThreadStep, Stopped

(* Every step keeps each thread's id at the number of points that the        *)
(* program has passed, or one short of it while the thread is on its way to  *)
(* the callback.                                                             *)
LEMMA CountStep ==
  ASSUME Plain, TypeOK, TeamInv, StartInv, SingleInv, CountInv, [Next]_vars
  PROVE  CountInv'
<1> USE ThreadAssumption
<1>0. Passed \in Nat
  BY DEF TypeOK, Passed
<1>1. ASSUME NEW tm \in SUBSET Thread, NEW f \in Fn, Fork(tm, f)
      PROVE  CountInv'
  BY <1>1 DEF Fork, Keep, roi, current, TypeOK, CountInv, Expected, Passed,
     Counted, Gone
<1>2. ASSUME NEW s \in Stretch, ReleaseTeam(s)
      PROVE  CountInv'
  <2>1. team = Alive
    BY <1>2 DEF ReleaseTeam, TeamInv
  <2>2. ASSUME in_roi, NEW t \in Alive
        PROVE  cur_synch_id[t] = Passed
    <3>1. pc[t] \in {"docked", "forking"}
      BY <1>2, <2>1 DEF ReleaseTeam
    <3> QED
      BY <2>2, <3>1 DEF CountInv, Expected, Gone, Alive
  <2>3. in_roi => Passed' = Passed + 1
    BY <1>2 DEF ReleaseTeam, Passed, TypeOK, Name
  <2>4. /\ UNCHANGED <<in_roi, cur_synch_id>>
        /\ \A t \in Alive : pc'[t] = "entering"
        /\ \A t \in Thread \ Alive : pc'[t] \in Gone
    BY <1>2, <2>1 DEF ReleaseTeam, Keep, roi, current, Alive, Gone
  <2> QED
    BY <1>0, <2>2, <2>3, <2>4 DEF CountInv, Expected, Alive
<1>3. ASSUME NEW s \in Stretch, ReleaseBarrier(s)
      PROVE  CountInv'
  <2>1. team = Alive
    BY <1>3 DEF ReleaseBarrier, TeamInv
  <2>2. in_roi => Passed' = IF Counted(stretch) THEN Passed + 1 ELSE Passed
    BY <1>3 DEF ReleaseBarrier, Passed, TypeOK, Name
  <2>3. ASSUME in_roi, NEW t \in Alive
        PROVE  cur_synch_id[t] = Passed'
    <3>1. pc[t] = "waiting"
      BY <1>3, <2>1 DEF ReleaseBarrier
    <3> QED
      BY <2>2, <2>3, <3>1 DEF CountInv, Expected, Gone, Alive
  <2>4. /\ UNCHANGED <<in_roi, cur_synch_id>>
        /\ \A t \in Alive : pc'[t] = "resumed"
        /\ \A t \in Thread \ Alive : pc'[t] \in Gone
    BY <1>3, <2>1 DEF ReleaseBarrier, Keep, roi, current, Alive, Gone
  <2> QED
    BY <2>3, <2>4 DEF CountInv, Expected, Alive
<1>4. ASSUME Join \/ EndProgram
      PROVE  CountInv'
  <2>1. UNCHANGED <<in_roi, cur_synch_id, script, stretch>>
    BY <1>4 DEF Join, EndProgram, Keep, roi, current
  <2>2. \A t \in Thread : \/ pc'[t] \in Gone
                          \/ pc'[t] = pc[t]
                          \/ /\ pc[t] = "done"
                             /\ pc'[t] \in {"serial", "docked"}
    <3>1. CASE Join
      <4>1. pc[Master] = "done"
        BY <3>1 DEF Join, TeamInv, Alive, InTeam
      <4>2. \A t \in team : pc[t] = "done"
        BY <3>1 DEF Join
      <4> QED
        BY <3>1, <4>1, <4>2 DEF Join, TypeOK
    <3>2. CASE EndProgram
      BY <3>2 DEF EndProgram, Gone
    <3> QED
      BY <1>4, <3>1, <3>2
  <2> QED
    BY <2>1, <2>2 DEF CountInv, Expected, Passed, Gone
<1>5. ASSUME NEW t \in Thread,
             Finish(t) \/ EventSingle(t) \/ LeavePool(t)
      PROVE  CountInv'
  BY <1>5, ZenonT(30) DEF Finish, EventSingle, LeavePool, Step, Keep, roi,
     current, TypeOK, CountInv, Expected, Passed, Gone
<1>6. ASSUME NEW t \in Thread, ThreadInit(t)
      PROVE  CountInv'
  <2>1. /\ pc[t] = "starting"
        /\ UNCHANGED <<script, stretch, in_roi>>
        /\ pc'[t] \in {"serial", "docked"}
        /\ \A u \in Thread : u # t => pc'[u] = pc[u]
                                      /\ cur_synch_id'[u] = cur_synch_id[u]
        /\ cur_synch_id'[t] \in {synch_count, cur_synch_id[t]}
    BY <1>6 DEF ThreadInit, InitRegistered, FirstId, Step, roi, TypeOK
  <2>2. in_roi => cur_synch_id'[t] = Passed
    BY <2>1 DEF StartInv, Unready
  <2> QED
    BY <2>1, <2>2 DEF CountInv, Expected, Passed, Gone
<1>7. ASSUME NEW t \in Thread,
             EnterFunction(t) \/ ResumeBlock(t) \/ BodyBlock(t)
      PROVE  CountInv'
  <2>1. UNCHANGED <<in_roi, cur_synch_id, script, stretch>>
    BY <1>7, BlockEffect
       DEF EnterFunction, ResumeBlock, BodyBlock, program, roi
  <2>2. \A u \in Thread : \/ pc'[u] = pc[u]
                          \/ pc[u] = "entering" /\ pc'[u] = "entered"
                          \/ pc[u] = "resumed" /\ pc'[u] = "body"
    BY <1>7 DEF EnterFunction, ResumeBlock, BodyBlock, Step, program, TypeOK
  <2> QED
    BY <2>1, <2>2 DEF CountInv, Expected, Passed, Gone
<1>8. ASSUME NEW t \in Thread, EventOmpParallel(t)
      PROVE  CountInv'
  <2>1. /\ UNCHANGED <<in_roi, script, stretch>>
        /\ pc[t] = "entered" /\ pc'[t] = "body"
        /\ \A u \in Thread : u # t => pc'[u] = pc[u]
    BY <1>8 DEF EventOmpParallel, Step, roi, TypeOK
  <2>2. ASSUME in_roi
        PROVE  /\ cur_synch_id'[t] = Passed
               /\ \A u \in Thread : u # t => cur_synch_id'[u] = cur_synch_id[u]
    <3>1. SaveData(t, fn) /\ fn \in Name
      BY <1>8, <2>2 DEF EventOmpParallel, TypeOK, Name
    <3>2. cur_synch_id[t] = Passed - 1
      BY <2>1, <2>2 DEF CountInv, Expected, Gone
    <3> QED
      BY <1>0, <3>1, <3>2, SaveEffect
  <2> QED
    BY <2>1, <2>2 DEF CountInv, Expected, Passed, Gone
<1>9. ASSUME NEW t \in Thread, EventBarrier(t)
      PROVE  CountInv'
  <2>1. /\ UNCHANGED <<in_roi, script, stretch>>
        /\ pc[t] = IF stretch.single = "none" THEN "body" ELSE "tail"
        /\ stretch.close = "barrier"
        /\ pc'[t] = "waiting"
        /\ \A u \in Thread : u # t => pc'[u] = pc[u]
    BY <1>9 DEF EventBarrier, Step, roi, TypeOK
  <2>2. ASSUME in_roi
        PROVE  in_single[t] <=> ~Counted(stretch)
    BY <2>1, <2>2 DEF SingleInv, Counted, TypeOK, Stretch
  <2>3. ASSUME in_roi
        PROVE  cur_synch_id[t] = Passed
    BY <2>1, <2>3 DEF CountInv, Expected, Gone
  <2>4. ASSUME in_roi
        PROVE  /\ cur_synch_id'[t] = IF Counted(stretch) THEN Passed + 1
                                     ELSE Passed
               /\ \A u \in Thread : u # t => cur_synch_id'[u] = cur_synch_id[u]
    <3>1. CASE Counted(stretch)
      <4>1. SaveData(t, "GOMP_barrier")
        BY <1>9, <2>2, <2>4, <3>1 DEF EventBarrier, OnBarrier
      <4> QED
        BY <2>3, <2>4, <3>1, <4>1, SaveEffect DEF Name
    <3>2. CASE ~Counted(stretch)
      BY <1>9, <2>2, <2>3, <2>4, <3>2 DEF EventBarrier, OnBarrier, current
    <3> QED
      BY <3>1, <3>2
  <2> QED
    BY <2>1, <2>4 DEF CountInv, Expected, Passed, Gone, Counted
<1>10. ASSUME NEW t \in Thread, ThreadExit(t)
       PROVE  CountInv'
  <2>1. /\ UNCHANGED <<in_roi, script, stretch>>
        /\ pc'[t] \in Gone
        /\ \A u \in Thread : u # t => pc'[u] = pc[u]
    BY <1>10 DEF ThreadExit, Step, roi, TypeOK, Gone
  <2>2. \A u \in Thread : u # t => cur_synch_id'[u] = cur_synch_id[u]
    <3>1. CASE UNCHANGED current
      BY <3>1 DEF current
    <3>2. CASE SaveData(t, "thread_exit")
      BY <3>2, SaveEffect DEF Name
    <3> QED
      BY <1>10, <3>1, <3>2 DEF ThreadExit
  <2> QED
    BY <2>1, <2>2 DEF CountInv, Expected, Passed, Gone
<1>11. ASSUME RoiStart
       PROVE  CountInv'
  <2>1. UNCHANGED <<pc, script, stretch, cur_synch_id>>
    BY <1>11 DEF RoiStart, program, current
  <2>2. CASE roi_start_detected
    BY <1>11, <2>1, <2>2 DEF RoiStart, CountInv, Expected, Passed
  <2>3. CASE ~roi_start_detected
    <3>1. \A t \in Thread : pc[t] \notin InTeam
      BY <1>11 DEF RoiStart, TeamInv, InTeam
    <3>2. \A t \in Thread : cur_synch_id[t] = Passed
      BY <2>3 DEF StartInv
    <3> QED
      BY <2>1, <3>1, <3>2 DEF CountInv, Expected, Passed, InTeam
  <2> QED
    BY <2>2, <2>3
<1>12. ASSUME RoiEnd
       PROVE  CountInv'
  BY <1>12 DEF RoiEnd, CountInv
<1>13. ASSUME EventExit \/ UNCHANGED vars
       PROVE  CountInv'
  BY <1>13 DEF EventExit, vars, program, roi, current, CountInv, Expected,
     Passed
<1>14. ~SerialBarrier
  BY DEF SerialBarrier, Plain, Misaligning
<1> QED
  BY <1>1, <1>2, <1>3, <1>4, <1>5, <1>6, <1>7, <1>8, <1>9, <1>10, <1>11,
     <1>12, <1>13, <1>14 DEF Next, ProgramStep, ThreadStep, Stopped

(* A block is counted in the region its thread is in: this is where the      *)
(* counters' agreement with the program is used.                             *)
LEMMA BlockStep ==
  ASSUME Plain, TypeOK, TeamInv, StartInv, CountInv, BlockInv, Aligned,
         [Next]_vars
  PROVE  BlockInv' /\ Aligned'
<1> USE ThreadAssumption
<1>1. ASSUME UNCHANGED <<cur_bbv, cur_synch_id, regions>>
      PROVE  BlockInv' /\ Aligned'
  BY <1>1 DEF BlockInv, Aligned
<1>2. ASSUME NEW t \in Thread, NEW name \in Name, SaveData(t, name)
      PROVE  BlockInv' /\ Aligned'
  <2>1. BlockInv'
    BY <1>2, SaveEffect DEF BlockInv
  <2>2. ASSUME NEW u \in Thread, NEW r \in regions'[u], NEW b \in r.bbv
        PROVE  b.at = IF b.blk = "entry" THEN r.id + 1 ELSE r.id
    <3>1. CASE r \in regions[u]
      BY <3>1 DEF Aligned
    <3>2. CASE u = t /\ r.id = cur_synch_id[t] /\ r.bbv = cur_bbv[t]
      BY <3>2 DEF BlockInv
    <3> QED
      BY <1>2, <3>1, <3>2, SaveEffect
  <2> QED
    BY <2>1, <2>2 DEF Aligned
<1>3. ASSUME NEW t \in Thread,
             EnterFunction(t) \/ ResumeBlock(t) \/ BodyBlock(t)
      PROVE  BlockInv' /\ Aligned'
  <2>1. PICK blk \in {"entry", "body"} :
          /\ ExecuteBlock(t, blk) \/ SkipBlock
          /\ IF blk = "entry" THEN pc[t] = "entering"
             ELSE pc[t] \in {"serial", "body", "tail", "resumed"}
    BY <1>3 DEF EnterFunction, ResumeBlock, BodyBlock, Step
  <2>2. in_roi => Now = IF blk = "entry" THEN cur_synch_id[t] + 1
                        ELSE cur_synch_id[t]
    <3> SUFFICES ASSUME in_roi
                 PROVE  Now = IF blk = "entry" THEN cur_synch_id[t] + 1
                              ELSE cur_synch_id[t]
      OBVIOUS
    <3>1. Now = Passed /\ Passed \in Nat
      BY DEF Now, StartInv, Passed, TypeOK
    <3>2. pc[t] \notin Gone => cur_synch_id[t] = Expected(t)
      BY DEF CountInv
    <3>3. CASE blk = "entry"
      <4>1. cur_synch_id[t] = Passed - 1
        BY <2>1, <3>2, <3>3 DEF Expected, Gone
      <4> QED
        BY <3>1, <3>3, <4>1
    <3>4. CASE blk # "entry"
      <4>1. cur_synch_id[t] = Passed
        BY <2>1, <3>2, <3>4 DEF Expected, Gone
      <4> QED
        BY <3>1, <3>4, <4>1
    <3> QED
      BY <3>3, <3>4
  <2>3. UNCHANGED <<cur_synch_id, regions>>
    BY <2>1, BlockEffect
  <2>4. ASSUME NEW u \in Thread, NEW b \in cur_bbv'[u]
        PROVE  b.at = IF b.blk = "entry" THEN cur_synch_id[u] + 1
                      ELSE cur_synch_id[u]
    <3>1. CASE b \in cur_bbv[u]
      BY <3>1 DEF BlockInv
    <3>2. CASE u = t /\ in_roi /\ b.blk = blk /\ b.at = Now
      BY <2>2, <3>2
    <3> QED
      BY <2>1, <3>1, <3>2, BlockEffect
  <2> QED
    BY <2>3, <2>4 DEF BlockInv, Aligned
<1>4. ASSUME NEW t \in Thread, ThreadInit(t)
      PROVE  BlockInv' /\ Aligned'
  <2>1. \A u \in Thread : \/ /\ cur_bbv'[u] = cur_bbv[u]
                             /\ cur_synch_id'[u] = cur_synch_id[u]
                             /\ regions'[u] = regions[u]
                          \/ cur_bbv'[u] = {} /\ regions'[u] = {}
    BY <1>4 DEF ThreadInit, InitRegistered, FirstId, TypeOK
  <2> QED
    BY <2>1 DEF BlockInv, Aligned
<1>5. ASSUME NEW t \in Thread,
             EventOmpParallel(t) \/ EventBarrier(t) \/ ThreadExit(t)
      PROVE  \/ UNCHANGED <<cur_bbv, cur_synch_id, regions>>
             \/ \E name \in Name : SaveData(t, name)
  BY <1>5 DEF EventOmpParallel, EventBarrier, ThreadExit, OnBarrier, current,
     Name, TypeOK
<1>6. ASSUME RoiEnd
      PROVE  \/ UNCHANGED <<cur_bbv, cur_synch_id, regions>>
             \/ SaveData(Master, "thread_exit")
  BY <1>6 DEF RoiEnd, current
<1>7. ASSUME NEW t \in Thread,
             Finish(t) \/ EventSingle(t) \/ LeavePool(t)
      PROVE  UNCHANGED <<cur_bbv, cur_synch_id, regions>>
  BY <1>7 DEF Finish, EventSingle, LeavePool, Keep, current
<1>8. ASSUME \/ \E tm \in SUBSET Thread, f \in Fn : Fork(tm, f)
             \/ \E s \in Stretch : ReleaseTeam(s) \/ ReleaseBarrier(s)
             \/ Join \/ EndProgram \/ RoiStart \/ EventExit \/ UNCHANGED vars
      PROVE  UNCHANGED <<cur_bbv, cur_synch_id, regions>>
  BY <1>8 DEF Fork, ReleaseTeam, ReleaseBarrier, Join, EndProgram, RoiStart,
     EventExit, vars, Keep, current
<1>9. ~SerialBarrier
  BY DEF SerialBarrier, Plain, Misaligning
<1>10. "thread_exit" \in Name
  BY DEF Name
<1> QED
  BY <1>1, <1>2, <1>3, <1>4, <1>5, <1>6, <1>7, <1>8, <1>9, <1>10
     DEF Next, ProgramStep, ThreadStep, Stopped

(* Before anything has run, nothing is out of line.                          *)
LEMMA AlignInit == Init => AlignInv
<1> SUFFICES ASSUME Init PROVE AlignInv
  OBVIOUS
<1>1. TypeOK
  BY InitType
<1>2. TeamInv /\ StartInv
  BY ThreadAssumption
     DEF Init, TeamInv, StartInv, InTeam, Gone, Unready, Worker, Passed
<1>3. CountInv /\ SingleInv /\ BlockInv /\ Aligned
  BY DEF Init, CountInv, SingleInv, BlockInv, Aligned
<1> QED
  BY <1>1, <1>2, <1>3 DEF AlignInv

(* If the teams have all the threads there are, no barrier is reached        *)
(* outside a parallel region and no single is nowait, then region k of every *)
(* thread holds what ran after k synchronisation points of the program, up   *)
(* to the first block of an outlined function, which is found one region     *)
(* early.  Behaviour of save_data, called by each thread on its own.         *)
THEOREM RegionsAligned ==
  ASSUME Plain
  PROVE  Spec => []Aligned
<1>1. Init => AlignInv
  BY AlignInit
<1>2. AlignInv /\ [Next]_vars => AlignInv'
  BY TypeStep, TeamStep, StartStep, CountStep, SingleStep, BlockStep
     DEF AlignInv
<1>3. AlignInv => Aligned
  BY DEF AlignInv
<1> QED
  BY <1>1, <1>2, <1>3, PTL DEF Spec

-----------------------------------------------------------------------------
(***************************************************************************)
(* What the client's threads save is never lost, for any program; if no    *)
(* thread is created after the region of interest, no handler meets a      *)
(* thread without data; and if the program is plain and no worker leaves   *)
(* the pool, every region has the name of its synchronisation point.       *)
(*                                                                         *)
(* How far the counter of a worker can be from the master's, whatever the  *)
(* program does: teams of some of the threads, barriers outside of them,   *)
(* threads that come late or leave early.  Only "single nowait" is         *)
(* excluded, and that only under -ignore_single: in_single then outlives   *)
(* the stretch it was set in.                                              *)
(***************************************************************************)
----------------------------------------------------------------------------
(* No region is lost.                                                      *)

\* unordered_map::insert finds the counter's id free.
IdsInv ==
  /\ \A t \in Thread : \A r \in regions[t] : r.id < cur_synch_id[t]
  /\ \A t \in Thread : tls[t] => pc[t] \notin Unready

\* The three kinds of steps that the saved data can see.
LEMMA StepKinds ==
  ASSUME TypeOK, [Next]_vars
  PROVE  \/ UNCHANGED <<cur_synch_id, regions>>
         \/ \E t \in Thread : \E name \in Name : SaveData(t, name)
         \/ \E t \in Thread : ThreadInit(t)
<1>1. ASSUME NEW t \in Thread,
             EnterFunction(t) \/ ResumeBlock(t) \/ BodyBlock(t)
      PROVE  UNCHANGED <<cur_synch_id, regions>>
  <2>1. \E blk \in {"entry", "body"} : ExecuteBlock(t, blk) \/ SkipBlock
    BY <1>1 DEF EnterFunction, ResumeBlock, BodyBlock
  <2> QED
    BY <2>1, BlockEffect
<1>2. ASSUME NEW t \in Thread,
             EventOmpParallel(t) \/ EventBarrier(t) \/ ThreadExit(t)
      PROVE  \/ UNCHANGED <<cur_synch_id, regions>>
             \/ \E name \in Name : SaveData(t, name)
  BY <1>2 DEF EventOmpParallel, EventBarrier, ThreadExit, OnBarrier, current,
     Name, TypeOK
<1>3. ASSUME RoiEnd \/ SerialBarrier
      PROVE  \/ UNCHANGED <<cur_synch_id, regions>>
             \/ \E name \in Name : SaveData(Master, name)
  BY <1>3 DEF RoiEnd, SerialBarrier, OnBarrier, current, Name
<1>4. ASSUME NEW t \in Thread, Finish(t) \/ EventSingle(t) \/ LeavePool(t)
      PROVE  UNCHANGED <<cur_synch_id, regions>>
  BY <1>4 DEF Finish, EventSingle, LeavePool, Keep, current
<1>5. ASSUME \/ \E tm \in SUBSET Thread, f \in Fn : Fork(tm, f)
             \/ \E s \in Stretch : ReleaseTeam(s) \/ ReleaseBarrier(s)
             \/ Join \/ EndProgram \/ RoiStart \/ EventExit \/ UNCHANGED vars
      PROVE  UNCHANGED <<cur_synch_id, regions>>
  BY <1>5 DEF Fork, ReleaseTeam, ReleaseBarrier, Join, EndProgram, RoiStart,
     EventExit, vars, Keep, current
<1> QED
  BY <1>1, <1>2, <1>3, <1>4, <1>5, ThreadAssumption
     DEF Next, ProgramStep, ThreadStep, Stopped

\* save_barrier adds a region with the counter's id.
LEMMA SaveAdds ==
  ASSUME TypeOK, IdsInv, NEW t \in Thread, NEW name \in Name,
         SaveData(t, name)
  PROVE  /\ \A u \in Thread : regions[u] \subseteq regions'[u]
         /\ \A u \in Thread : u # t =>
              cur_synch_id'[u] = cur_synch_id[u] /\ regions'[u] = regions[u]
         /\ cur_synch_id'[t] = cur_synch_id[t] + 1
         /\ \E r \in regions'[t] \ regions[t] :
              r.id = cur_synch_id[t] /\ r.name = name
         /\ \A r \in regions'[t] :
              \/ r \in regions[t]
              \/ r.id = cur_synch_id[t] /\ r.name = name
<1> DEFINE new == [id |-> cur_synch_id[t], name |-> name,
                   bbv |-> cur_bbv[t], hist |-> cur_lru_hist[t]]
<1>1. new.id = cur_synch_id[t] /\ new.name = name
  OBVIOUS
<1>2. ~ \E r \in regions[t] : r.id = cur_synch_id[t]
  BY DEF IdsInv, TypeOK, Region
<1>3. /\ regions' = [regions EXCEPT ![t] = regions[t] \cup {new}]
      /\ cur_synch_id' = [cur_synch_id EXCEPT ![t] = cur_synch_id[t] + 1]
  BY <1>2 DEF SaveData, SaveBarrier, Inserted, TypeOK
<1> HIDE DEF new
<1>4. new \in regions'[t] \ regions[t]
  BY <1>1, <1>2, <1>3 DEF TypeOK
<1> QED
  BY <1>1, <1>3, <1>4 DEF TypeOK

\* A thread is initialised once.
LEMMA BornStep ==
  ASSUME TypeOK, IdsInv, [Next]_vars
  PROVE  /\ \A t \in Thread : tls[t] => tls'[t]
         /\ \A t \in Thread : tls'[t] => pc'[t] \notin Unready
<1> USE DEF IdsInv, TypeOK, Unready
<1>1. ASSUME NEW tm \in SUBSET Thread, NEW f \in Fn, Fork(tm, f)
      PROVE  /\ UNCHANGED tls
             /\ \A t \in Thread : tls[t] => pc'[t] \notin Unready
  BY <1>1, ThreadAssumption DEF Fork, Keep, birth
<1>2. ASSUME NEW t \in Thread, ThreadInit(t)
      PROVE  /\ \A u \in Thread : tls[u] => tls'[u]
             /\ \A u \in Thread : tls'[u] => pc'[u] \notin Unready
  BY <1>2 DEF ThreadInit, Step, birth
<1>3. ASSUME NEW t \in Thread,
             EnterFunction(t) \/ ResumeBlock(t) \/ BodyBlock(t)
      PROVE  /\ UNCHANGED tls
             /\ \A u \in Thread : tls[u] => pc'[u] \notin Unready
  BY <1>3 DEF EnterFunction, ResumeBlock, BodyBlock, ExecuteBlock, SkipBlock,
     Step, birth, program
<1>4. ASSUME NEW t \in Thread,
             \/ EventOmpParallel(t) \/ EventBarrier(t) \/ ThreadExit(t)
             \/ EventSingle(t) \/ Finish(t) \/ LeavePool(t)
      PROVE  /\ UNCHANGED tls
             /\ \A u \in Thread : tls[u] => pc'[u] \notin Unready
  BY <1>4 DEF EventOmpParallel, EventBarrier, ThreadExit, EventSingle, Finish,
     LeavePool, Step, Keep, birth
<1>5. ASSUME \/ \E s \in Stretch : ReleaseTeam(s) \/ ReleaseBarrier(s)
             \/ Join \/ EndProgram
      PROVE  /\ UNCHANGED tls
             /\ \A u \in Thread : tls[u] => pc'[u] \notin Unready
  BY <1>5 DEF ReleaseTeam, ReleaseBarrier, Join, EndProgram, Keep, birth
<1>6. ASSUME RoiEnd \/ SerialBarrier \/ RoiStart \/ EventExit
             \/ UNCHANGED vars
      PROVE  UNCHANGED <<tls, pc>>
  BY <1>6 DEF RoiEnd, SerialBarrier, RoiStart, EventExit, vars, birth, program
<1> QED
  BY <1>1, <1>2, <1>3, <1>4, <1>5, <1>6
     DEF Next, ProgramStep, ThreadStep, Stopped

\* The ids of a thread stay below its counter, and no step loses a region.
LEMMA IdsStep ==
  ASSUME TypeOK, IdsInv, [Next]_vars
  PROVE  /\ IdsInv'
         /\ \A t \in Thread : tls[t] =>
              /\ regions[t] \subseteq regions'[t]
              /\ cur_synch_id'[t] # cur_synch_id[t] =>
                   \E r \in regions'[t] \ regions[t] :
                     r.id = cur_synch_id[t]
<1>1. CASE UNCHANGED <<cur_synch_id, regions>>
  BY <1>1, BornStep DEF IdsInv
<1>2. ASSUME NEW t \in Thread, NEW name \in Name, SaveData(t, name)
      PROVE  /\ \A u \in Thread : \A r \in regions'[u] :
                  r.id < cur_synch_id'[u]
             /\ \A u \in Thread :
                  /\ regions[u] \subseteq regions'[u]
                  /\ cur_synch_id'[u] # cur_synch_id[u] =>
                       \E r \in regions'[u] \ regions[u] :
                         r.id = cur_synch_id[u]
  <2>1. cur_synch_id[t] \in Nat /\ \A r \in regions[t] : r.id \in Nat
    BY DEF TypeOK, Region
  <2>2. \A r \in regions'[t] : r.id < cur_synch_id'[t]
    BY <1>2, <2>1, SaveAdds DEF IdsInv
  <2>3. \A u \in Thread : u # t =>
          \A r \in regions'[u] : r.id < cur_synch_id'[u]
    BY <1>2, SaveAdds DEF IdsInv
  <2> QED
    BY <1>2, <2>2, <2>3, SaveAdds
<1>3. ASSUME NEW t \in Thread, ThreadInit(t)
      PROVE  /\ ~tls[t]
             /\ \A u \in Thread :
                  \/ /\ cur_synch_id'[u] = cur_synch_id[u]
                     /\ regions'[u] = regions[u]
                  \/ u = t /\ regions'[u] = {}
  <2>1. ~tls[t]
    BY <1>3 DEF ThreadInit, Step, IdsInv, Unready
  <2> QED
    BY <1>3, <2>1 DEF ThreadInit, TypeOK
<1>4. CASE \E t \in Thread : ThreadInit(t)
  BY <1>3, <1>4, BornStep DEF IdsInv
<1>5. CASE \E t \in Thread : \E name \in Name : SaveData(t, name)
  BY <1>2, <1>5, BornStep DEF IdsInv
<1> QED
  BY <1>1, <1>4, <1>5, StepKinds

\* A region, once saved, is never replaced or lost, and each call of
\* save_barrier adds one, whatever the program does: the id that
\* unordered_map::insert is given is never taken.
THEOREM NothingLost == Spec => SavesAppend
<1>1. Init => TypeOK /\ IdsInv
  BY InitType DEF Init, IdsInv
<1>2. (TypeOK /\ IdsInv) /\ [Next]_vars => (TypeOK /\ IdsInv)'
  BY TypeStep, IdsStep
<1>3. (TypeOK /\ IdsInv) /\ [Next]_vars =>
        [\A t \in Thread : tls[t] =>
           /\ regions[t] \subseteq regions'[t]
           /\ cur_synch_id'[t] # cur_synch_id[t] =>
                \E r \in regions'[t] \ regions[t] :
                  r.id = cur_synch_id[t]]_vars
  BY IdsStep
<1> QED
  BY <1>1, <1>2, <1>3, PTL DEF Spec, SavesAppend
----------------------------------------------------------------------------
(* No handler meets a thread without data.                                 *)

\* Every thread that runs has its data: the callback that makes it is
\* registered until the ROI ends, and while a thread is starting the master
\* waits for it, so the ROI cannot end in between.
DataInv ==
  /\ roi_has_ended \/ "thread_init" \in registered
  /\ \A t \in Thread : pc[t] = "starting" =>
       /\ ~roi_has_ended
       /\ t = Master \/ (pc[Master] = "forking" /\ t \in team)
  /\ \A t \in Thread : pc[t] \notin Unready => tls[t]
  /\ team = {} \/ Master \in team
  /\ status # "null_data"

\* A clean call finds the data of its thread.
LEMMA BlockFindsData ==
  ASSUME TypeOK, DataInv, NEW t \in Thread,
         EnterFunction(t) \/ ResumeBlock(t) \/ BodyBlock(t)
  PROVE  UNCHANGED <<roi, tls, team, status>>
<1>1. pc[t] \notin Unready
  BY DEF EnterFunction, ResumeBlock, BodyBlock, Step, Unready
<1>2. tls[t]
  BY <1>1 DEF DataInv
<1>3. \E blk \in {"entry", "body"} : ExecuteBlock(t, blk) \/ SkipBlock
  BY DEF EnterFunction, ResumeBlock, BodyBlock
<1>4. UNCHANGED <<roi, tls, status>>
  BY <1>2, <1>3 DEF ExecuteBlock, SkipBlock, birth
<1> QED
  BY <1>4 DEF EnterFunction, ResumeBlock, BodyBlock, program

\* Every step keeps DataInv: one step per kind of action.
LEMMA DataStep ==
  ASSUME "late_team" \notin Habits, TypeOK, DataInv, [Next]_vars
  PROVE  DataInv'
<1> USE ThreadAssumption
<1> USE DEF TypeOK, DataInv, Unready
<1>1. ASSUME NEW tm \in SUBSET Thread, NEW f \in Fn, Fork(tm, f)
      PROVE  DataInv'
  <2>1. \A t \in Thread : pc[t] = "starting" => FALSE
    BY <1>1 DEF Fork
  <2>2. ~roi_has_ended \/ \A t \in tm : pc[t] # "unborn"
    BY <1>1 DEF Fork, Teams
  <2>3. /\ UNCHANGED <<roi_has_ended, registered, tls, status>>
        /\ team' = tm /\ Master \in tm
    BY <1>1 DEF Fork, Teams, Keep, roi, birth
  <2>4. \A t \in Thread :
          \/ pc'[t] = pc[t]
          \/ t = Master /\ pc'[t] = "forking" /\ pc[t] = "serial"
          \/ t \in tm /\ pc[t] = "unborn" /\ pc'[t] = "starting"
    BY <1>1 DEF Fork
  <2>5. pc'[Master] = "forking"
    BY <1>1 DEF Fork
  <2> QED
    BY <2>1, <2>2, <2>3, <2>4, <2>5
<1>2. ASSUME NEW s \in Stretch, ReleaseTeam(s) \/ ReleaseBarrier(s)
      PROVE  DataInv'
  <2>1. UNCHANGED <<roi_has_ended, registered, tls, status, team>>
    BY <1>2 DEF ReleaseTeam, ReleaseBarrier, Keep, roi, birth
  <2>2. \A t \in Thread :
          \/ pc'[t] = pc[t]
          \/ pc[t] \in {"docked", "forking", "waiting"}
               /\ pc'[t] \in {"entering", "resumed"}
    BY <1>2 DEF ReleaseTeam, ReleaseBarrier
  <2>3. \A t \in Thread : t # Master => pc[t] # "starting"
    BY <1>2 DEF ReleaseTeam, ReleaseBarrier
  <2> QED
    BY <2>1, <2>2, <2>3
<1>3. ASSUME Join \/ EndProgram
      PROVE  DataInv'
  <2>1. /\ UNCHANGED <<roi_has_ended, registered, tls, status>>
        /\ team' \in {{}, team}
    BY <1>3 DEF Join, EndProgram, Keep, roi, birth
  <2>2. \A t \in Thread :
          \/ pc'[t] = pc[t]
          \/ pc[t] \in {"serial", "docked", "done", "forking"}
               /\ pc'[t] \in {"serial", "docked", "exiting"}
    BY <1>3 DEF Join, EndProgram
  <2>3. \A t \in Thread : t # Master => pc[t] # "starting"
    BY <1>3 DEF Join, EndProgram
  <2> QED
    BY <2>1, <2>2, <2>3
<1>4. ASSUME NEW t \in Thread, ThreadInit(t)
      PROVE  DataInv'
  <2>1. pc[t] = "starting" /\ "thread_init" \in registered
    BY <1>4 DEF ThreadInit, Step
  <2>2. tls' = [tls EXCEPT ![t] = TRUE]
    BY <1>4, <2>1 DEF ThreadInit, InitRegistered
  <2>3. UNCHANGED <<roi_has_ended, registered, status, team>>
    BY <1>4 DEF ThreadInit, roi
  <2>4. /\ pc'[t] \in {"serial", "docked"}
        /\ \A u \in Thread : u # t => pc'[u] = pc[u]
    BY <1>4 DEF ThreadInit, Step
  <2> QED
    BY <2>1, <2>2, <2>3, <2>4
<1>5. ASSUME NEW t \in Thread,
             EnterFunction(t) \/ ResumeBlock(t) \/ BodyBlock(t)
      PROVE  DataInv'
  <2>1. UNCHANGED <<roi_has_ended, registered, tls, team, status>>
    BY <1>5, BlockFindsData DEF roi
  <2>2. \A u \in Thread :
          \/ pc'[u] = pc[u]
          \/ /\ pc[u] \in {"entering", "resumed"}
             /\ pc'[u] \in {"entered", "body"}
    BY <1>5 DEF EnterFunction, ResumeBlock, BodyBlock, Step, program
  <2> QED
    BY <2>1, <2>2
<1>6. ASSUME NEW t \in Thread,
             \/ EventOmpParallel(t) \/ EventBarrier(t) \/ EventSingle(t)
             \/ Finish(t) \/ LeavePool(t)
      PROVE  DataInv'
  <2>1. UNCHANGED <<roi_has_ended, registered, tls, team, status>>
    BY <1>6 DEF EventOmpParallel, EventBarrier, EventSingle, Finish, LeavePool,
       Keep, roi, birth
  <2>2. \A u \in Thread :
          \/ pc'[u] = pc[u]
          \/ pc[u] \in {"entered", "body", "tail", "docked"}
               /\ pc'[u] \in {"body", "tail", "waiting", "done", "exiting"}
    BY <1>6 DEF EventOmpParallel, EventBarrier, EventSingle, Finish, LeavePool,
       Step
  <2> QED
    BY <2>1, <2>2
<1>7. ASSUME NEW t \in Thread, ThreadExit(t)
      PROVE  DataInv'
  <2>1. pc[t] = "exiting"
    BY <1>7 DEF ThreadExit, Step
  <2>2. UNCHANGED <<roi_has_ended, registered, tls, team, status>>
    BY <1>7, <2>1 DEF ThreadExit, roi, birth
  <2>3. \A u \in Thread :
          \/ pc'[u] = pc[u]
          \/ pc[u] = "exiting" /\ pc'[u] = "exited"
    BY <1>7, <2>1 DEF ThreadExit, Step
  <2> QED
    BY <2>1, <2>2, <2>3
<1>8. ASSUME RoiStart \/ RoiEnd
      PROVE  DataInv'
  <2>1. /\ UNCHANGED <<pc, team, tls>>
        /\ status' \in {"assert", status}
        /\ pc[Master] = "serial"
    BY <1>8 DEF RoiStart, RoiEnd, program, birth
  <2>2. \A t \in Thread : pc[t] # "starting"
    BY <2>1
  <2>3. roi_has_ended' \/ "thread_init" \in registered'
    BY <1>8 DEF RoiStart, RoiEnd
  <2> QED
    BY <2>1, <2>2, <2>3
<1>9. ASSUME SerialBarrier \/ EventExit \/ UNCHANGED vars
      PROVE  DataInv'
  BY <1>9 DEF SerialBarrier, EventExit, vars, program, roi, birth
<1> QED
  BY <1>1, <1>2, <1>3, <1>4, <1>5, <1>6, <1>7, <1>8, <1>9
     DEF Next, ProgramStep, ThreadStep, Stopped

\* Unless the program creates a thread after the ROI has ended, no clean
\* call and no exit handler dereferences a NULL TLS slot, although
\* event_roi_end unregisters the callback that fills it.
THEOREM DataIsThere ==
  ASSUME "late_team" \notin Habits
  PROVE  Spec => []NoNullData
<1>1. Init => TypeOK /\ DataInv
  BY InitType DEF Init, DataInv, Unready
<1>2. (TypeOK /\ DataInv) /\ [Next]_vars => (TypeOK /\ DataInv)'
  BY TypeStep, DataStep
<1>3. DataInv => NoNullData
  BY DEF DataInv, NoNullData
<1> QED
  BY <1>1, <1>2, <1>3, PTL DEF Spec
----------------------------------------------------------------------------
(* A region has the name of its synchronisation point.                     *)

\* How far the ROI has come, and that no thread leaves before the master.
CourseInv ==
  /\ roi_has_ended <=> roi_end_detected
  /\ roi_start_detected => in_roi \/ roi_has_ended
  /\ roi_has_ended => "thread_init" \notin registered
  /\ \A t \in Thread : pc[t] \in Gone => pc[Master] \in Gone

\* In the ROI: the region that is ahead of the program is the barrier its
\* thread waits at, a thread on its way to the callback will save the
\* function under the point just passed, and one that exits is past them all.
NamesInRoi ==
  in_roi => \A t \in Thread :
    /\ pc[t] \notin Gone => \A r \in regions[t] :
         r.id = Passed => r.name = "GOMP_barrier"
    /\ pc[t] \in {"entering", "entered"} => Passed > 0 /\ script[Passed] = fn
    /\ pc[t] = "exiting" => cur_synch_id[t] >= Passed

\* After the ROI: what is still to be saved is the last point or beyond it.
NamesAfterRoi ==
  roi_has_ended =>
    /\ Passed > 0 /\ script[Passed] = "thread_exit"
    /\ \A t \in Thread : tls[t] => cur_synch_id[t] >= Passed - 1

NamesInv == CourseInv /\ NamesInRoi /\ NamesAfterRoi /\ RegionNames
\* Nobody leaves before the master does, and the ROI ends once.
LEMMA CourseStep ==
  ASSUME "early_exit" \notin Habits, Plain, TypeOK, TeamInv, CourseInv,
         [Next]_vars
  PROVE  CourseInv'
<1> USE ThreadAssumption DEF CourseInv
<1>1. ASSUME NEW tm \in SUBSET Thread, NEW f \in Fn, Fork(tm, f)
      PROVE  CourseInv'
  BY <1>1 DEF Fork, Keep, roi, TypeOK, Gone
<1>2. ASSUME NEW s \in Stretch, ReleaseTeam(s) \/ ReleaseBarrier(s)
      PROVE  CourseInv'
  <2>1. UNCHANGED roi /\ pc[Master] \notin Gone
    BY <1>2 DEF ReleaseTeam, ReleaseBarrier, Keep, TeamInv, InTeam, Gone
  <2>2. \A t \in Thread : pc'[t] = pc[t] \/ pc'[t] \in {"entering", "resumed"}
    BY <1>2 DEF ReleaseTeam, ReleaseBarrier
  <2> QED
    BY <2>1, <2>2 DEF roi, Gone
<1>3. CASE Join
  <2>1. UNCHANGED roi /\ pc[Master] \notin Gone
    BY <1>3 DEF Join, Keep, TeamInv, InTeam, Gone
  <2>2. \A t \in Thread : pc'[t] = pc[t] \/ pc'[t] \in {"serial", "docked"}
    BY <1>3 DEF Join
  <2> QED
    BY <2>1, <2>2 DEF roi, Gone
<1>4. CASE EndProgram
  BY <1>4 DEF EndProgram, Keep, roi, Gone
<1>5. ASSUME NEW t \in Thread,
             Finish(t) \/ EventOmpParallel(t) \/ EventSingle(t)
             \/ EventBarrier(t)
      PROVE  CourseInv'
  <2>1. UNCHANGED roi
    BY <1>5 DEF Finish, EventOmpParallel, EventSingle, EventBarrier, Keep
  <2>2. \A u \in Thread :
          \/ pc'[u] = pc[u]
          \/ pc[u] \notin Gone /\ pc'[u] \notin Gone
    BY <1>5 DEF Finish, EventOmpParallel, EventSingle, EventBarrier, Step,
       TypeOK, Gone
  <2> QED
    BY <2>1, <2>2 DEF roi
<1>6. ASSUME NEW t \in Thread, ThreadInit(t) \/ ThreadExit(t)
      PROVE  CourseInv'
  <2>1. UNCHANGED roi
    BY <1>6 DEF ThreadInit, ThreadExit
  <2>2. \A u \in Thread :
          \/ pc'[u] = pc[u]
          \/ pc[u] \notin Gone /\ pc'[u] \notin Gone
          \/ pc[u] \in Gone /\ pc'[u] \in Gone
    BY <1>6 DEF ThreadInit, ThreadExit, Step, TypeOK, Gone
  <2> QED
    BY <2>1, <2>2 DEF roi
<1>7. ASSUME NEW t \in Thread,
             EnterFunction(t) \/ ResumeBlock(t) \/ BodyBlock(t)
      PROVE  CourseInv'
  <2>1. UNCHANGED roi
    BY <1>7, BlockEffect DEF EnterFunction, ResumeBlock, BodyBlock
  <2> QED
    BY <1>7, <2>1 DEF EnterFunction, ResumeBlock, BodyBlock, Step, program,
       roi, TypeOK, Gone
<1>8. ASSUME RoiStart \/ RoiEnd
      PROVE  CourseInv'
  BY <1>8 DEF RoiStart, RoiEnd, program
<1>9. ASSUME SerialBarrier \/ EventExit \/ UNCHANGED vars
      PROVE  CourseInv'
  BY <1>9 DEF SerialBarrier, EventExit, vars, program, roi
<1>10. \A t \in Thread : ~LeavePool(t)
  BY DEF LeavePool
<1> QED
  BY <1>1, <1>2, <1>3, <1>4, <1>5, <1>6, <1>7, <1>8, <1>9, <1>10
     DEF Next, ProgramStep, ThreadStep, Stopped

\* A step that saves nothing and passes no point leaves the names alone.
LEMMA QuietStep ==
  ASSUME NamesInv, CourseInv',
         UNCHANGED <<in_roi, roi_has_ended, script, fn, regions, cur_synch_id,
                     tls>>,
         \A t \in Thread :
           \/ pc'[t] = pc[t]
           \/ /\ pc[t] \notin Gone
              /\ pc'[t] \notin {"entering", "exiting"}
              /\ pc'[t] = "entered" => pc[t] = "entering"
           \/ pc[t] \in Gone /\ pc'[t] = "exited"
  PROVE  NamesInv'
<1>1. NamesInRoi'
  BY DEF NamesInv, NamesInRoi, Passed, Gone
<1>2. NamesAfterRoi' /\ RegionNames'
  BY DEF NamesInv, NamesAfterRoi, RegionNames, Passed
<1> QED
  BY <1>1, <1>2 DEF NamesInv

\* The threads that are in their places when the program passes a point.
LEMMA InPlace ==
  ASSUME TypeOK, CourseInv, CountInv, IdsInv, in_roi,
         pc[Master] \notin Gone, NEW t \in Thread, NEW r \in regions[t]
  PROVE  /\ r.id \in Nat
         /\ r.id <= Passed
         /\ r.id = Passed => pc[t] = "waiting" /\ Counted(stretch)
<1>1. pc[t] \notin Gone
  BY DEF CourseInv
<1>2. cur_synch_id[t] = Expected(t)
  BY <1>1 DEF CountInv
<1>3. r.id \in Nat /\ r.id < cur_synch_id[t] /\ Passed \in Nat
  BY DEF TypeOK, Region, IdsInv, Passed
<1> QED
  BY <1>2, <1>3 DEF Expected
\* A save leaves the names right if the name it gives is right.
LEMMA NamedSave ==
  ASSUME TypeOK, IdsInv, NamesInv, CourseInv', NEW t \in Thread,
         NEW name \in Name, SaveData(t, name),
         UNCHANGED <<in_roi, roi_has_ended, script, fn, tls>>,
         \A u \in Thread : u # t => pc'[u] = pc[u],
         pc'[t] \notin {"entering", "entered", "exiting"},
         pc[t] \in Gone => pc'[t] \in Gone,
         cur_synch_id[t] < Passed => name = script[cur_synch_id[t] + 1],
         in_roi /\ pc'[t] \notin Gone /\ cur_synch_id[t] = Passed =>
           name = "GOMP_barrier"
  PROVE  NamesInv'
<1>1. /\ cur_synch_id \in [Thread -> Nat] /\ Passed \in Nat
      /\ Passed' = Passed
  BY DEF TypeOK, Passed
<1>2. \A u \in Thread : \A r \in regions'[u] :
        \/ r \in regions[u]
        \/ u = t /\ r.id = cur_synch_id[t] /\ r.name = name
  BY SaveAdds
<1>3. RegionNames'
  BY <1>1, <1>2 DEF NamesInv, RegionNames
<1>4. NamesInRoi'
  <2> SUFFICES ASSUME in_roi', NEW u \in Thread
               PROVE  /\ pc'[u] \notin Gone => \A r \in regions'[u] :
                           r.id = Passed => r.name = "GOMP_barrier"
                      /\ pc'[u] \in {"entering", "entered"} =>
                           Passed > 0 /\ script[Passed] = fn
                      /\ pc'[u] = "exiting" => cur_synch_id'[u] >= Passed
    BY <1>1 DEF NamesInRoi
  <2>1. ASSUME pc'[u] \notin Gone, NEW r \in regions'[u], r.id = Passed
        PROVE  r.name = "GOMP_barrier"
    BY <1>2, <2>1 DEF NamesInv, NamesInRoi
  <2>2. pc'[u] \in {"entering", "entered"} =>
          Passed > 0 /\ script[Passed] = fn
    BY DEF NamesInv, NamesInRoi
  <2>3. pc'[u] = "exiting" => cur_synch_id'[u] >= Passed
    BY SaveAdds DEF NamesInv, NamesInRoi
  <2> QED
    BY <2>1, <2>2, <2>3
<1>5. NamesAfterRoi'
  <2>1. \A u \in Thread : cur_synch_id'[u] \in {cur_synch_id[u],
                                                cur_synch_id[u] + 1}
    BY SaveAdds
  <2> QED
    BY <1>1, <2>1 DEF NamesInv, NamesAfterRoi
<1> QED
  BY <1>3, <1>4, <1>5 DEF NamesInv

\* When the program passes a point, the regions at its id have its name.
LEMMA PointStep ==
  ASSUME TypeOK, IdsInv, CountInv, NamesInv, CourseInv', in_roi,
         pc[Master] \notin Gone, NEW name \in Name,
         script' = Append(script, name),
         UNCHANGED <<roi_has_ended, regions, tls>>, in_roi',
         ~roi_has_ended,
         name = "GOMP_barrier" \/ \A t \in Thread : pc[t] # "waiting",
         \A t \in Thread : pc'[t] \in {"entering", "entered"} => name = fn',
         \A t \in Thread : pc'[t] # "exiting"
  PROVE  NamesInv'
<1>1. /\ script \in Seq(Name) /\ Passed \in Nat /\ Passed' = Passed + 1
      /\ script'[Passed + 1] = name
      /\ \A i \in 1 .. Passed : script'[i] = script[i]
  BY DEF TypeOK, Passed
<1>2. \A t \in Thread : \A r \in regions[t] :
        /\ r.id \in Nat /\ r.id <= Passed
        /\ r.id = Passed => pc[t] = "waiting" /\ r.name = "GOMP_barrier"
  BY InPlace DEF NamesInv, CourseInv, NamesInRoi
<1>3. RegionNames'
  <2> SUFFICES ASSUME NEW t \in Thread, NEW r \in regions[t]
               PROVE  r.name = script'[r.id + 1]
    BY DEF RegionNames
  <2>1. /\ r.id \in Nat /\ r.id <= Passed
        /\ r.id = Passed => r.name = "GOMP_barrier" /\ name = "GOMP_barrier"
    BY <1>2
  <2>2. CASE r.id = Passed
    BY <1>1, <2>1, <2>2
  <2>3. CASE r.id < Passed
    <3>1. r.name = script[r.id + 1]
      BY <2>3 DEF NamesInv, RegionNames
    <3>2. r.id + 1 \in 1 .. Passed
      BY <1>1, <2>1, <2>3
    <3> QED
      BY <1>1, <3>1, <3>2
  <2>4. r.id = Passed \/ r.id < Passed
    BY <1>1, <2>1
  <2> QED
    BY <2>2, <2>3, <2>4
<1>4. NamesInRoi'
  <2>1. \A t \in Thread : \A r \in regions'[t] : r.id # Passed'
    BY <1>1, <1>2
  <2> QED
    BY <1>1, <2>1 DEF NamesInRoi
<1>5. NamesAfterRoi'
  BY DEF NamesAfterRoi
<1> QED
  BY <1>3, <1>4, <1>5 DEF NamesInv
\* Every step keeps the names right: one step per kind of action.
LEMMA NamesStep ==
  ASSUME "early_exit" \notin Habits, Plain, TypeOK, MasterInv, TeamInv,
         StartInv, CountInv, IdsInv, NamesInv, [Next]_vars
  PROVE  NamesInv'
<1> USE ThreadAssumption
<1>0. CourseInv'
  BY CourseStep DEF NamesInv
<1>a. Passed \in Nat
  BY DEF TypeOK, Passed
<1>1. ASSUME NEW tm \in SUBSET Thread, NEW f \in Fn, Fork(tm, f)
      PROVE  NamesInv'
  <2>1. UNCHANGED <<in_roi, roi_has_ended, script, regions, cur_synch_id, tls>>
    BY <1>1 DEF Fork, Keep, roi, current, birth
  <2>2. \A t \in Thread : /\ pc'[t] \notin {"entering", "entered"}
                          /\ pc[t] \in Gone \/ pc'[t] = "exiting" =>
                               pc'[t] = pc[t]
    BY <1>1 DEF Fork, TeamInv, InTeam, Gone
  <2>3. NamesInRoi'
    BY <2>1, <2>2 DEF NamesInv, NamesInRoi, Passed
  <2>4. NamesAfterRoi' /\ RegionNames'
    BY <2>1 DEF NamesInv, NamesAfterRoi, RegionNames, Passed
  <2> QED
    BY <1>0, <2>3, <2>4 DEF NamesInv
<1>2. ASSUME NEW s \in Stretch, ReleaseTeam(s)
      PROVE  NamesInv'
  <2>1. /\ UNCHANGED <<in_roi, roi_has_ended, regions, cur_synch_id, tls, fn>>
        /\ pc[Master] = "forking"
        /\ \A t \in Thread :
             \/ pc'[t] = pc[t]
             \/ pc[t] \notin Gone /\ pc'[t] = "entering"
    BY <1>2 DEF ReleaseTeam, Keep, roi, current, birth, TeamInv, Alive, Gone
  <2>2. CASE in_roi
    <3>1. \A t \in Thread : pc[t] \notin Gone \cup {"waiting"}
      BY <2>1 DEF NamesInv, CourseInv, TeamInv, InTeam, Gone
    <3>2. \A t \in Thread : pc'[t] # "exiting"
      BY <2>1, <3>1 DEF Gone
    <3>3. script' = Append(script, fn) /\ fn \in Name
      BY <1>2, <2>2 DEF ReleaseTeam, TypeOK, Name
    <3>4. ~roi_has_ended
      BY <2>2 DEF StartInv
    <3> QED
      BY <1>0, <2>1, <2>2, <3>1, <3>2, <3>3, <3>4, PointStep DEF Gone
  <2>3. CASE ~in_roi
    BY <1>0, <1>2, <2>1, <2>3
       DEF ReleaseTeam, NamesInv, NamesInRoi, NamesAfterRoi, RegionNames,
           Passed
  <2> QED
    BY <2>2, <2>3
<1>3. ASSUME NEW s \in Stretch, ReleaseBarrier(s)
      PROVE  NamesInv'
  <2>1. /\ UNCHANGED <<in_roi, roi_has_ended, regions, cur_synch_id, tls, fn>>
        /\ pc[Master] \notin Gone
        /\ \A t \in Thread :
             \/ pc'[t] = pc[t]
             \/ pc[t] \notin Gone /\ pc'[t] = "resumed"
    BY <1>3 DEF ReleaseBarrier, Keep, roi, current, birth, TeamInv, InTeam,
       Alive, Gone
  <2>2. CASE in_roi /\ Counted(stretch)
    <3>1. \A t \in Thread : pc'[t] \notin {"entering", "entered"}
      BY <1>3, <2>1 DEF ReleaseBarrier, TeamInv, InTeam
    <3>2. \A t \in Thread : pc'[t] # "exiting"
      BY <2>1 DEF NamesInv, CourseInv, Gone
    <3>3. script' = Append(script, "GOMP_barrier") /\ "GOMP_barrier" \in Name
      BY <1>3, <2>2 DEF ReleaseBarrier, Name
    <3>4. ~roi_has_ended
      BY <2>2 DEF StartInv
    <3> QED
      BY <1>0, <2>1, <2>2, <3>1, <3>2, <3>3, <3>4, PointStep DEF Gone
  <2>3. CASE ~(in_roi /\ Counted(stretch))
    BY <1>0, <1>3, <2>1, <2>3, QuietStep DEF ReleaseBarrier
  <2> QED
    BY <2>2, <2>3
<1>4. CASE Join
  <2>1. UNCHANGED <<in_roi, roi_has_ended, script, fn, regions, cur_synch_id,
                    tls>>
    BY <1>4 DEF Join, Keep, roi, current, birth
  <2>2. \A t \in Thread :
          \/ pc'[t] = pc[t]
          \/ pc[t] \notin Gone /\ pc'[t] \in {"serial", "docked"}
    BY <1>4 DEF Join, TeamInv, Alive, InTeam, Gone
  <2> QED
    BY <1>0, <2>1, <2>2, QuietStep DEF Gone
<1>5. CASE EndProgram
  <2>1. UNCHANGED <<in_roi, roi_has_ended, script, fn, regions, cur_synch_id,
                    tls>>
    BY <1>5 DEF EndProgram, Keep, roi, current, birth
  <2>2. \A t \in Thread :
          \/ pc'[t] = pc[t]
          \/ pc[t] \in {"serial", "docked"} /\ pc'[t] = "exiting"
    BY <1>5 DEF EndProgram
  <2>3. in_roi => \A t \in Thread :
          pc[t] \in {"serial", "docked"} => cur_synch_id[t] = Passed
    BY DEF CountInv, Expected, Gone
  <2>4. Passed \in Nat
    BY DEF TypeOK, Passed
  <2>5. NamesInRoi'
    BY <2>1, <2>2, <2>3, <2>4 DEF NamesInv, NamesInRoi, Passed, Gone
  <2>6. NamesAfterRoi' /\ RegionNames'
    BY <2>1 DEF NamesInv, NamesAfterRoi, RegionNames, Passed
  <2> QED
    BY <1>0, <2>5, <2>6 DEF NamesInv
<1>6. ASSUME NEW t \in Thread, Finish(t) \/ EventSingle(t)
      PROVE  NamesInv'
  <2>1. UNCHANGED <<in_roi, roi_has_ended, script, fn, regions, cur_synch_id,
                    tls>>
    BY <1>6 DEF Finish, EventSingle, Keep, roi, current, birth
  <2>2. \A u \in Thread :
          \/ pc'[u] = pc[u]
          \/ pc[u] \in {"body", "tail"} /\ pc'[u] \in {"tail", "done"}
    BY <1>6 DEF Finish, EventSingle, Step, TypeOK
  <2> QED
    BY <1>0, <2>1, <2>2, QuietStep DEF Gone
<1>7. ASSUME NEW t \in Thread,
             EnterFunction(t) \/ ResumeBlock(t) \/ BodyBlock(t)
      PROVE  NamesInv'
  <2>1. \E blk \in {"entry", "body"} : ExecuteBlock(t, blk) \/ SkipBlock
    BY <1>7 DEF EnterFunction, ResumeBlock, BodyBlock
  <2>2. UNCHANGED <<roi, regions, cur_synch_id, birth>>
    BY <2>1, ExecuteBlockType
  <2>3. UNCHANGED <<script, fn>>
    BY <1>7 DEF EnterFunction, ResumeBlock, BodyBlock, program
  <2>4. \A u \in Thread :
          \/ pc'[u] = pc[u]
          \/ pc[u] = "entering" /\ pc'[u] = "entered"
          \/ pc[u] = "resumed" /\ pc'[u] = "body"
    BY <1>7 DEF EnterFunction, ResumeBlock, BodyBlock, Step, program, TypeOK
  <2> QED
    BY <1>0, <2>2, <2>3, <2>4, QuietStep DEF roi, birth, Gone
<1>8. ASSUME NEW t \in Thread, ThreadInit(t)
      PROVE  NamesInv'
  <2>1. /\ UNCHANGED <<in_roi, roi_has_ended, script, fn, registered>>
        /\ pc[t] = "starting" /\ pc'[t] \in {"serial", "docked"}
        /\ \A u \in Thread : u # t => pc'[u] = pc[u]
    BY <1>8 DEF ThreadInit, Step, roi, TypeOK
  <2>2. \A u \in Thread : u # t =>
          /\ cur_synch_id'[u] = cur_synch_id[u]
          /\ regions'[u] = regions[u]
    BY <1>8 DEF ThreadInit, TypeOK
  <2>3. regions'[t] \subseteq regions[t]
    BY <1>8 DEF ThreadInit, TypeOK
  <2>4. roi_has_ended => UNCHANGED <<cur_synch_id, tls>>
    BY <1>8 DEF ThreadInit, InitRegistered, NamesInv, CourseInv, birth
  <2>5. RegionNames'
    BY <2>1, <2>2, <2>3 DEF NamesInv, RegionNames, Passed
  <2>6. NamesInRoi'
    BY <2>1, <2>2, <2>3 DEF NamesInv, NamesInRoi, Passed, Gone
  <2>7. NamesAfterRoi'
    BY <2>1, <2>4 DEF NamesInv, NamesAfterRoi, Passed
  <2> QED
    BY <1>0, <2>5, <2>6, <2>7 DEF NamesInv
<1>9. ASSUME NEW t \in Thread, EventOmpParallel(t)
      PROVE  NamesInv'
  <2>1. /\ UNCHANGED <<in_roi, roi_has_ended, script, fn, tls>>
        /\ pc[t] = "entered" /\ pc'[t] = "body"
        /\ \A u \in Thread : u # t => pc'[u] = pc[u]
    BY <1>9 DEF EventOmpParallel, Step, roi, birth, TypeOK
  <2>2. CASE in_roi
    <3>1. SaveData(t, fn) /\ fn \in Name
      BY <1>9, <2>2 DEF EventOmpParallel, TypeOK, Name
    <3>2. cur_synch_id[t] = Passed - 1
      BY <2>1, <2>2 DEF CountInv, Expected, Gone
    <3>3. script[Passed] = fn
      BY <2>1, <2>2 DEF NamesInv, NamesInRoi
    <3>4. cur_synch_id[t] + 1 = Passed /\ cur_synch_id[t] # Passed
      BY <1>a, <3>2
    <3> QED
      BY <1>0, <2>1, <3>1, <3>3, <3>4, NamedSave DEF Gone
  <2>3. CASE ~in_roi
    BY <1>0, <1>9, <2>1, <2>3, QuietStep
       DEF EventOmpParallel, current, Gone
  <2> QED
    BY <2>2, <2>3
<1>10. ASSUME NEW t \in Thread, EventBarrier(t)
       PROVE  NamesInv'
  <2>1. /\ UNCHANGED <<in_roi, roi_has_ended, script, fn, tls>>
        /\ pc[t] \in {"body", "tail"} /\ pc'[t] = "waiting"
        /\ \A u \in Thread : u # t => pc'[u] = pc[u]
    BY <1>10 DEF EventBarrier, Step, roi, birth, TypeOK
  <2>2. CASE in_roi /\ SaveData(t, "GOMP_barrier")
    <3>1. cur_synch_id[t] = Passed
      BY <2>1, <2>2 DEF CountInv, Expected, Gone
    <3>2. ~(cur_synch_id[t] < Passed) /\ "GOMP_barrier" \in Name
      BY <1>a, <3>1 DEF Name
    <3> QED
      BY <1>0, <2>1, <2>2, <3>2, NamedSave DEF Gone
  <2>3. CASE UNCHANGED current
    BY <1>0, <2>1, <2>3, QuietStep DEF current, Gone
  <2> QED
    BY <1>10, <2>2, <2>3 DEF EventBarrier, OnBarrier
<1>11. ASSUME NEW t \in Thread, ThreadExit(t)
       PROVE  NamesInv'
  <2>1. /\ UNCHANGED <<in_roi, roi_has_ended, script, fn, tls>>
        /\ pc[t] = "exiting" /\ pc'[t] = "exited"
        /\ \A u \in Thread : u # t => pc'[u] = pc[u]
    BY <1>11 DEF ThreadExit, Step, roi, birth, TypeOK
  <2>2. CASE SaveData(t, "thread_exit") /\ tls[t] /\ roi_start_detected
    <3>1. cur_synch_id[t] \in Nat /\ "thread_exit" \in Name
      BY DEF TypeOK, Name
    <3>2. cur_synch_id[t] < Passed =>
            "thread_exit" = script[cur_synch_id[t] + 1]
      <4>1. CASE in_roi
        BY <1>a, <2>1, <3>1, <4>1 DEF NamesInv, NamesInRoi
      <4>2. CASE roi_has_ended
        <5>1. cur_synch_id[t] >= Passed - 1 /\ script[Passed] = "thread_exit"
          BY <2>2, <4>2 DEF NamesInv, NamesAfterRoi
        <5>2. cur_synch_id[t] < Passed => cur_synch_id[t] + 1 = Passed
          BY <1>a, <3>1, <5>1
        <5> QED
          BY <5>1, <5>2
      <4> QED
        BY <2>2, <4>1, <4>2 DEF NamesInv, CourseInv
    <3> QED
      BY <1>0, <2>1, <2>2, <3>1, <3>2, NamedSave DEF Gone
  <2>3. CASE UNCHANGED current
    BY <1>0, <2>1, <2>3, QuietStep DEF current, Gone
  <2> QED
    BY <1>11, <2>2, <2>3 DEF ThreadExit, StartInv
<1>12. CASE RoiStart
  <2>1. /\ UNCHANGED <<pc, fn, script, roi_has_ended, regions, cur_synch_id,
                       tls>>
        /\ pc[Master] = "serial"
    BY <1>12 DEF RoiStart, program, current, birth
  <2>2. CASE roi_start_detected
    BY <1>0, <1>12, <2>1, <2>2, QuietStep DEF RoiStart
  <2>3. CASE ~roi_start_detected
    <3>1. \A t \in Thread : pc[t] \notin {"entering", "entered", "exiting"}
      BY <2>1 DEF NamesInv, CourseInv, TeamInv, InTeam, Gone
    <3>2. \A t \in Thread : \A r \in regions[t] : r.id # Passed
      BY <2>3 DEF StartInv, IdsInv, TypeOK, Region
    <3>3. NamesInRoi'
      BY <2>1, <3>1, <3>2 DEF NamesInRoi, Passed
    <3>4. NamesAfterRoi' /\ RegionNames'
      BY <2>1 DEF NamesInv, NamesAfterRoi, RegionNames, Passed
    <3> QED
      BY <1>0, <3>3, <3>4 DEF NamesInv
  <2> QED
    BY <2>2, <2>3
<1>13. CASE RoiEnd
  <2>1. /\ UNCHANGED <<pc, fn, tls>>
        /\ pc[Master] = "serial"
        /\ roi_has_ended' /\ ~in_roi'
    BY <1>13 DEF RoiEnd, birth
  <2>2. tls[Master] /\ "thread_exit" \in Name
    BY <2>1 DEF MasterInv, Name
  <2>3. CASE roi_end_detected
    <3>1. UNCHANGED <<in_roi, roi_has_ended, script>>
      <4>1. roi_has_ended /\ ~in_roi
        BY <2>3 DEF StartInv, NamesInv, CourseInv
      <4>2. in_roi' = FALSE /\ roi_has_ended' = TRUE /\ script' = script
        BY <1>13, <2>3 DEF RoiEnd
      <4> QED
        BY <4>1, <4>2 DEF TypeOK
    <3>2. CASE UNCHANGED current
      BY <1>0, <2>1, <3>1, <3>2, QuietStep DEF current
    <3>3. CASE SaveData(Master, "thread_exit")
      <4>1. /\ cur_synch_id[Master] >= Passed - 1
            /\ script[Passed] = "thread_exit"
        BY <2>2, <2>3 DEF NamesInv, CourseInv, NamesAfterRoi
      <4>2. cur_synch_id[Master] < Passed =>
              cur_synch_id[Master] + 1 = Passed
        BY <1>a, <4>1 DEF TypeOK
      <4> QED
        BY <1>0, <2>1, <2>2, <3>1, <3>3, <4>1, <4>2, NamedSave DEF Gone
    <3> QED
      BY <1>13, <3>2, <3>3 DEF RoiEnd
  <2>4. CASE ~roi_end_detected
    <3>1. in_roi
      BY <1>13, <2>4 DEF RoiEnd, NamesInv, CourseInv
    <3>2. \A t \in Thread : pc[t] \notin Gone \cup InTeam
      BY <2>1 DEF NamesInv, CourseInv, TeamInv, InTeam, Gone
    <3>3. \A t \in Thread : cur_synch_id[t] = Passed
      BY <3>1, <3>2 DEF CountInv, Expected, InTeam
    <3>4. SaveData(Master, "thread_exit")
      BY <1>13, <2>4 DEF RoiEnd
    <3>5. /\ Passed' = Passed + 1
          /\ script'[Passed + 1] = "thread_exit"
          /\ \A i \in 1 .. Passed : script'[i] = script[i]
      <4>1. script' = Append(script, "thread_exit")
        BY <1>13, <2>4 DEF RoiEnd
      <4>2. script \in Seq(Name)
        BY DEF TypeOK
      <4> QED
        BY <2>2, <4>1, <4>2 DEF Passed
    <3>6. \A t \in Thread : \A r \in regions'[t] :
            \/ r \in regions[t]
            \/ r.id = Passed /\ r.name = "thread_exit"
      BY <2>2, <3>3, <3>4, SaveAdds
    <3>7. \A t \in Thread : \A r \in regions[t] :
            r.name = script'[r.id + 1]
      <4> SUFFICES ASSUME NEW t \in Thread, NEW r \in regions[t]
                   PROVE  r.name = script'[r.id + 1]
        OBVIOUS
      <4>1. r.id \in Nat /\ r.id < Passed
        BY <3>3 DEF IdsInv, TypeOK, Region
      <4>2. r.name = script[r.id + 1]
        BY <4>1 DEF NamesInv, RegionNames
      <4>3. r.id + 1 \in 1 .. Passed
        BY <1>a, <4>1
      <4> QED
        BY <3>5, <4>2, <4>3
    <3>8. RegionNames'
      BY <3>5, <3>6, <3>7 DEF RegionNames
    <3>9. \A t \in Thread : cur_synch_id'[t] \in {Passed, Passed + 1}
      BY <2>2, <3>3, <3>4, SaveAdds
    <3>10. NamesAfterRoi'
      BY <1>a, <3>5, <3>9 DEF NamesAfterRoi
    <3>11. NamesInRoi'
      BY <2>1 DEF NamesInRoi
    <3> QED
      BY <1>0, <3>8, <3>10, <3>11 DEF NamesInv
  <2> QED
    BY <2>3, <2>4
<1>14. ASSUME EventExit \/ UNCHANGED vars
       PROVE  NamesInv'
  <2>1. UNCHANGED <<pc, fn, in_roi, roi_has_ended, script, regions,
                    cur_synch_id, tls>>
    BY <1>14 DEF EventExit, vars, program, roi, current, birth
  <2> QED
    BY <1>0, <2>1, QuietStep
<1>15. ~SerialBarrier /\ \A t \in Thread : ~LeavePool(t)
  BY DEF SerialBarrier, LeavePool, Plain, Misaligning
<1> QED
  BY <1>1, <1>2, <1>3, <1>4, <1>5, <1>6, <1>7, <1>8, <1>9, <1>10, <1>11,
     <1>12, <1>13, <1>14, <1>15 DEF Next, ProgramStep, ThreadStep, Stopped

\* If the program does nothing that makes its threads' regions diverge and
\* no idle worker leaves the pool before the end, region k has, in every
\* thread, the name of the k-th synchronisation point: the omp_name that each
\* thread hands to save_data on its own is one and the same.
THEOREM NamesAgree ==
  ASSUME Plain, "early_exit" \notin Habits
  PROVE  Spec => []RegionNames
<1> DEFINE Inv == AlignInv /\ MasterInv /\ IdsInv /\ NamesInv
<1>1. Init => Inv
  <2> SUFFICES ASSUME Init PROVE Inv
    OBVIOUS
  <2>1. AlignInv
    BY AlignInit
  <2>2. MasterInv
    BY ThreadAssumption DEF Init, MasterInv, RegionIds, Worker
  <2>3. IdsInv
    BY DEF Init, IdsInv
  <2>4. NamesInv
    BY DEF Init, NamesInv, CourseInv, NamesInRoi, NamesAfterRoi, RegionNames,
       Gone
  <2> QED
    BY <2>1, <2>2, <2>3, <2>4
<1>2. Inv /\ [Next]_vars => Inv'
  BY TypeStep, TeamStep, StartStep, CountStep, SingleStep, BlockStep,
     MasterStep, IdsStep, NamesStep DEF AlignInv
<1>3. Inv => RegionNames
  BY DEF NamesInv
<1> QED
  BY <1>1, <1>2, <1>3, PTL DEF Spec

----------------------------------------------------------------------------
(* The counters of the workers.                                            *)

\* in_single says what it is meant to say.
SinglesCounted == "nowait" \notin Habits \/ ~IgnoreSingle

\* A thread is in the code of a team only with the team, and outside of it
\* the master is alone: TeamInv for teams of any of the threads.
GroupInv ==
  /\ team # {} => Master \in team
  /\ pc[Master] \in InTeam \cup {"forking"} <=> team # {}
  /\ \A t \in Thread : pc[t] \in InTeam =>
       t \in team /\ pc[Master] \in InTeam
  /\ \A t \in Worker : pc[t] \notin {"serial", "forking"}
  /\ \A t \in Worker : pc[t] = "starting" =>
       pc[Master] = "forking" /\ t \in team

\* in_single is set between a single and its own barrier, under
\* -ignore_single, and at no other time.
OwnSingleInv ==
  /\ IgnoreSingle => stretch.single # "nowait"
  /\ \A t \in Thread :
       in_single[t] <=> /\ in_roi /\ IgnoreSingle
                        /\ pc[t] = "tail" /\ stretch.single = "wait"

\* How many of the points that the master has yet to save or has saved early
\* a thread has counted, from where it is.
Ahead(t) ==
  CASE in_roi /\ pc[t] \in {"entering", "entered"} -> -1
    [] in_roi /\ pc[t] = "waiting" /\ Counted(stretch) -> 1
    [] OTHER -> 0

\* But for what it is ahead by, no thread has counted more than the master.
\* One that has left has saved one region more.
AheadInv ==
  \A t \in Thread :
    cur_synch_id[t] - Ahead(t) <=
      synch_count - Ahead(Master) + (IF pc[t] = "exited" THEN 1 ELSE 0)

\* The ids of a thread are those from the first to its counter.
RunsInv ==
  \A t \in Thread : \A r \in regions[t] :
    r.id + 1 \in RegionIds(t) \/ r.id + 1 = cur_synch_id[t]

WorkersInv ==
  /\ TypeOK /\ MasterInv /\ IdsInv
  /\ GroupInv /\ OwnSingleInv /\ AheadInv /\ RunsInv

----------------------------------------------------------------------------
\* Every step keeps each team together: a thread enters the code of a team
\* when all of it does, and leaves it when all of it has.
LEMMA GroupStep ==
  ASSUME TypeOK, GroupInv, [Next]_vars
  PROVE  GroupInv'
<1> USE ThreadAssumption
<1>1. ASSUME NEW tm \in SUBSET Thread, NEW f \in Fn, Fork(tm, f)
      PROVE  GroupInv'
  <2>1. /\ team' = tm /\ Master \in tm
        /\ pc[Master] = "serial" /\ team = {}
    BY <1>1 DEF Fork, Teams, GroupInv, InTeam
  <2>2. \A t \in Thread : pc'[t] =
           IF t = Master THEN "forking"
           ELSE IF t \in tm /\ pc[t] = "unborn" THEN "starting" ELSE pc[t]
    BY <1>1 DEF Fork
  <2>3. \A t \in Thread : /\ pc[t] \notin InTeam
                          /\ t \in Worker => pc[t] # "starting"
    <3>1. pc[Master] \notin InTeam
      BY <2>1 DEF InTeam
    <3> QED
      BY <2>1, <3>1 DEF GroupInv
  <2>4. \A t \in Thread : pc'[t] \notin InTeam
    BY <2>1, <2>2, <2>3 DEF InTeam, Worker
  <2>5. pc'[Master] = "forking" /\ team' # {} /\ Master \in team'
    BY <2>1, <2>2
  <2>6. \A t \in Worker : /\ pc'[t] \notin {"serial", "forking"}
                          /\ pc'[t] = "starting" => t \in team'
    BY <2>1, <2>2, <2>3 DEF GroupInv, Worker
  <2> QED
    BY <2>4, <2>5, <2>6 DEF GroupInv, InTeam
<1>2. ASSUME NEW s \in Stretch, ReleaseTeam(s) \/ ReleaseBarrier(s)
      PROVE  GroupInv'
  <2>1. /\ team # {} /\ Master \in team /\ team' = team
        /\ \A t \in Thread \ team : pc[t] \notin InTeam
        /\ \A t \in team \ {Master} : pc[t] # "starting"
    BY <1>2 DEF ReleaseTeam, ReleaseBarrier, GroupInv
  <2>2. \/ \A t \in Thread : pc'[t] = IF t \in team THEN "entering" ELSE pc[t]
        \/ \A t \in Thread : pc'[t] = IF t \in team THEN "resumed" ELSE pc[t]
    BY <1>2 DEF ReleaseTeam, ReleaseBarrier
  <2>3. \A t \in Worker : pc'[t] # "starting"
    <3>1. \A t \in Worker \ team : pc[t] # "starting"
      BY DEF GroupInv
    <3> QED
      BY <2>2, <3>1 DEF Worker
  <2> QED
    BY <2>1, <2>2, <2>3 DEF TypeOK, GroupInv, InTeam, Worker
<1>4. ASSUME Join
      PROVE  GroupInv'
  <2>1. /\ team # {} /\ Master \in team /\ team' = {}
        /\ \A t \in Thread : pc'[t] = IF t = Master THEN "serial"
                                      ELSE IF t \in team THEN "docked"
                                      ELSE pc[t]
        /\ pc[Master] = "done"
    BY <1>4 DEF Join, GroupInv
  <2> QED
    BY <2>1 DEF TypeOK, GroupInv, InTeam, Worker
<1>5. ASSUME EndProgram
      PROVE  GroupInv'
  BY <1>5 DEF EndProgram, TypeOK, GroupInv, InTeam, Worker
<1>6. ASSUME NEW t \in Thread, NEW from \in PcLabel, NEW to \in PcLabel,
             Step(t, from, to), UNCHANGED team,
             \/ from \in InTeam /\ to \in InTeam
             \/ from \in Gone /\ to \in Gone
             \/ from = "docked" /\ to = "exiting"
             \/ from = "starting" /\ to = IF t = Master THEN "serial"
                                          ELSE "docked"
      PROVE  GroupInv'
  BY <1>6 DEF Step, TypeOK, GroupInv, InTeam, Gone, Worker
<1>7. ASSUME UNCHANGED <<pc, team>>
      PROVE  GroupInv'
  BY <1>7 DEF GroupInv
<1>8. ASSUME NEW t \in Thread, ThreadStep(t)
      PROVE  GroupInv'
  <2>1. CASE ThreadInit(t)
    BY <2>1, <1>6 DEF ThreadInit, PcLabel
  <2>2. CASE EnterFunction(t)
    BY <2>2, <1>6 DEF EnterFunction, PcLabel, InTeam
  <2>3. CASE EventOmpParallel(t)
    BY <2>3, <1>6 DEF EventOmpParallel, PcLabel, InTeam
  <2>4. CASE ResumeBlock(t)
    BY <2>4, <1>6 DEF ResumeBlock, PcLabel, InTeam
  <2>5. CASE BodyBlock(t)
    BY <2>5, <1>7 DEF BodyBlock, program
  <2>6. CASE EventSingle(t)
    BY <2>6, <1>6 DEF EventSingle, PcLabel, InTeam
  <2>7. CASE EventBarrier(t)
    BY <2>7, <1>6 DEF EventBarrier, PcLabel, InTeam
  <2>8. CASE ThreadExit(t)
    BY <2>8, <1>6 DEF ThreadExit, PcLabel, Gone
  <2> QED
    BY <1>8, <2>1, <2>2, <2>3, <2>4, <2>5, <2>6, <2>7, <2>8 DEF ThreadStep
<1>9. ASSUME NEW t \in Thread, Finish(t) \/ LeavePool(t)
      PROVE  GroupInv'
  BY <1>9, <1>6 DEF Finish, LeavePool, PcLabel, InTeam
<1>10. ASSUME SerialBarrier \/ RoiStart \/ RoiEnd \/ EventExit
              \/ UNCHANGED vars
       PROVE  GroupInv'
  BY <1>10, <1>7 DEF SerialBarrier, RoiStart, RoiEnd, EventExit, vars,
     program
<1> QED
  BY <1>1, <1>2, <1>4, <1>5, <1>8, <1>9, <1>10
     DEF Next, ProgramStep, Stopped

\* Every step keeps in_single true to its name: SingleStep for teams of any
\* of the threads.
LEMMA OwnSingleStep ==
  ASSUME SinglesCounted, TypeOK, GroupInv, OwnSingleInv, [Next]_vars
  PROVE  OwnSingleInv'
<1> USE ThreadAssumption
<1>1. \A s \in Stretch : IgnoreSingle => s.single # "nowait"
  BY DEF Stretch, SinglesCounted
<1>2. ASSUME NEW tm \in SUBSET Thread, NEW f \in Fn, Fork(tm, f)
      PROVE  OwnSingleInv'
  BY <1>2 DEF Fork, Keep, roi, TypeOK, OwnSingleInv
<1>3. ASSUME NEW s \in Stretch, ReleaseTeam(s) \/ ReleaseBarrier(s)
      PROVE  OwnSingleInv'
  <2>1. \A t \in Thread : pc[t] # "tail" /\ pc'[t] # "tail"
    BY <1>3 DEF ReleaseTeam, ReleaseBarrier, TypeOK, GroupInv, InTeam
  <2>2. stretch' = s /\ UNCHANGED <<roi, in_single>>
    BY <1>3 DEF ReleaseTeam, ReleaseBarrier, Keep
  <2> QED
    BY <1>1, <2>1, <2>2 DEF OwnSingleInv, roi
<1>4. ASSUME Join \/ EndProgram
      PROVE  OwnSingleInv'
  <2>1. UNCHANGED <<in_roi, in_single, stretch>>
    BY <1>4 DEF Join, EndProgram, Keep, roi
  <2>2. \A u \in Thread : pc'[u] = "tail" <=> pc[u] = "tail"
    <3>1. CASE Join
      <4>1. Master \in team /\ \A t \in team : pc[t] = "done"
        BY <3>1 DEF Join, GroupInv
      <4> QED
        BY <3>1, <4>1 DEF Join, TypeOK
    <3>2. CASE EndProgram
      BY <3>2 DEF EndProgram
    <3> QED
      BY <1>4, <3>1, <3>2
  <2> QED
    BY <2>1, <2>2 DEF OwnSingleInv
<1>5. ASSUME NEW t \in Thread, Finish(t) \/ LeavePool(t)
      PROVE  OwnSingleInv'
  <2>1. UNCHANGED <<in_roi, in_single, stretch>>
    BY <1>5 DEF Finish, LeavePool, Keep, roi
  <2>2. \A u \in Thread : \/ pc'[u] = pc[u]
                          \/ pc'[u] # "tail" /\ ~in_single[u]
    <3>1. pc[t] = "tail" => stretch.single # "wait"
      BY <1>5 DEF Finish, LeavePool, Step, TypeOK, Stretch
    <3> QED
      BY <1>5, <3>1 DEF Finish, LeavePool, Step, TypeOK, OwnSingleInv
  <2>3. \A u \in Thread : pc'[u] # pc[u] => pc'[u] # "tail"
    BY <2>2
  <2> QED
    BY <2>1, <2>2, <2>3 DEF OwnSingleInv
<1>6. ASSUME NEW t \in Thread, ThreadInit(t)
      PROVE  OwnSingleInv'
  BY <1>6 DEF ThreadInit, Step, roi, TypeOK, OwnSingleInv
<1>7. ASSUME NEW t \in Thread,
             EnterFunction(t) \/ ResumeBlock(t) \/ BodyBlock(t)
      PROVE  OwnSingleInv'
  <2>1. UNCHANGED <<roi, in_single, stretch>>
    BY <1>7, BlockEffect
       DEF EnterFunction, ResumeBlock, BodyBlock, program
  <2>2. \A u \in Thread : pc'[u] = "tail" <=> pc[u] = "tail"
    BY <1>7 DEF EnterFunction, ResumeBlock, BodyBlock, Step, program, TypeOK
  <2>3. in_roi' = in_roi /\ in_single' = in_single /\ stretch' = stretch
    BY <2>1 DEF roi
  <2> QED
    BY <2>2, <2>3 DEF OwnSingleInv
<1>8. ASSUME NEW t \in Thread, EventOmpParallel(t) \/ ThreadExit(t)
      PROVE  OwnSingleInv'
  BY <1>8 DEF EventOmpParallel, ThreadExit, Step, roi, TypeOK, OwnSingleInv
<1>9. ASSUME NEW t \in Thread, EventSingle(t)
      PROVE  OwnSingleInv'
  <2>1. /\ UNCHANGED <<stretch, in_roi>>
        /\ pc'[t] = "tail" /\ pc[t] = "body"
        /\ \A u \in Thread : u # t => pc'[u] = pc[u]
        /\ IgnoreSingle => stretch.single = "wait"
    BY <1>9 DEF EventSingle, Step, roi, TypeOK, Stretch, OwnSingleInv
  <2>2. \A u \in Thread : u # t => in_single'[u] = in_single[u]
    BY <1>9 DEF EventSingle, TypeOK
  <2>3. in_single'[t] <=> in_roi /\ IgnoreSingle
    <3>1. CASE in_roi /\ IgnoreSingle
      BY <1>9, <3>1 DEF EventSingle, TypeOK
    <3>2. CASE ~(in_roi /\ IgnoreSingle)
      <4>1. in_single'[t] = in_single[t]
        BY <1>9, <3>2 DEF EventSingle
      <4> QED
        BY <2>1, <3>2, <4>1 DEF OwnSingleInv
    <3> QED
      BY <3>1, <3>2
  <2> QED
    BY <2>1, <2>2, <2>3 DEF OwnSingleInv
<1>10. ASSUME NEW t \in Thread, EventBarrier(t)
       PROVE  OwnSingleInv'
  BY <1>10 DEF EventBarrier, OnBarrier, Step, roi, TypeOK, OwnSingleInv
<1>11. ASSUME RoiStart \/ RoiEnd
       PROVE  OwnSingleInv'
  <2>1. /\ UNCHANGED <<stretch, in_single>>
        /\ \A u \in Thread : pc[u] # "tail" /\ pc'[u] # "tail"
    BY <1>11 DEF RoiStart, RoiEnd, program, TypeOK, GroupInv, InTeam
  <2> QED
    BY <2>1 DEF OwnSingleInv
<1>12. ASSUME SerialBarrier
       PROVE  OwnSingleInv'
  <2>1. /\ UNCHANGED <<stretch, pc, in_roi>>
        /\ pc[Master] = "serial"
        /\ in_single' = [in_single EXCEPT ![Master] = FALSE]
    BY <1>12 DEF SerialBarrier, OnBarrier, roi
  <2> QED
    BY <2>1 DEF TypeOK, OwnSingleInv
<1>13. ASSUME EventExit \/ UNCHANGED vars
       PROVE  OwnSingleInv'
  BY <1>13 DEF EventExit, vars, program, roi, OwnSingleInv
<1> QED
  BY <1>2, <1>3, <1>4, <1>5, <1>6, <1>7, <1>8, <1>9, <1>10, <1>11, <1>12,
     <1>13 DEF Next, ProgramStep, ThreadStep, Stopped

----------------------------------------------------------------------------
\* A thread saves at its barrier if and only if the barrier is counted.
LEMMA BarrierSaves ==
  ASSUME TypeOK, OwnSingleInv, NEW t \in Thread, EventBarrier(t)
  PROVE  /\ IF in_roi /\ Counted(stretch)
            THEN SaveData(t, "GOMP_barrier") ELSE UNCHANGED current
         /\ UNCHANGED <<in_roi, stretch>>
         /\ pc[t] \in {"body", "tail"} /\ pc'[t] = "waiting"
         /\ \A u \in Thread : u # t => pc'[u] = pc[u]
<1>1. /\ UNCHANGED <<in_roi, stretch>>
      /\ pc[t] = IF stretch.single = "none" THEN "body" ELSE "tail"
      /\ stretch.close = "barrier"
      /\ pc'[t] = "waiting"
      /\ \A u \in Thread : u # t => pc'[u] = pc[u]
  BY DEF EventBarrier, Step, roi, TypeOK
<1>2. in_roi => (in_single[t] <=> ~Counted(stretch))
  BY <1>1 DEF OwnSingleInv, Counted, TypeOK, Stretch
<1> QED
  BY <1>1, <1>2 DEF EventBarrier, OnBarrier

\* A save counts for the thread that makes it, and for synch_count if that
\* is the master.
LEMMA SaveCounts ==
  ASSUME TypeOK, MasterInv, tls[Master], NEW t \in Thread, NEW name \in Name,
         SaveData(t, name)
  PROVE  /\ cur_synch_id'[t] = cur_synch_id[t] + 1
         /\ \A u \in Thread : u # t => cur_synch_id'[u] = cur_synch_id[u]
         /\ synch_count' = IF t = Master THEN synch_count + 1 ELSE synch_count
<1>1. is_master[t] <=> t = Master
  BY DEF MasterInv, Worker, TypeOK
<1> QED
  BY <1>1, SaveEffect DEF SaveData

\* A thread that saves, and one that does not: what AheadInv compares stays
\* as it was if the thread is then ahead by one more.
LEMMA AheadSave ==
  ASSUME TypeOK, MasterInv, tls[Master], AheadInv,
         NEW t \in Thread, NEW name \in Name, SaveData(t, name),
         \A u \in Thread : u # t =>
           /\ Ahead(u)' = Ahead(u)
           /\ pc'[u] = pc[u],
         Ahead(t)' = Ahead(t) + 1 \/ (t # Master /\ pc'[t] = "exited"
                                      /\ Ahead(t)' = Ahead(t)),
         pc[t] # "exited"
  PROVE  AheadInv'
<1>1. \A u \in Thread : Ahead(u) \in {-1, 0, 1}
  BY DEF Ahead
<1>2. synch_count \in Int /\ \A u \in Thread : cur_synch_id[u] \in Int
  BY DEF TypeOK
<1>3. Ahead(Master) \in Int /\ Ahead(t) \in Int
  BY <1>1, ThreadAssumption
<1>4. ASSUME NEW u \in Thread
      PROVE  cur_synch_id'[u] - Ahead(u)' <=
               synch_count' - Ahead(Master)'
                 + (IF pc'[u] = "exited" THEN 1 ELSE 0)
  <2> DEFINE gone(p) == IF p = "exited" THEN 1 ELSE 0
  <2>1. /\ cur_synch_id[u] - Ahead(u) <=
             synch_count - Ahead(Master) + gone(pc[u])
        /\ cur_synch_id[t] - Ahead(t) <= synch_count - Ahead(Master)
    BY <1>2, <1>3 DEF AheadInv
  <2>2. Ahead(u) \in Int
    BY <1>1
  <2>3. gone(pc[u]) \in Int /\ gone(pc'[u]) \in {0, 1}
    OBVIOUS
  <2>4. synch_count' - Ahead(Master)' = synch_count - Ahead(Master)
    <3>1. CASE t = Master
      BY <1>2, <1>3, <3>1, SaveCounts
    <3>2. CASE t # Master
      BY <3>2, SaveCounts, ThreadAssumption
    <3> QED
      BY <3>1, <3>2
  <2>5. CASE u # t
    BY <2>1, <2>4, <2>5, SaveCounts
  <2>6. CASE u = t /\ Ahead(t)' = Ahead(t) + 1
    <3>1. cur_synch_id'[u] - Ahead(u)' = cur_synch_id[t] - Ahead(t)
      BY <1>2, <1>3, <2>6, SaveCounts
    <3> HIDE DEF gone
    <3> QED
      BY <1>2, <1>3, <2>1, <2>3, <2>4, <3>1
  <2>7. CASE u = t /\ pc'[t] = "exited" /\ Ahead(t)' = Ahead(t)
    <3>1. cur_synch_id'[u] - Ahead(u)' = cur_synch_id[t] - Ahead(t) + 1
      BY <1>2, <1>3, <2>7, SaveCounts
    <3> QED
      BY <1>2, <1>3, <2>1, <2>4, <2>7, <3>1
  <2> HIDE DEF gone
  <2> QED
    BY <2>5, <2>6, <2>7 DEF gone
<1> QED
  BY <1>4 DEF AheadInv

\* A step that saves nothing keeps the counters in their order if no thread
\* falls back relative to the master.
LEMMA AheadQuiet ==
  ASSUME TypeOK, AheadInv, UNCHANGED <<cur_synch_id, synch_count>>,
         NEW d \in Int, d >= 0,
         Ahead(Master)' = Ahead(Master) - d,
         \A u \in Thread :
           /\ Ahead(u)' >= Ahead(u) - d
           /\ pc[u] = "exited" => pc'[u] = "exited"
  PROVE  AheadInv'
<1>1. \A u \in Thread : Ahead(u) \in {-1, 0, 1} /\ Ahead(u)' \in {-1, 0, 1}
  BY DEF Ahead
<1>2. synch_count \in Int /\ \A u \in Thread : cur_synch_id[u] \in Int
  BY DEF TypeOK
<1>3. ASSUME NEW u \in Thread
      PROVE  cur_synch_id'[u] - Ahead(u)' <=
               synch_count' - Ahead(Master)'
                 + (IF pc'[u] = "exited" THEN 1 ELSE 0)
  <2>1. cur_synch_id[u] - Ahead(u) <=
          synch_count - Ahead(Master) + (IF pc[u] = "exited" THEN 1 ELSE 0)
    BY DEF AheadInv
  <2>2. /\ Ahead(u) \in Int /\ Ahead(u)' \in Int /\ Ahead(Master) \in Int
        /\ cur_synch_id[u] \in Int
    BY <1>1, <1>2, ThreadAssumption
  <2> QED
    BY <1>2, <2>1, <2>2
<1> QED
  BY <1>3 DEF AheadInv

\* Every step keeps the counters in their order: the master's saves and the
\* workers' differ by where they are between two barriers, and by no more.
LEMMA AheadStep ==
  ASSUME SinglesCounted, TypeOK, MasterInv, GroupInv, OwnSingleInv, AheadInv,
         [Next]_vars
  PROVE  AheadInv'
<1> USE ThreadAssumption
<1>0. \A t \in Thread : Ahead(t) \in {-1, 0, 1} /\ Ahead(t)' \in {-1, 0, 1}
  BY DEF Ahead
<1>q. ASSUME UNCHANGED <<cur_synch_id, synch_count>>,
             \A u \in Thread : /\ Ahead(u)' = Ahead(u)
                               /\ pc[u] = "exited" => pc'[u] = "exited"
      PROVE  AheadInv'
  <2>1. /\ Ahead(Master)' = Ahead(Master) - 0
        /\ \A u \in Thread : Ahead(u)' >= Ahead(u) - 0
    BY <1>0, <1>q
  <2> QED
    BY <1>q, <2>1, AheadQuiet
<1>1. ASSUME NEW tm \in SUBSET Thread, NEW f \in Fn, Fork(tm, f)
      PROVE  AheadInv'
  BY <1>1, <1>q DEF Fork, Keep, roi, current, TypeOK, Ahead, Counted
<1>2. ASSUME NEW s \in Stretch, ReleaseTeam(s)
      PROVE  AheadInv'
  <2>1. /\ UNCHANGED <<in_roi, cur_synch_id, synch_count>>
        /\ Master \in team
        /\ \A u \in Thread :
             \/ u \in team /\ pc[u] \in {"docked", "forking"}
                  /\ pc'[u] = "entering"
             \/ u # Master /\ pc'[u] = pc[u] /\ pc[u] \notin InTeam
    BY <1>2 DEF ReleaseTeam, Keep, roi, current, GroupInv, InTeam
  <2>2. CASE in_roi
    <3>1. \A u \in Thread : /\ Ahead(u) = 0
                            /\ Ahead(u)' \in {-1, 0}
                            /\ u = Master => Ahead(u)' = -1
                            /\ pc[u] = "exited" => pc'[u] = "exited"
      BY <2>1, <2>2 DEF Ahead, InTeam, GroupInv
    <3> QED
      BY <2>1, <3>1, AheadQuiet
  <2>3. CASE ~in_roi
    BY <2>1, <2>3, <1>q DEF Ahead
  <2> QED
    BY <2>2, <2>3
<1>3. ASSUME NEW s \in Stretch, ReleaseBarrier(s)
      PROVE  AheadInv'
  <2>1. /\ UNCHANGED <<in_roi, cur_synch_id, synch_count>>
        /\ Master \in team
        /\ \A u \in Thread :
             \/ u \in team /\ pc[u] = "waiting" /\ pc'[u] = "resumed"
             \/ u \notin team /\ pc'[u] = pc[u] /\ pc[u] \notin InTeam
    BY <1>3 DEF ReleaseBarrier, Keep, roi, current, GroupInv
  <2>2. CASE in_roi /\ Counted(stretch)
    <3>1. \A u \in Thread : /\ Ahead(u) \in {0, 1}
                            /\ Ahead(u)' = 0
                            /\ u = Master => Ahead(u) = 1
                            /\ pc[u] = "exited" => pc'[u] = "exited"
      BY <2>1, <2>2 DEF Ahead, InTeam
    <3> QED
      BY <2>1, <3>1, AheadQuiet
  <2>3. CASE ~(in_roi /\ Counted(stretch))
    <3>1. \A u \in Thread : /\ Ahead(u) = 0 /\ Ahead(u)' = 0
                            /\ pc[u] = "exited" => pc'[u] = "exited"
      BY <2>1, <2>3 DEF Ahead, InTeam
    <3> QED
      BY <2>1, <3>1, <1>q
  <2> QED
    BY <2>2, <2>3
<1>4. ASSUME Join \/ EndProgram
      PROVE  AheadInv'
  <2>1. UNCHANGED <<in_roi, cur_synch_id, synch_count, stretch>>
    BY <1>4 DEF Join, EndProgram, Keep, roi, current
  <2>2. \A u \in Thread :
          \/ pc'[u] = pc[u]
          \/ /\ pc[u] \in {"done", "serial", "docked"}
             /\ pc'[u] \in {"serial", "docked", "exiting"}
    <3>1. CASE Join
      <4>1. Master \in team /\ \A t \in team : pc[t] = "done"
        BY <3>1 DEF Join, GroupInv
      <4> QED
        BY <3>1, <4>1 DEF Join
    <3>2. CASE EndProgram
      BY <3>2 DEF EndProgram
    <3> QED
      BY <1>4, <3>1, <3>2
  <2> QED
    BY <2>1, <2>2, <1>q DEF Ahead, Counted
<1>5. ASSUME NEW t \in Thread, Finish(t) \/ LeavePool(t) \/ EventSingle(t)
      PROVE  AheadInv'
  <2>1. UNCHANGED <<in_roi, cur_synch_id, synch_count, stretch>>
    BY <1>5 DEF Finish, LeavePool, EventSingle, Keep, roi, current
  <2>2. \A u \in Thread :
          \/ pc'[u] = pc[u]
          \/ /\ pc[u] \in {"body", "tail", "docked"}
             /\ pc'[u] \in {"tail", "done", "exiting"}
    BY <1>5 DEF Finish, LeavePool, EventSingle, Step, TypeOK
  <2> QED
    BY <2>1, <2>2, <1>q DEF Ahead, Counted
<1>6. ASSUME NEW t \in Thread, ThreadInit(t)
      PROVE  AheadInv'
  <2>1. /\ UNCHANGED <<in_roi, stretch, synch_count>>
        /\ pc[t] = "starting" /\ pc'[t] \in {"serial", "docked"}
        /\ \A u \in Thread : u # t =>
             pc'[u] = pc[u] /\ cur_synch_id'[u] = cur_synch_id[u]
        /\ cur_synch_id'[t] \in {synch_count, cur_synch_id[t]}
    BY <1>6 DEF ThreadInit, InitRegistered, FirstId, Step, roi, TypeOK
  <2>2. \A u \in Thread : /\ Ahead(u)' = Ahead(u)
                          /\ pc'[u] = "exited" <=> pc[u] = "exited"
    BY <2>1 DEF Ahead, Counted
  <2>3. Ahead(t) = 0 /\ Ahead(Master) = 0
    BY <2>1 DEF Ahead, GroupInv, Worker
  <2>4. synch_count \in Int /\ pc[t] # "exited"
    BY <2>1 DEF TypeOK
  <2>5. cur_synch_id'[t] - Ahead(t)' <= synch_count' - Ahead(Master)'
    BY <2>1, <2>2, <2>3, <2>4, SMTT(30) DEF AheadInv, TypeOK
  <2>6. cur_synch_id'[t] - Ahead(t)' <=
          synch_count' - Ahead(Master)'
            + (IF pc'[t] = "exited" THEN 1 ELSE 0)
    BY <2>1, <2>2, <2>3, <2>4, <2>5
  <2>7. \A u \in Thread : u # t =>
          cur_synch_id'[u] - Ahead(u)' <=
            synch_count' - Ahead(Master)'
              + (IF pc'[u] = "exited" THEN 1 ELSE 0)
    BY <2>1, <2>2 DEF AheadInv
  <2> QED
    BY <2>6, <2>7 DEF AheadInv
<1>7. ASSUME NEW t \in Thread,
             EnterFunction(t) \/ ResumeBlock(t) \/ BodyBlock(t)
      PROVE  AheadInv'
  <2>1. UNCHANGED <<in_roi, cur_synch_id, synch_count, stretch>>
    BY <1>7, BlockEffect
       DEF EnterFunction, ResumeBlock, BodyBlock, program, roi
  <2>2. \A u \in Thread : \/ pc'[u] = pc[u]
                          \/ pc[u] = "entering" /\ pc'[u] = "entered"
                          \/ pc[u] = "resumed" /\ pc'[u] = "body"
    BY <1>7 DEF EnterFunction, ResumeBlock, BodyBlock, Step, program, TypeOK
  <2> QED
    BY <2>1, <2>2, <1>q DEF Ahead, Counted
<1>8. ASSUME NEW t \in Thread, EventOmpParallel(t)
      PROVE  AheadInv'
  <2>1. /\ UNCHANGED <<in_roi, stretch>>
        /\ pc[t] = "entered" /\ pc'[t] = "body"
        /\ \A u \in Thread : u # t => pc'[u] = pc[u]
    BY <1>8 DEF EventOmpParallel, Step, roi, TypeOK
  <2>2. \A u \in Thread : u # t => Ahead(u)' = Ahead(u)
    BY <2>1 DEF Ahead, Counted
  <2>3. CASE in_roi
    <3>1. SaveData(t, fn) /\ fn \in Name
      BY <1>8, <2>3 DEF EventOmpParallel, TypeOK, Name
    <3>2. Ahead(t) = -1 /\ Ahead(t)' = 0
      BY <2>1, <2>3 DEF Ahead
    <3>3. Ahead(t)' = Ahead(t) + 1
      BY <3>2
    <3>4. tls[Master]
      BY <2>1 DEF MasterInv, GroupInv, InTeam, Worker
    <3> QED
      BY <2>1, <2>2, <3>1, <3>3, <3>4, AheadSave
  <2>4. CASE ~in_roi
    <3>1. UNCHANGED current
      BY <1>8, <2>4 DEF EventOmpParallel
    <3> QED
      BY <2>1, <2>4, <3>1, <1>q DEF Ahead, current
  <2> QED
    BY <2>3, <2>4
<1>9. ASSUME NEW t \in Thread, EventBarrier(t)
      PROVE  AheadInv'
  <2>1. /\ UNCHANGED <<in_roi, stretch>>
        /\ pc[t] \in {"body", "tail"} /\ pc'[t] = "waiting"
        /\ \A u \in Thread : u # t => pc'[u] = pc[u]
    BY <1>9, BarrierSaves
  <2>2. \A u \in Thread : u # t => Ahead(u)' = Ahead(u)
    BY <2>1 DEF Ahead, Counted
  <2>3. CASE in_roi /\ Counted(stretch)
    <3>1. SaveData(t, "GOMP_barrier") /\ "GOMP_barrier" \in Name
      BY <1>9, <2>3, BarrierSaves DEF Name
    <3>2. Ahead(t) = 0 /\ Ahead(t)' = 1
      BY <2>1, <2>3 DEF Ahead, Counted
    <3>3. Ahead(t)' = Ahead(t) + 1
      BY <3>2
    <3>4. tls[Master]
      BY <2>1 DEF MasterInv, GroupInv, InTeam, Worker
    <3> QED
      BY <2>1, <2>2, <3>1, <3>3, <3>4, AheadSave
  <2>4. CASE ~(in_roi /\ Counted(stretch))
    <3>1. UNCHANGED current
      BY <1>9, <2>4, BarrierSaves
    <3>2. Ahead(t)' = Ahead(t)
      BY <2>1, <2>4 DEF Ahead, Counted
    <3> QED
      BY <2>1, <2>2, <3>1, <3>2, <1>q DEF current
  <2> QED
    BY <2>3, <2>4
<1>10. ASSUME NEW t \in Thread, ThreadExit(t)
       PROVE  AheadInv'
  <2>1. /\ UNCHANGED <<in_roi, stretch>>
        /\ pc[t] = "exiting" /\ pc'[t] = "exited"
        /\ \A u \in Thread : u # t => pc'[u] = pc[u]
    BY <1>10 DEF ThreadExit, Step, roi, TypeOK
  <2>2. \A u \in Thread : Ahead(u)' = Ahead(u)
    BY <2>1 DEF Ahead, Counted
  <2>3. CASE UNCHANGED current
    <3>1. \A u \in Thread : pc[u] = "exited" => pc'[u] = "exited"
      BY <2>1
    <3> QED
      BY <2>2, <2>3, <3>1, <1>q DEF current
  <2>4. CASE SaveData(t, "thread_exit") /\ tls[t] /\ ~is_master[t]
    <3>1. tls[Master] /\ t # Master /\ "thread_exit" \in Name
      BY <2>1, <2>4 DEF MasterInv, Name, Worker
    <3> QED
      BY <2>1, <2>2, <2>4, <3>1, AheadSave
  <2> QED
    BY <1>10, <2>3, <2>4 DEF ThreadExit
<1>11. ASSUME RoiStart
       PROVE  AheadInv'
  <2>1. /\ UNCHANGED <<pc, stretch, cur_synch_id, synch_count>>
        /\ \A u \in Thread : pc[u] \notin InTeam
    BY <1>11 DEF RoiStart, program, current, GroupInv, InTeam
  <2> QED
    BY <2>1, <1>q DEF Ahead, InTeam
<1>12. ASSUME SerialBarrier \/ RoiEnd
       PROVE  AheadInv'
  <2>1. /\ UNCHANGED <<pc, stretch>>
        /\ pc[Master] = "serial"
        /\ tls[Master]
        /\ \A u \in Thread : pc[u] \notin InTeam
    BY <1>12 DEF SerialBarrier, RoiEnd, GroupInv, InTeam, MasterInv
  <2>2. \A u \in Thread : Ahead(u) = 0 /\ Ahead(u)' = 0
    BY <2>1 DEF Ahead, InTeam
  <2>3. CASE UNCHANGED current
    BY <2>1, <2>2, <2>3, <1>q DEF current
  <2>4. ASSUME NEW name \in Name, SaveData(Master, name)
        PROVE  AheadInv'
    <3>1. /\ synch_count' = synch_count + 1
          /\ cur_synch_id'[Master] = cur_synch_id[Master] + 1
          /\ \A u \in Thread : u # Master =>
               cur_synch_id'[u] = cur_synch_id[u]
      BY <2>1, <2>4, SaveCounts
    <3>2. synch_count \in Int /\ \A u \in Thread : cur_synch_id[u] \in Int
      BY DEF TypeOK
    <3>3. \A u \in Thread : cur_synch_id[u] <=
            synch_count + (IF pc[u] = "exited" THEN 1 ELSE 0)
      BY <2>2, <3>2 DEF AheadInv
    <3>4. \A u \in Thread : cur_synch_id'[u] <=
            synch_count' + (IF pc'[u] = "exited" THEN 1 ELSE 0)
      BY <2>1, <3>1, <3>2, <3>3
    <3>5. cur_synch_id' \in [Thread -> Nat] /\ synch_count' \in Int
      BY <2>4, <3>1, <3>2, SaveDataType
    <3> QED
      BY <2>2, <3>4, <3>5 DEF AheadInv
  <2>5. "GOMP_barrier" \in Name /\ "thread_exit" \in Name
    BY DEF Name
  <2> QED
    BY <1>12, <2>3, <2>4, <2>5 DEF SerialBarrier, OnBarrier, RoiEnd
<1>13. ASSUME EventExit \/ UNCHANGED vars
       PROVE  AheadInv'
  <2>1. UNCHANGED <<pc, in_roi, stretch, cur_synch_id, synch_count>>
    BY <1>13 DEF EventExit, vars, program, roi, current
  <2> QED
    BY <2>1, <1>q DEF Ahead, Counted
<1> QED
  BY <1>1, <1>2, <1>3, <1>4, <1>5, <1>6, <1>7, <1>8, <1>9, <1>10, <1>11,
     <1>12, <1>13 DEF Next, ProgramStep, ThreadStep, Stopped

----------------------------------------------------------------------------
\* A save continues the interval of its thread's ids; nothing else can see
\* the regions but the initialisation of a thread, which empties them.
LEMMA RunsStep ==
  ASSUME TypeOK, IdsInv, RunsInv, [Next]_vars
  PROVE  RunsInv'
<1>1. CASE UNCHANGED <<cur_synch_id, regions>>
  BY <1>1 DEF RunsInv, RegionIds
<1>2. ASSUME NEW t \in Thread, NEW name \in Name, SaveData(t, name)
      PROVE  RunsInv'
  <2> SUFFICES ASSUME NEW u \in Thread, NEW r \in regions'[u]
               PROVE  \/ \E q \in regions'[u] : q.id = r.id + 1
                      \/ r.id + 1 = cur_synch_id'[u]
    BY DEF RunsInv, RegionIds
  <2>1. CASE r \in regions[u]
    <3>1. \/ \E q \in regions[u] : q.id = r.id + 1
          \/ r.id + 1 = cur_synch_id[u]
      BY <2>1 DEF RunsInv, RegionIds
    <3>2. CASE \E q \in regions[u] : q.id = r.id + 1
      BY <1>2, <3>2, SaveAdds
    <3>3. CASE r.id + 1 = cur_synch_id[u] /\ u = t
      BY <1>2, <3>3, SaveAdds
    <3>4. CASE r.id + 1 = cur_synch_id[u] /\ u # t
      BY <1>2, <3>4, SaveAdds
    <3> QED
      BY <3>1, <3>2, <3>3, <3>4
  <2>2. CASE r \notin regions[u]
    BY <1>2, <2>2, SaveAdds
  <2> QED
    BY <2>1, <2>2
<1>3. ASSUME NEW t \in Thread, ThreadInit(t)
      PROVE  RunsInv'
  <2>1. \A u \in Thread : \/ /\ cur_synch_id'[u] = cur_synch_id[u]
                             /\ regions'[u] = regions[u]
                          \/ regions'[u] = {}
    BY <1>3 DEF ThreadInit, TypeOK
  <2> QED
    BY <2>1 DEF RunsInv, RegionIds
<1> QED
  BY <1>1, <1>2, <1>3, StepKinds

\* Whatever teams the program forms, and wherever it meets its barriers, the
\* ids a worker has saved form an interval that ends at its counter, and the
\* counter is at most two above the master's: a worker can save the start of
\* a function and the barrier in it before the master has saved either, and
\* then it waits.  (But for "single nowait" under -ignore_single.)
THEOREM WorkersStayClose ==
  ASSUME SinglesCounted
  PROVE  Spec => []WorkersNotAhead
<1>1. Init => WorkersInv
  <2> SUFFICES ASSUME Init PROVE WorkersInv
    OBVIOUS
  <2>1. TypeOK /\ MasterInv /\ IdsInv
    BY InitType, ThreadAssumption DEF Init, MasterInv, RegionIds, Worker,
       IdsInv
  <2>2. GroupInv
    BY ThreadAssumption DEF Init, GroupInv, InTeam, Worker
  <2>3. OwnSingleInv /\ AheadInv /\ RunsInv
    BY ThreadAssumption DEF Init, OwnSingleInv, AheadInv, Ahead, RunsInv
  <2> QED
    BY <2>1, <2>2, <2>3 DEF WorkersInv
<1>2. WorkersInv /\ [Next]_vars => WorkersInv'
  BY TypeStep, MasterStep, IdsStep, GroupStep, OwnSingleStep, AheadStep,
     RunsStep DEF WorkersInv
<1>3. WorkersInv => WorkersNotAhead
  <2> SUFFICES ASSUME WorkersInv, NEW t \in Worker
               PROVE  cur_synch_id[t] <= synch_count + 2
    BY DEF WorkersNotAhead, WorkersInv, RunsInv, Worker
  <2>1. t \in Thread /\ cur_synch_id[t] \in Int /\ synch_count \in Int
    BY DEF WorkersInv, TypeOK, Worker
  <2>2. /\ Ahead(t) \in {-1, 0, 1} /\ Ahead(Master) \in {-1, 0, 1}
        /\ pc[t] = "exited" => Ahead(t) = 0
    BY DEF Ahead
  <2>3. cur_synch_id[t] - Ahead(t) <=
          synch_count - Ahead(Master) + (IF pc[t] = "exited" THEN 1 ELSE 0)
    BY <2>1 DEF WorkersInv, AheadInv
  <2> QED
    BY <2>1, <2>2, <2>3
<1> QED
  BY <1>1, <1>2, <1>3, PTL DEF Spec

-----------------------------------------------------------------------------
(***************************************************************************)
(* What the client's files are made from: the references in the histograms *)
(* of the regions, and the regions that align_synch_bb and the save_       *)
(* functions look up by id when the program has ended.                     *)
(***************************************************************************)
----------------------------------------------------------------------------
(* The histograms.                                                         *)

\* The ROI has not started, is running, or has ended; until it ends every
\* block gets its clean call.
PhaseInv ==
  /\ roi_start_detected => in_roi \/ roi_has_ended
  /\ roi_has_ended \/ Inserting

\* The points at which the references in the buffer of a thread were made,
\* from where the thread is: it holds those of one block, and the first
\* block after each point drains it.
Buffered(t) ==
  CASE pc[t] = "entering" -> {Passed - 2, Passed - 1}
    [] pc[t] \in {"entered", "body", "tail", "waiting", "done"} -> {Passed}
    [] OTHER -> {Passed - 1, Passed}

BufInv ==
  /\ \A t \in Thread : ~tls[t] => buf[t] = {}
  /\ ~roi_start_detected => \A t \in Thread : buf[t] \subseteq {-1}
  /\ in_roi => \A t \in Thread :
       pc[t] \notin Gone => buf[t] \subseteq Buffered(t)

\* What a thread has drained so far will belong to the region it is in.
HistInv ==
  \A t \in Thread :
    cur_lru_hist[t] \subseteq {cur_synch_id[t] - 1, cur_synch_id[t]}

RefsInv ==
  /\ TypeOK /\ TeamInv /\ StartInv /\ SingleInv /\ CountInv
  /\ PhaseInv /\ BufInv /\ HistInv /\ RefsLag

\* The phases of the ROI follow one another.
LEMMA PhaseStep ==
  ASSUME TypeOK, PhaseInv, [Next]_vars
  PROVE  PhaseInv'
<1> USE DEF PhaseInv, Inserting
<1>1. ASSUME NEW t \in Thread,
             EnterFunction(t) \/ ResumeBlock(t) \/ BodyBlock(t)
      PROVE  PhaseInv'
  <2>1. UNCHANGED roi
    BY <1>1, BlockEffect DEF EnterFunction, ResumeBlock, BodyBlock
  <2> QED
    BY <2>1 DEF roi
<1>2. ASSUME NEW t \in Thread,
             \/ ThreadInit(t) \/ EventOmpParallel(t) \/ EventBarrier(t)
             \/ EventSingle(t) \/ ThreadExit(t) \/ Finish(t) \/ LeavePool(t)
      PROVE  PhaseInv'
  BY <1>2 DEF ThreadInit, EventOmpParallel, EventBarrier, EventSingle,
     ThreadExit, Finish, LeavePool, Keep, roi
<1>3. ASSUME \/ \E tm \in SUBSET Thread, f \in Fn : Fork(tm, f)
             \/ \E s \in Stretch : ReleaseTeam(s) \/ ReleaseBarrier(s)
             \/ Join \/ EndProgram \/ EventExit \/ UNCHANGED vars
             \/ SerialBarrier
      PROVE  PhaseInv'
  BY <1>3 DEF Fork, ReleaseTeam, ReleaseBarrier, Join, EndProgram, EventExit,
     SerialBarrier, vars, Keep, roi
<1>4. ASSUME RoiStart \/ RoiEnd
      PROVE  PhaseInv'
  BY <1>4 DEF RoiStart, RoiEnd
<1> QED
  BY <1>1, <1>2, <1>3, <1>4 DEF Next, ProgramStep, ThreadStep, Stopped

\* What a block does to the references: in the ROI it replaces those of its
\* thread's last block by its own, and before the end of the ROI it may put
\* the replaced ones into the histogram.
LEMMA BlockRefs ==
  ASSUME TypeOK, StartInv, PhaseInv, BufInv, NEW t \in Thread,
         NEW blk \in {"entry", "body"}, ExecuteBlock(t, blk) \/ SkipBlock
  PROVE  /\ \A u \in Thread : u # t => buf'[u] = buf[u]
         /\ buf'[t] \in {buf[t], {}, {Now}}
         /\ in_roi => buf'[t] \in {{}, {Now}}
         /\ ~tls[t] => buf'[t] = {}
         /\ \A u \in Thread :
              \/ cur_lru_hist'[u] = cur_lru_hist[u]
              \/ /\ u = t /\ cur_lru_hist'[t] = cur_lru_hist[t] \cup buf[t]
                 /\ in_roi \/ ~roi_start_detected
<1>1. CASE SkipBlock
  <2>1. roi_has_ended /\ UNCHANGED <<buf, cur_lru_hist>> /\ ~Inserting
    BY <1>1 DEF SkipBlock, PhaseInv, current
  <2> QED
    BY <1>1, <2>1 DEF BufInv, StartInv
<1>2. CASE ExecuteBlock(t, blk) /\ tls[t]
  <2>1. /\ buf' = [buf EXCEPT ![t] = {Now}]
        /\ \/ UNCHANGED cur_lru_hist
           \/ /\ in_roi \/ ~roi_has_ended
              /\ cur_lru_hist' =
                   [cur_lru_hist EXCEPT ![t] = cur_lru_hist[t] \cup buf[t]]
    BY <1>2 DEF ExecuteBlock, DrainAndFill, AddAddress
  <2>2. in_roi \/ ~roi_has_ended => in_roi \/ ~roi_start_detected
    BY DEF PhaseInv
  <2> QED
    BY <1>2, <2>1, <2>2 DEF TypeOK
<1>3. CASE ExecuteBlock(t, blk) /\ ~tls[t]
  <2>1. UNCHANGED <<buf, cur_lru_hist>>
    BY <1>3 DEF ExecuteBlock, current
  <2>2. buf[t] = {}
    BY <1>3 DEF BufInv
  <2> QED
    BY <2>1, <2>2
<1> QED
  BY <1>1, <1>2, <1>3

\* A step that leaves the buffers and the ROI alone keeps BufInv if it takes
\* each thread to a place where it may have what it has.
LEMMA BufQuiet ==
  ASSUME BufInv,
         UNCHANGED <<buf, tls, in_roi, roi_start_detected>>,
         in_roi => \A u \in Thread : pc'[u] \notin Gone =>
           /\ pc[u] \notin Gone
           /\ Buffered(u) \subseteq Buffered(u)'
  PROVE  BufInv'
BY DEF BufInv

\* A block leaves in the buffer what its thread may have where it goes.
LEMMA BlockBufs ==
  ASSUME Plain, TypeOK, StartInv, PhaseInv, BufInv, NEW t \in Thread,
         EnterFunction(t) \/ ResumeBlock(t) \/ BodyBlock(t)
  PROVE  BufInv'
<1>1. PICK blk \in {"entry", "body"} : ExecuteBlock(t, blk) \/ SkipBlock
  BY DEF EnterFunction, ResumeBlock, BodyBlock
<1>2. UNCHANGED <<roi, birth, script>>
  BY <1>1, ExecuteBlockType DEF EnterFunction, ResumeBlock, BodyBlock, program
<1>3. /\ \A u \in Thread : u # t => pc'[u] = pc[u]
      /\ pc[t] \notin Gone
      /\ pc'[t] # "entering"
  BY DEF EnterFunction, ResumeBlock, BodyBlock, Step, program, TypeOK, Gone
<1>4. Now = IF roi_start_detected THEN Passed ELSE -1
  BY DEF Now
<1>5. \A u \in Thread : ~tls'[u] => buf'[u] = {}
  BY <1>1, <1>2, BlockRefs DEF BufInv, birth
<1>6. ~roi_start_detected' => \A u \in Thread : buf'[u] \subseteq {-1}
  BY <1>1, <1>2, <1>4, BlockRefs DEF BufInv, roi
<1>7. ASSUME in_roi', NEW u \in Thread, pc'[u] \notin Gone
      PROVE  buf'[u] \subseteq Buffered(u)'
  <2>1. in_roi /\ roi_start_detected
    BY <1>2, <1>7 DEF StartInv, roi
  <2>2. CASE u # t
    <3>1. buf[u] \subseteq Buffered(u) /\ buf'[u] = buf[u]
      BY <1>1, <1>3, <1>7, <2>1, <2>2, BlockRefs DEF BufInv
    <3> QED
      BY <1>2, <1>3, <2>2, <3>1 DEF Buffered, Passed
  <2>3. CASE u = t
    <3>1. buf'[t] \in {{}, {Passed}}
      BY <1>1, <1>4, <2>1, BlockRefs
    <3> QED
      BY <1>2, <1>3, <2>3, <3>1 DEF Buffered, Passed
  <2> QED
    BY <2>2, <2>3
<1> QED
  BY <1>5, <1>6, <1>7 DEF BufInv

\* Every step keeps the references of a buffer at the last point or, until
\* its thread's next block, at the one before.
LEMMA BufStep ==
  ASSUME Plain, TypeOK, TeamInv, StartInv, PhaseInv, BufInv, [Next]_vars
  PROVE  BufInv'
<1> USE ThreadAssumption
<1>0. Passed \in Nat
  BY DEF TypeOK, Passed
<1>1. ASSUME NEW tm \in SUBSET Thread, NEW f \in Fn, Fork(tm, f)
      PROVE  BufInv'
  <2>1. UNCHANGED <<buf, tls, in_roi, roi_start_detected, script>>
    BY <1>1 DEF Fork, Keep, roi, birth
  <2>2. \A u \in Thread :
          \/ pc'[u] = pc[u]
          \/ /\ pc[u] \in {"serial", "unborn"}
             /\ pc'[u] \in {"forking", "starting"}
    BY <1>1 DEF Fork
  <2> QED
    BY <2>1, <2>2, BufQuiet DEF Buffered, Passed, Gone
<1>2. ASSUME NEW s \in Stretch, ReleaseTeam(s)
      PROVE  BufInv'
  <2>1. UNCHANGED <<buf, tls, in_roi, roi_start_detected>>
    BY <1>2 DEF ReleaseTeam, Keep, roi, birth
  <2>2. team = Alive
    BY <1>2 DEF ReleaseTeam, TeamInv
  <2>3. \A u \in Thread :
          \/ pc[u] \in {"docked", "forking"} /\ pc'[u] = "entering"
          \/ pc[u] \in Gone /\ pc'[u] = pc[u]
    BY <1>2, <2>2 DEF ReleaseTeam, Alive, Gone
  <2>4. in_roi => Passed' = Passed + 1
    BY <1>2 DEF ReleaseTeam, Passed, TypeOK, Name
  <2>5. in_roi => \A u \in Thread : pc'[u] \notin Gone =>
          pc[u] \notin Gone /\ Buffered(u) \subseteq Buffered(u)'
    BY <1>0, <2>3, <2>4 DEF Buffered, Gone
  <2> QED
    BY <2>1, <2>5, BufQuiet
<1>3. ASSUME NEW s \in Stretch, ReleaseBarrier(s)
      PROVE  BufInv'
  <2>1. UNCHANGED <<buf, tls, in_roi, roi_start_detected>>
    BY <1>3 DEF ReleaseBarrier, Keep, roi, birth
  <2>2. team = Alive
    BY <1>3 DEF ReleaseBarrier, TeamInv
  <2>3. \A u \in Thread :
          \/ pc[u] = "waiting" /\ pc'[u] = "resumed"
          \/ pc[u] \in Gone /\ pc'[u] = pc[u]
    BY <1>3, <2>2 DEF ReleaseBarrier, Alive, Gone
  <2>4. in_roi => Passed' \in {Passed, Passed + 1}
    BY <1>3 DEF ReleaseBarrier, Passed, TypeOK, Name
  <2>5. in_roi => \A u \in Thread : pc'[u] \notin Gone =>
          pc[u] \notin Gone /\ Buffered(u) \subseteq Buffered(u)'
    BY <1>0, <2>3, <2>4 DEF Buffered, Gone
  <2> QED
    BY <2>1, <2>5, BufQuiet
<1>4. ASSUME Join \/ EndProgram
      PROVE  BufInv'
  <2>1. UNCHANGED <<buf, tls, in_roi, roi_start_detected, script>>
    BY <1>4 DEF Join, EndProgram, Keep, roi, birth
  <2>2. \A u \in Thread :
          \/ pc'[u] = pc[u]
          \/ pc[u] = "done" /\ pc'[u] \in {"serial", "docked"}
          \/ pc'[u] = "exiting"
    <3>1. CASE Join
      <4>1. pc[Master] = "done"
        BY <3>1 DEF Join, TeamInv, Alive, InTeam
      <4> QED
        BY <3>1, <4>1 DEF Join
    <3>2. CASE EndProgram
      BY <3>2 DEF EndProgram
    <3> QED
      BY <1>4, <3>1, <3>2
  <2> QED
    BY <1>0, <2>1, <2>2, BufQuiet DEF Buffered, Passed, Gone
<1>5. ASSUME NEW t \in Thread,
             \/ Finish(t) \/ LeavePool(t) \/ EventSingle(t)
             \/ EventOmpParallel(t) \/ EventBarrier(t) \/ ThreadExit(t)
      PROVE  BufInv'
  <2>1. UNCHANGED <<buf, tls, in_roi, roi_start_detected, script>>
    BY <1>5 DEF Finish, LeavePool, EventSingle, EventOmpParallel,
       EventBarrier, ThreadExit, Keep, roi, birth
  <2>2. \A u \in Thread :
          \/ pc'[u] = pc[u]
          \/ /\ pc[u] \in {"entered", "body", "tail"}
             /\ pc'[u] \in {"body", "tail", "waiting", "done"}
          \/ pc'[u] \in Gone
    BY <1>5 DEF Finish, LeavePool, EventSingle, EventOmpParallel,
       EventBarrier, ThreadExit, Step, TypeOK, Gone
  <2> QED
    BY <2>1, <2>2, BufQuiet DEF Buffered, Passed, Gone
<1>6. ASSUME NEW t \in Thread, ThreadInit(t)
      PROVE  BufInv'
  <2>1. /\ UNCHANGED <<in_roi, roi_start_detected, script>>
        /\ pc[t] = "starting" /\ pc'[t] \in {"serial", "docked"}
        /\ \A u \in Thread : u # t =>
             /\ pc'[u] = pc[u] /\ buf'[u] = buf[u] /\ tls'[u] = tls[u]
        /\ \/ buf'[t] = {}
           \/ buf'[t] = buf[t] /\ tls'[t] = tls[t]
    BY <1>6 DEF ThreadInit, Step, roi, birth, TypeOK
  <2>2. \A u \in Thread : Buffered(u)' = Buffered(u)
    BY <2>1 DEF Buffered, Passed
  <2>3. \A u \in Thread : \/ buf'[u] = {}
                          \/ /\ buf'[u] = buf[u] /\ tls'[u] = tls[u]
                             /\ pc[u] \in Gone <=> pc'[u] \in Gone
    BY <2>1 DEF Gone
  <2> QED
    BY <2>1, <2>2, <2>3 DEF BufInv
<1>7. CASE RoiStart
  <2>1. UNCHANGED <<buf, tls, pc, script>>
    BY <1>7 DEF RoiStart, program, birth
  <2>2. CASE roi_start_detected
    <3>1. UNCHANGED <<in_roi, roi_start_detected>>
      <4>1. roi_start_detected' = TRUE /\ in_roi' = in_roi
        BY <1>7, <2>2 DEF RoiStart
      <4> QED
        BY <2>2, <4>1 DEF TypeOK
    <3> QED
      BY <2>1, <3>1, BufQuiet DEF Buffered, Passed
  <2>3. CASE ~roi_start_detected
    <3>1. \A u \in Thread : pc[u] \notin InTeam
      BY <1>7 DEF RoiStart, TeamInv, InTeam
    <3>2. Passed = 0 /\ \A u \in Thread : buf[u] \subseteq {-1}
      BY <2>3 DEF StartInv, BufInv
    <3>3. \A u \in Thread : -1 \in Buffered(u)'
      BY <2>1, <3>1, <3>2 DEF Buffered, Passed, InTeam
    <3>4. roi_start_detected'
      BY <1>7 DEF RoiStart
    <3> QED
      BY <2>1, <3>2, <3>3, <3>4 DEF BufInv
  <2> QED
    BY <2>2, <2>3
<1>8. CASE RoiEnd
  <2>1. /\ UNCHANGED <<buf, tls, roi_start_detected>>
        /\ ~in_roi'
    BY <1>8 DEF RoiEnd, birth
  <2> QED
    BY <2>1 DEF BufInv
<1>9. ASSUME EventExit \/ UNCHANGED vars
      PROVE  BufInv'
  <2>1. UNCHANGED <<buf, tls, in_roi, roi_start_detected, pc, script>>
    BY <1>9 DEF EventExit, vars, program, roi, birth
  <2> QED
    BY <2>1, BufQuiet DEF Buffered, Passed
<1>10. ~SerialBarrier
  BY DEF SerialBarrier, Plain, Misaligning
<1> QED
  BY <1>1, <1>2, <1>3, <1>4, <1>5, <1>6, <1>7, <1>8, <1>9, <1>10, BlockBufs
     DEF Next, ProgramStep, ThreadStep, Stopped

\* A save moves the histogram of its thread into the region it adds.
LEMMA SaveRefs ==
  ASSUME TypeOK, NEW t \in Thread, NEW name \in Name, SaveData(t, name)
  PROVE  /\ \A u \in Thread : u # t =>
              /\ cur_lru_hist'[u] = cur_lru_hist[u]
              /\ regions'[u] = regions[u]
         /\ cur_lru_hist'[t] = {}
         /\ \A r \in regions'[t] :
              \/ r \in regions[t]
              \/ r.id = cur_synch_id[t] /\ r.hist = cur_lru_hist[t]
<1> DEFINE new == [id |-> cur_synch_id[t], name |-> name,
                   bbv |-> cur_bbv[t], hist |-> cur_lru_hist[t]]
<1>1. new.id = cur_synch_id[t] /\ new.hist = cur_lru_hist[t]
  OBVIOUS
<1>2. \/ regions' = [regions EXCEPT ![t] = regions[t]]
      \/ regions' = [regions EXCEPT ![t] = regions[t] \cup {new}]
  BY DEF SaveData, SaveBarrier, Inserted, TypeOK
<1>3. cur_lru_hist' = [cur_lru_hist EXCEPT ![t] = {}]
  BY DEF SaveData, SaveBarrier
<1> HIDE DEF new
<1> QED
  BY <1>1, <1>2, <1>3 DEF TypeOK

\* When a block runs, what it drains was referenced in the region its thread
\* is in or at the end of the one before it.
LEMMA DrainedInTime ==
  ASSUME TypeOK, StartInv, CountInv, BufInv, NEW t \in Thread,
         EnterFunction(t) \/ ResumeBlock(t) \/ BodyBlock(t),
         in_roi \/ ~roi_start_detected
  PROVE  buf[t] \subseteq {cur_synch_id[t] - 1, cur_synch_id[t]}
<1>1. pc[t] \in {"entering", "resumed", "serial", "body", "tail"}
  BY DEF EnterFunction, ResumeBlock, BodyBlock, Step
<1>2. Passed \in Nat
  BY DEF TypeOK, Passed
<1>3. CASE in_roi
  <2>1. cur_synch_id[t] = Expected(t) /\ buf[t] \subseteq Buffered(t)
    BY <1>1, <1>3 DEF CountInv, BufInv, Gone
  <2>2. CASE pc[t] = "entering"
    BY <1>2, <2>1, <2>2 DEF Expected, Buffered
  <2>3. CASE pc[t] # "entering"
    BY <1>1, <1>2, <2>1, <2>3 DEF Expected, Buffered
  <2> QED
    BY <2>2, <2>3
<1>4. CASE ~roi_start_detected
  BY <1>4 DEF StartInv, BufInv
<1> QED
  BY <1>3, <1>4

\* Every step keeps the references of a region in its interval.
LEMMA HistStep ==
  ASSUME Plain, RefsInv, [Next]_vars
  PROVE  HistInv' /\ RefsLag'
<1> USE ThreadAssumption DEF RefsInv
<1>1. ASSUME UNCHANGED <<cur_lru_hist, cur_synch_id, regions>>
      PROVE  HistInv' /\ RefsLag'
  BY <1>1 DEF HistInv, RefsLag
<1>2. ASSUME NEW t \in Thread, NEW name \in Name, SaveData(t, name)
      PROVE  HistInv' /\ RefsLag'
  <2>1. HistInv'
    BY <1>2, SaveRefs, SaveEffect DEF HistInv
  <2>2. ASSUME NEW u \in Thread, NEW r \in regions'[u], NEW a \in r.hist
        PROVE  a \in {r.id - 1, r.id}
    <3>1. CASE r \in regions[u]
      BY <3>1 DEF RefsLag
    <3>2. CASE u = t /\ r.id = cur_synch_id[t] /\ r.hist = cur_lru_hist[t]
      BY <3>2 DEF HistInv
    <3> QED
      BY <1>2, <3>1, <3>2, SaveRefs
  <2> QED
    BY <2>1, <2>2 DEF RefsLag
<1>3. ASSUME NEW t \in Thread,
             EnterFunction(t) \/ ResumeBlock(t) \/ BodyBlock(t)
      PROVE  HistInv' /\ RefsLag'
  <2>1. PICK blk \in {"entry", "body"} : ExecuteBlock(t, blk) \/ SkipBlock
    BY <1>3 DEF EnterFunction, ResumeBlock, BodyBlock
  <2>2. UNCHANGED <<cur_synch_id, regions>>
    BY <2>1, BlockEffect
  <2>3. ASSUME NEW u \in Thread
        PROVE  cur_lru_hist'[u] \subseteq
                 {cur_synch_id[u] - 1, cur_synch_id[u]}
    <3>1. CASE cur_lru_hist'[u] = cur_lru_hist[u]
      BY <3>1 DEF HistInv
    <3>2. CASE /\ u = t
               /\ cur_lru_hist'[t] = cur_lru_hist[t] \cup buf[t]
               /\ in_roi \/ ~roi_start_detected
      BY <1>3, <3>2, DrainedInTime DEF HistInv
    <3> QED
      BY <2>1, <3>1, <3>2, BlockRefs
  <2> QED
    BY <2>2, <2>3 DEF HistInv, RefsLag
<1>4. ASSUME NEW t \in Thread, ThreadInit(t)
      PROVE  HistInv' /\ RefsLag'
  <2>1. \A u \in Thread : \/ /\ cur_lru_hist'[u] = cur_lru_hist[u]
                             /\ cur_synch_id'[u] = cur_synch_id[u]
                             /\ regions'[u] = regions[u]
                          \/ cur_lru_hist'[u] = {} /\ regions'[u] = {}
    BY <1>4 DEF ThreadInit, TypeOK
  <2> QED
    BY <2>1 DEF HistInv, RefsLag
<1>5. ASSUME NEW t \in Thread,
             EventOmpParallel(t) \/ EventBarrier(t) \/ ThreadExit(t)
      PROVE  \/ UNCHANGED <<cur_lru_hist, cur_synch_id, regions>>
             \/ \E name \in Name : SaveData(t, name)
  BY <1>5 DEF EventOmpParallel, EventBarrier, ThreadExit, OnBarrier, current,
     Name, TypeOK
<1>6. ASSUME RoiEnd
      PROVE  \/ UNCHANGED <<cur_lru_hist, cur_synch_id, regions>>
             \/ SaveData(Master, "thread_exit")
  BY <1>6 DEF RoiEnd, current
<1>7. ASSUME NEW t \in Thread,
             Finish(t) \/ EventSingle(t) \/ LeavePool(t)
      PROVE  UNCHANGED <<cur_lru_hist, cur_synch_id, regions>>
  BY <1>7 DEF Finish, EventSingle, LeavePool, Keep, current
<1>8. ASSUME \/ \E tm \in SUBSET Thread, f \in Fn : Fork(tm, f)
             \/ \E s \in Stretch : ReleaseTeam(s) \/ ReleaseBarrier(s)
             \/ Join \/ EndProgram \/ RoiStart \/ EventExit \/ UNCHANGED vars
      PROVE  UNCHANGED <<cur_lru_hist, cur_synch_id, regions>>
  BY <1>8 DEF Fork, ReleaseTeam, ReleaseBarrier, Join, EndProgram, RoiStart,
     EventExit, vars, Keep, current
<1>9. ~SerialBarrier
  BY DEF SerialBarrier, Plain, Misaligning
<1>10. "thread_exit" \in Name
  BY DEF Name
<1> QED
  BY <1>1, <1>2, <1>3, <1>4, <1>5, <1>6, <1>7, <1>8, <1>9, <1>10
     DEF Next, ProgramStep, ThreadStep, Stopped

\* If nothing misaligns the threads' regions, the histogram of region k holds
\* references made in region k or at the end of the one before it: the
\* buffer that clean_call drains holds back one block at most, and what
\* follows the ROI is never counted.
THEOREM ReferencesLag ==
  ASSUME Plain
  PROVE  Spec => []RefsLag
<1>1. Init => RefsInv
  <2> SUFFICES ASSUME Init PROVE RefsInv
    OBVIOUS
  <2>1. TypeOK /\ TeamInv /\ StartInv /\ SingleInv /\ CountInv
    BY AlignInit DEF AlignInv
  <2>2. PhaseInv /\ BufInv /\ HistInv /\ RefsLag
    BY DEF Init, PhaseInv, Inserting, BufInv, HistInv, RefsLag
  <2> QED
    BY <2>1, <2>2 DEF RefsInv
<1>2. RefsInv /\ [Next]_vars => RefsInv'
  BY TypeStep, TeamStep, StartStep, SingleStep, CountStep, PhaseStep,
     BufStep, HistStep DEF RefsInv
<1>3. RefsInv => RefsLag
  BY DEF RefsInv
<1> QED
  BY <1>1, <1>2, <1>3, PTL DEF Spec

----------------------------------------------------------------------------
(* The regions.                                                            *)

\* The program ends its ROI once, or the client stops it when it does not.
OneRoi == "second_roi" \notin Habits \/ Debug

\* No thread of the pool leaves before the master does.
Stay == "early_exit" \notin Habits

\* A thread has a region for each id from 0.
FullInv == \A t \in Thread : tls[t] => RegionIds(t) = 0 .. cur_synch_id[t] - 1

\* How many regions the threads are short of synch_count: one, of those that
\* have still to leave, once the master has saved its last; none, of those
\* in the files.
ShortInv ==
  /\ threads \subseteq {t \in Thread : tls[t] /\ pc[t] = "exited"}
  /\ ~roi_start_detected => threads = {}
  /\ \A t \in Thread : tls[t] /\ (roi_has_ended \/ pc[t] = "exiting") =>
       cur_synch_id[t] + 1 >= synch_count
  /\ \A t \in threads : cur_synch_id[t] >= synch_count
  /\ status # "missing_region"

\* A thread gets its data in event_thread_init and nowhere else.
LEMMA TlsKinds ==
  ASSUME TypeOK, [Next]_vars
  PROVE  UNCHANGED tls \/ \E t \in Thread : ThreadInit(t)
<1>1. ASSUME NEW t \in Thread,
             EnterFunction(t) \/ ResumeBlock(t) \/ BodyBlock(t)
      PROVE  UNCHANGED tls
  <2>1. \E blk \in {"entry", "body"} : ExecuteBlock(t, blk) \/ SkipBlock
    BY <1>1 DEF EnterFunction, ResumeBlock, BodyBlock
  <2> QED
    BY <2>1, ExecuteBlockType DEF birth
<1>2. ASSUME NEW t \in Thread,
             \/ EventOmpParallel(t) \/ EventBarrier(t) \/ ThreadExit(t)
             \/ Finish(t) \/ EventSingle(t) \/ LeavePool(t)
      PROVE  UNCHANGED tls
  BY <1>2 DEF EventOmpParallel, EventBarrier, ThreadExit, Finish,
     EventSingle, LeavePool, Keep, birth
<1>3. ASSUME \/ \E tm \in SUBSET Thread, f \in Fn : Fork(tm, f)
             \/ \E s \in Stretch : ReleaseTeam(s) \/ ReleaseBarrier(s)
             \/ Join \/ EndProgram \/ RoiStart \/ RoiEnd \/ SerialBarrier
             \/ EventExit \/ UNCHANGED vars
      PROVE  UNCHANGED tls
  BY <1>3 DEF Fork, ReleaseTeam, ReleaseBarrier, Join, EndProgram, RoiStart,
     RoiEnd, SerialBarrier, EventExit, vars, Keep, birth
<1> QED
  BY <1>1, <1>2, <1>3 DEF Next, ProgramStep, ThreadStep, Stopped

\* In a plain program a thread that is initialised counts from 0.
LEMMA BornAtZero ==
  ASSUME Plain, TypeOK, StartInv, CourseInv, NEW t \in Thread, ThreadInit(t)
  PROVE  /\ \A u \in Thread : u # t =>
              /\ tls'[u] = tls[u]
              /\ cur_synch_id'[u] = cur_synch_id[u]
              /\ regions'[u] = regions[u]
         /\ \/ UNCHANGED <<tls, cur_synch_id, regions>>
            \/ /\ cur_synch_id'[t] = 0 /\ regions'[t] = {}
               /\ synch_count = 0 /\ ~roi_has_ended
<1>1. pc[t] \in Unready
  BY DEF ThreadInit, Step, Unready
<1>2. CASE "thread_init" \in registered
  <2>1. ~roi_has_ended /\ synch_count = 0
    BY <1>1, <1>2 DEF CourseInv, StartInv
  <2>2. /\ tls' = [tls EXCEPT ![t] = TRUE]
        /\ cur_synch_id' = [cur_synch_id EXCEPT ![t] = 0]
        /\ regions' = [regions EXCEPT ![t] = {}]
    BY <1>2, <2>1 DEF ThreadInit, InitRegistered, FirstId
  <2> QED
    BY <2>1, <2>2 DEF TypeOK
<1>3. CASE "thread_init" \notin registered
  BY <1>3 DEF ThreadInit, InitRegistered, birth
<1> QED
  BY <1>2, <1>3

\* Every step keeps the regions of a thread without a gap.
LEMMA FullStep ==
  ASSUME Plain, TypeOK, StartInv, CourseInv, IdsInv, FullInv, [Next]_vars
  PROVE  FullInv'
<1>1. CASE UNCHANGED <<tls, cur_synch_id, regions>>
  BY <1>1 DEF FullInv, RegionIds
<1>2. ASSUME NEW t \in Thread, NEW name \in Name, SaveData(t, name),
             UNCHANGED tls
      PROVE  FullInv'
  <2>1. cur_synch_id[t] \in Nat
    BY DEF TypeOK
  <2>2. RegionIds(t)' = RegionIds(t) \cup {cur_synch_id[t]}
    BY <1>2, SaveAdds DEF RegionIds
  <2>3. tls[t] => RegionIds(t)' = 0 .. cur_synch_id'[t] - 1
    BY <1>2, <2>1, <2>2, SaveAdds DEF FullInv
  <2>4. ASSUME NEW u \in Thread, u # t, tls[u]
        PROVE  RegionIds(u)' = 0 .. cur_synch_id'[u] - 1
    BY <1>2, <2>4, SaveAdds DEF FullInv, RegionIds
  <2> QED
    BY <1>2, <2>3, <2>4 DEF FullInv
<1>3. ASSUME NEW t \in Thread, ThreadInit(t)
      PROVE  FullInv'
  <2>1. ASSUME NEW u \in Thread, tls'[u]
        PROVE  RegionIds(u)' = 0 .. cur_synch_id'[u] - 1
    <3>1. CASE /\ tls'[u] = tls[u] /\ cur_synch_id'[u] = cur_synch_id[u]
               /\ regions'[u] = regions[u]
      BY <2>1, <3>1 DEF FullInv, RegionIds
    <3>2. CASE cur_synch_id'[u] = 0 /\ regions'[u] = {}
      BY <3>2 DEF RegionIds
    <3> QED
      BY <1>3, <3>1, <3>2, BornAtZero
  <2> QED
    BY <2>1 DEF FullInv
<1> QED
  BY <1>1, <1>2, <1>3, StepKinds, TlsKinds

\* A step that changes no counter keeps ShortInv if it sends no thread on
\* its way out.
LEMMA ShortQuiet ==
  ASSUME ShortInv, status' # "missing_region",
         UNCHANGED <<threads, synch_count, tls, cur_synch_id, roi_has_ended>>,
         roi_start_detected => roi_start_detected',
         \A u \in Thread :
           /\ pc'[u] = "exiting" => pc[u] = "exiting"
           /\ pc[u] = "exited" => pc'[u] = "exited"
  PROVE  ShortInv'
BY DEF ShortInv

\* Where every thread is when the master is in the serial part in the ROI.
LEMMA SerialInRoi ==
  ASSUME TypeOK, MasterInv, TeamInv, CountInv, CourseInv,
         in_roi, pc[Master] = "serial"
  PROVE  /\ synch_count = Passed
         /\ \A t \in Thread : cur_synch_id[t] = Passed /\ pc[t] \notin Gone
<1>1. \A t \in Thread : pc[t] \notin Gone \cup InTeam
  BY DEF CourseInv, TeamInv, InTeam, Gone
<1>2. \A t \in Thread : cur_synch_id[t] = Passed
  BY <1>1 DEF CountInv, Expected, InTeam
<1> QED
  BY <1>1, <1>2, ThreadAssumption DEF MasterInv

\* What a save of a thread of the team does to the counts: nobody has left,
\* so the files are still empty.
LEMMA ShortSave ==
  ASSUME TypeOK, IdsInv, CourseInv, ShortInv, NEW t \in Thread,
         NEW name \in Name, SaveData(t, name), pc[Master] \notin Gone,
         ~roi_has_ended, UNCHANGED <<roi, tls, threads, status>>,
         \A u \in Thread : pc'[u] \notin Gone
  PROVE  ShortInv'
<1>1. \A u \in Thread : pc[u] \notin Gone
  BY DEF CourseInv
<1>2. threads = {}
  BY <1>1 DEF ShortInv, Gone
<1>3. ~roi_has_ended' /\ \A u \in Thread : pc'[u] # "exiting"
  BY DEF roi, Gone
<1> QED
  BY <1>2, <1>3 DEF ShortInv

\* What each thread has when its exit handler runs is what the files need.
LEMMA ShortExit ==
  ASSUME TypeOK, MasterInv, StartInv, IdsInv, ShortInv, NEW t \in Thread,
         ThreadExit(t)
  PROVE  ShortInv'
<1> USE ThreadAssumption
<1>1. /\ pc[t] = "exiting" /\ pc'[t] = "exited"
      /\ \A u \in Thread : u # t => pc'[u] = pc[u]
      /\ UNCHANGED <<tls, roi_has_ended, roi_start_detected>>
  BY DEF ThreadExit, Step, roi, birth, TypeOK
<1>2. CASE UNCHANGED <<current, threads>>
  <2>1. status' # "missing_region"
    BY DEF ThreadExit, ShortInv
  <2> QED
    BY <1>1, <1>2, <2>1, ShortQuiet DEF current
<1>3. CASE ~UNCHANGED <<current, threads>>
  <2>1. /\ roi_start_detected /\ tls[t]
        /\ threads' = threads \cup {t} /\ UNCHANGED status
        /\ IF is_master[t] THEN UNCHANGED current
           ELSE SaveData(t, "thread_exit")
    BY <1>3 DEF ThreadExit, StartInv
  <2>2. synch_count \in Nat /\ cur_synch_id \in [Thread -> Nat]
    BY DEF TypeOK
  <2>3. cur_synch_id[t] + 1 >= synch_count
    BY <1>1, <2>1 DEF ShortInv
  <2>4. /\ synch_count' = synch_count
        /\ \A u \in Thread : u # t => cur_synch_id'[u] = cur_synch_id[u]
        /\ cur_synch_id'[t] >= synch_count
        /\ cur_synch_id'[t] >= cur_synch_id[t]
    <3>1. CASE is_master[t]
      <4>1. t = Master
        BY <3>1 DEF MasterInv, Worker
      <4> QED
        BY <2>1, <2>2, <3>1, <4>1 DEF current, MasterInv
    <3>2. CASE ~is_master[t]
      <4>1. SaveData(t, "thread_exit") /\ "thread_exit" \in Name
        BY <2>1, <3>2 DEF Name
      <4>2. synch_count' = synch_count
        BY <3>2, <4>1 DEF SaveData
      <4> QED
        BY <2>2, <2>3, <4>1, <4>2, SaveAdds
    <3> QED
      BY <3>1, <3>2
  <2>5. \A u \in Thread : tls[u] /\ (roi_has_ended \/ pc'[u] = "exiting") =>
          cur_synch_id'[u] + 1 >= synch_count
    <3> SUFFICES ASSUME NEW u \in Thread, tls[u],
                        roi_has_ended \/ pc'[u] = "exiting"
                 PROVE  cur_synch_id'[u] + 1 >= synch_count
      OBVIOUS
    <3>1. CASE u = t
      <4>1. cur_synch_id'[t] \in Nat
        BY <2>1, <2>2, SaveDataType DEF current, Name
      <4> QED
        BY <2>2, <2>4, <3>1, <4>1
    <3>2. CASE u # t
      BY <1>1, <2>2, <2>4, <3>2 DEF ShortInv
    <3> QED
      BY <3>1, <3>2
  <2>6. threads' \subseteq {u \in Thread : tls[u] /\ pc'[u] = "exited"}
    BY <1>1, <2>1 DEF ShortInv
  <2>7. \A u \in threads' : cur_synch_id'[u] >= synch_count
    BY <2>1, <2>2, <2>4 DEF ShortInv
  <2>8. status' # "missing_region"
    BY <2>1 DEF ShortInv
  <2> QED
    BY <1>1, <2>1, <2>4, <2>5, <2>6, <2>7, <2>8 DEF ShortInv
<1> QED
  BY <1>2, <1>3

\* Every step keeps the threads that are in the files as long as the master.
LEMMA ShortStep ==
  ASSUME Plain, Stay, OneRoi, TypeOK, MasterInv, TeamInv, StartInv, CountInv,
         CourseInv, IdsInv, FullInv, ShortInv, [Next]_vars
  PROVE  ShortInv'
<1> USE ThreadAssumption
<1>1. ASSUME NEW tm \in SUBSET Thread, NEW f \in Fn, Fork(tm, f)
      PROVE  ShortInv'
  BY <1>1, ShortQuiet DEF Fork, Keep, roi, current, birth, ShortInv
<1>2. ASSUME NEW s \in Stretch, ReleaseTeam(s) \/ ReleaseBarrier(s)
      PROVE  ShortInv'
  <2>1. \A u \in Thread :
          \/ pc'[u] = pc[u]
          \/ pc[u] # "exited" /\ pc'[u] \in {"entering", "resumed"}
    BY <1>2 DEF ReleaseTeam, ReleaseBarrier, TeamInv, Alive
  <2> QED
    BY <1>2, <2>1, ShortQuiet
       DEF ReleaseTeam, ReleaseBarrier, Keep, roi, current, birth, ShortInv
<1>3. CASE Join
  <2>1. \A u \in Thread :
          \/ pc'[u] = pc[u]
          \/ pc[u] # "exited" /\ pc'[u] \in {"serial", "docked"}
    BY <1>3 DEF Join, TeamInv, Alive, InTeam
  <2> QED
    BY <1>3, <2>1, ShortQuiet DEF Join, Keep, roi, current, birth, ShortInv
<1>4. CASE EndProgram
  <2>1. /\ UNCHANGED <<threads, synch_count, tls, cur_synch_id, status,
                       roi_has_ended, roi_start_detected>>
        /\ pc[Master] = "serial"
        /\ \A u \in Thread :
             \/ pc'[u] = pc[u]
             \/ pc[u] \in {"serial", "docked"} /\ pc'[u] = "exiting"
    BY <1>4 DEF EndProgram, Keep, roi, current, birth
  <2>2. ASSUME NEW u \in Thread, tls[u], ~roi_has_ended
        PROVE  cur_synch_id[u] + 1 >= synch_count
    <3>1. synch_count \in Nat
      BY DEF TypeOK
    <3>2. cur_synch_id[u] = synch_count
      <4>1. CASE in_roi
        BY <2>1, <4>1, SerialInRoi
      <4>2. CASE ~in_roi
        BY <2>2, <4>2 DEF CourseInv, StartInv
      <4> QED
        BY <4>1, <4>2
    <3> QED
      BY <3>1, <3>2
  <2> QED
    BY <2>1, <2>2 DEF ShortInv
<1>5. ASSUME NEW t \in Thread, Finish(t) \/ EventSingle(t)
      PROVE  ShortInv'
  <2>1. \A u \in Thread :
          \/ pc'[u] = pc[u]
          \/ pc[u] \in {"body", "tail"} /\ pc'[u] \in {"tail", "done"}
    BY <1>5 DEF Finish, EventSingle, Step, TypeOK
  <2> QED
    BY <1>5, <2>1, ShortQuiet
       DEF Finish, EventSingle, Keep, roi, current, birth, ShortInv
<1>6. ASSUME NEW t \in Thread,
             EnterFunction(t) \/ ResumeBlock(t) \/ BodyBlock(t)
      PROVE  ShortInv'
  <2>1. PICK blk \in {"entry", "body"} : ExecuteBlock(t, blk) \/ SkipBlock
    BY <1>6 DEF EnterFunction, ResumeBlock, BodyBlock
  <2>2. UNCHANGED <<cur_synch_id, synch_count, roi, birth, threads>>
    BY <2>1, ExecuteBlockType
  <2>3. status' # "missing_region"
    BY <2>1 DEF ExecuteBlock, SkipBlock, ShortInv
  <2>4. \A u \in Thread :
          \/ pc'[u] = pc[u]
          \/ /\ pc[u] \in {"entering", "resumed"}
             /\ pc'[u] \in {"entered", "body"}
    BY <1>6 DEF EnterFunction, ResumeBlock, BodyBlock, Step, program, TypeOK
  <2> QED
    BY <2>2, <2>3, <2>4, ShortQuiet DEF roi, birth
<1>7. ASSUME NEW t \in Thread, ThreadInit(t)
      PROVE  ShortInv'
  <2>1. /\ UNCHANGED <<threads, synch_count, status, roi_has_ended,
                       roi_start_detected>>
        /\ pc[t] = "starting" /\ pc'[t] \in {"serial", "docked"}
        /\ \A u \in Thread : u # t => pc'[u] = pc[u]
    BY <1>7 DEF ThreadInit, Step, roi, TypeOK
  <2>2. t \notin threads
    BY <2>1 DEF ShortInv
  <2>3. roi_has_ended => tls'[t] = tls[t] /\ cur_synch_id'[t] = cur_synch_id[t]
    BY <1>7, BornAtZero
  <2>4. \A u \in Thread : u # t =>
          tls'[u] = tls[u] /\ cur_synch_id'[u] = cur_synch_id[u]
    BY <1>7, BornAtZero
  <2> QED
    BY <2>1, <2>2, <2>3, <2>4 DEF ShortInv
<1>8. ASSUME NEW t \in Thread, EventOmpParallel(t) \/ EventBarrier(t)
      PROVE  ShortInv'
  <2>1. /\ UNCHANGED <<roi, tls, threads, status>>
        /\ pc[t] \in InTeam
        /\ \A u \in Thread :
             \/ pc'[u] = pc[u]
             \/ pc[u] \in InTeam /\ pc'[u] \in {"body", "waiting"}
    BY <1>8 DEF EventOmpParallel, EventBarrier, Step, birth, TypeOK, InTeam
  <2>2. pc[Master] \notin Gone
    BY <2>1 DEF TeamInv, InTeam, Gone
  <2>3. CASE UNCHANGED current
    BY <2>1, <2>3, ShortQuiet DEF roi, current, ShortInv, InTeam
  <2>4. ASSUME in_roi, NEW name \in Name, SaveData(t, name)
        PROVE  ShortInv'
    <3>1. ~roi_has_ended /\ \A u \in Thread : pc'[u] \notin Gone
      BY <2>1, <2>2, <2>4 DEF StartInv, CourseInv, Gone
    <3> QED
      BY <2>1, <2>2, <2>4, <3>1, ShortSave
  <2>5. \/ UNCHANGED current
        \/ in_roi /\ \E name \in Name : SaveData(t, name)
    BY <1>8 DEF EventOmpParallel, EventBarrier, OnBarrier, Name, TypeOK
  <2> QED
    BY <2>3, <2>4, <2>5
<1>9. CASE RoiStart
  BY <1>9, ShortQuiet DEF RoiStart, program, current, birth, ShortInv
<1>10. CASE RoiEnd
  <2>1. /\ UNCHANGED <<pc, tls, threads, roi_start_detected>>
        /\ pc[Master] = "serial" /\ roi_start_detected /\ roi_has_ended'
        /\ status' # "missing_region"
    BY <1>10 DEF RoiEnd, birth, ShortInv
  <2>2. CASE roi_end_detected
    <3>1. UNCHANGED current
      BY <1>10, <2>2 DEF RoiEnd, OneRoi
    <3>2. roi_has_ended
      BY <2>2 DEF CourseInv
    <3>3. \A t \in Thread : tls[t] => cur_synch_id[t] + 1 >= synch_count
      BY <3>2 DEF ShortInv
    <3> QED
      BY <2>1, <3>1, <3>3 DEF current, ShortInv
  <2>3. CASE ~roi_end_detected
    <3>1. in_roi
      BY <2>1, <2>3 DEF CourseInv
    <3>2. /\ synch_count = Passed
          /\ \A t \in Thread : cur_synch_id[t] = Passed /\ pc[t] \notin Gone
      BY <2>1, <3>1, SerialInRoi
    <3>3. SaveData(Master, "thread_exit") /\ "thread_exit" \in Name
      BY <1>10, <2>3 DEF RoiEnd, Name
    <3>4. Passed \in Nat
      BY DEF TypeOK, Passed
    <3>5. synch_count' \in {Passed, Passed + 1}
      BY <3>2, <3>3 DEF SaveData
    <3>6. \A t \in Thread : cur_synch_id'[t] \in {Passed, Passed + 1}
      BY <3>2, <3>3, SaveAdds
    <3>7. threads' = {}
      BY <2>1, <3>2 DEF ShortInv, Gone
    <3>8. \A t \in Thread : cur_synch_id'[t] + 1 >= synch_count'
      BY <3>4, <3>5, <3>6
    <3> QED
      BY <2>1, <3>7, <3>8 DEF ShortInv
  <2> QED
    BY <2>2, <2>3
<1>11. CASE EventExit
  <2>1. AlignFindsAll
    <3> SUFFICES ASSUME NEW t \in threads, NEW id \in 0 .. synch_count - 1
                 PROVE  \E r \in regions[t] : r.id = id
      BY DEF AlignFindsAll
    <3>1. t \in Thread /\ tls[t] /\ cur_synch_id[t] >= synch_count
      BY DEF ShortInv
    <3>2. id \in 0 .. cur_synch_id[t] - 1
      BY <3>1 DEF TypeOK
    <3> QED
      BY <3>1, <3>2 DEF FullInv, RegionIds
  <2>2. status' # "missing_region"
    BY <1>11, <2>1 DEF EventExit
  <2> QED
    BY <1>11, <2>2, ShortQuiet DEF EventExit, program, roi, current, birth
<1>12. CASE UNCHANGED vars
  BY <1>12, ShortQuiet DEF vars, program, roi, current, birth, ShortInv
<1>13. ~SerialBarrier /\ \A t \in Thread : ~LeavePool(t)
  BY DEF SerialBarrier, LeavePool, Plain, Misaligning, Stay
<1> QED
  BY <1>1, <1>2, <1>3, <1>4, <1>5, <1>6, <1>7, <1>8, <1>9, <1>10, <1>11,
     <1>12, <1>13, ShortExit DEF Next, ProgramStep, ThreadStep, Stopped

\* All that the output of a plain program rests on.
OutputInv ==
  /\ AlignInv /\ MasterInv /\ IdsInv /\ NamesInv
  /\ FullInv /\ ShortInv

\* It holds at the start, and every step keeps it.
LEMMA OutputInit == Init => OutputInv
<1> SUFFICES ASSUME Init PROVE OutputInv
  OBVIOUS
<1>1. AlignInv
  BY AlignInit
<1>2. MasterInv
  BY ThreadAssumption DEF Init, MasterInv, RegionIds, Worker
<1>3. IdsInv
  BY DEF Init, IdsInv
<1>4. NamesInv
  BY DEF Init, NamesInv, CourseInv, NamesInRoi, NamesAfterRoi, RegionNames,
     Gone
<1>5. FullInv /\ ShortInv
  BY DEF Init, FullInv, ShortInv
<1> QED
  BY <1>1, <1>2, <1>3, <1>4, <1>5 DEF OutputInv

LEMMA OutputStep ==
  ASSUME Plain, Stay, OneRoi, OutputInv, [Next]_vars
  PROVE  OutputInv'
<1> USE DEF OutputInv, AlignInv
<1>1. AlignInv'
  BY TypeStep, TeamStep, StartStep, CountStep, SingleStep, BlockStep
<1>2. MasterInv' /\ IdsInv'
  BY MasterStep, IdsStep
<1>3. NamesInv'
  BY NamesStep DEF Stay
<1>4. FullInv' /\ ShortInv'
  BY FullStep, ShortStep DEF NamesInv
<1> QED
  BY <1>1, <1>2, <1>3, <1>4

\* If nothing misaligns the threads, none of the pool leaves before the end
\* and the ROI ends once, align_synch_bb finds the region of every thread at
\* every id below synch_count: its regions.find(id), whose result it does
\* not look at, never returns end().
THEOREM NoneMissing ==
  ASSUME Plain, Stay, OneRoi
  PROVE  Spec => []NoMissingRegion
<1>1. Init => OutputInv
  BY OutputInit
<1>2. OutputInv /\ [Next]_vars => OutputInv'
  BY OutputStep
<1>3. OutputInv => NoMissingRegion
  BY DEF OutputInv, ShortInv, NoMissingRegion
<1> QED
  BY <1>1, <1>2, <1>3, PTL DEF Spec

----------------------------------------------------------------------------
(* The files.                                                              *)

\* If the program may end without its ROI, the client stops at event_exit.
EndsRoi == "no_roi" \notin Habits \/ Debug

\* When the ROI has ended, the master has saved its last region, the threads
\* in the files have saved theirs, and each other has one still to save.
EndsInv ==
  /\ roi_has_ended =>
       /\ synch_count = Passed
       /\ \A t \in Worker : tls[t] /\ pc[t] # "exited" =>
            cur_synch_id[t] = Passed - 1
       /\ \A t \in threads : cur_synch_id[t] = Passed
  /\ pc[Master] \in Gone => roi_end_detected \/ "no_roi" \in Habits

\* A step that leaves the counts alone keeps EndsInv unless it lets main()
\* return.
LEMMA EndsQuiet ==
  ASSUME EndsInv,
         UNCHANGED <<threads, synch_count, tls, cur_synch_id, script,
                     roi_has_ended, roi_end_detected>>,
         \A u \in Thread :
           /\ pc[u] = "exited" => pc'[u] = "exited"
           /\ pc'[u] \in Gone => pc[u] \in Gone
  PROVE  EndsInv'
BY ThreadAssumption DEF EndsInv, Passed, Worker

\* The same for a step in the ROI, whatever it does to the counts.
LEMMA EndsInRoi ==
  ASSUME EndsInv, ~roi_has_ended', UNCHANGED roi_end_detected,
         pc'[Master] \notin Gone
  PROVE  EndsInv'
BY DEF EndsInv

\* Once the ROI has ended, only the exit handlers save, each for its thread.
LEMMA EndsExit ==
  ASSUME TypeOK, MasterInv, IdsInv, EndsInv, NEW t \in Thread, ThreadExit(t)
  PROVE  EndsInv'
<1> USE ThreadAssumption
<1>1. /\ pc[t] = "exiting" /\ pc'[t] = "exited"
      /\ \A u \in Thread : u # t => pc'[u] = pc[u]
      /\ UNCHANGED <<tls, roi_has_ended, roi_end_detected, script>>
  BY DEF ThreadExit, Step, roi, birth, TypeOK
<1>2. pc'[Master] \in Gone => pc[Master] \in Gone
  BY <1>1 DEF Gone
<1>3. CASE UNCHANGED <<current, threads>>
  BY <1>1, <1>2, <1>3 DEF current, EndsInv, Passed, Worker
<1>4. CASE ~UNCHANGED <<current, threads>>
  <2>1. /\ tls[t] /\ threads' = threads \cup {t}
        /\ IF is_master[t] THEN UNCHANGED current
           ELSE SaveData(t, "thread_exit")
    BY <1>4 DEF ThreadExit
  <2>2. Passed \in Nat
    BY DEF TypeOK, Passed
  <2>3. CASE is_master[t]
    <3>1. t = Master /\ cur_synch_id[t] = synch_count
      BY <2>3 DEF MasterInv, Worker
    <3> QED
      BY <1>1, <1>2, <2>1, <2>3, <3>1 DEF current, EndsInv, Passed, Worker
  <2>4. CASE ~is_master[t]
    <3>1. t \in Worker
      BY <2>1, <2>4 DEF MasterInv, Worker
    <3>2. SaveData(t, "thread_exit") /\ "thread_exit" \in Name
      BY <2>1, <2>4 DEF Name
    <3>3. synch_count' = synch_count
      BY <2>4, <3>2 DEF SaveData
    <3>4. roi_has_ended => cur_synch_id'[t] = Passed
      <4>1. roi_has_ended => cur_synch_id[t] = Passed - 1
        BY <1>1, <2>1, <3>1 DEF EndsInv
      <4>2. cur_synch_id'[t] = cur_synch_id[t] + 1
        BY <3>2, SaveAdds
      <4> QED
        BY <2>2, <4>1, <4>2
    <3>5. \A u \in Thread : u # t => cur_synch_id'[u] = cur_synch_id[u]
      BY <3>2, SaveAdds
    <3>6. threads \subseteq Thread
      BY DEF TypeOK
    <3> QED
      BY <1>1, <1>2, <2>1, <3>3, <3>4, <3>5, <3>6
         DEF EndsInv, Passed, Worker
  <2> QED
    BY <2>3, <2>4
<1> QED
  BY <1>3, <1>4

\* Every step keeps what each thread still has to save.
LEMMA EndsStep ==
  ASSUME Plain, Stay, OneRoi, OutputInv, EndsInv, [Next]_vars
  PROVE  EndsInv'
<1> USE ThreadAssumption DEF OutputInv, AlignInv, NamesInv
<1>1. ASSUME NEW tm \in SUBSET Thread, NEW f \in Fn, Fork(tm, f)
      PROVE  EndsInv'
  BY <1>1, EndsQuiet DEF Fork, Keep, roi, current, birth, Gone
<1>2. ASSUME NEW s \in Stretch, ReleaseTeam(s) \/ ReleaseBarrier(s)
      PROVE  EndsInv'
  <2>1. /\ UNCHANGED <<threads, synch_count, tls, cur_synch_id,
                       roi_has_ended, roi_end_detected>>
        /\ script' = script \/ in_roi
    BY <1>2 DEF ReleaseTeam, ReleaseBarrier, Keep, roi, current, birth
  <2>2. /\ pc[Master] \in InTeam \cup {"forking"}
        /\ \A u \in Thread :
             \/ pc'[u] = pc[u]
             \/ pc[u] # "exited" /\ pc'[u] \in {"entering", "resumed"}
    BY <1>2 DEF ReleaseTeam, ReleaseBarrier, TeamInv, Alive, InTeam
  <2>3. pc'[Master] \notin Gone
    BY <2>2 DEF InTeam, Gone
  <2>4. CASE in_roi
    BY <2>1, <2>3, <2>4, EndsInRoi DEF StartInv
  <2>5. CASE script' = script
    BY <2>1, <2>2, <2>5, EndsQuiet DEF Gone
  <2> QED
    BY <2>1, <2>4, <2>5
<1>3. CASE Join
  <2>1. \A u \in Thread :
          \/ pc'[u] = pc[u]
          \/ pc[u] # "exited" /\ pc'[u] \in {"serial", "docked"}
    BY <1>3 DEF Join, TeamInv, Alive, InTeam
  <2> QED
    BY <1>3, <2>1, EndsQuiet DEF Join, Keep, roi, current, birth, Gone
<1>4. CASE EndProgram
  <2>1. /\ UNCHANGED <<threads, synch_count, tls, cur_synch_id, script,
                       roi_has_ended, roi_end_detected>>
        /\ roi_end_detected \/ "no_roi" \in Habits
        /\ \A u \in Thread : pc[u] = "exited" => pc'[u] = "exited"
    BY <1>4 DEF EndProgram, Keep, roi, current, birth
  <2> QED
    BY <2>1 DEF EndsInv, Passed, Worker
<1>5. ASSUME NEW t \in Thread, Finish(t) \/ EventSingle(t)
      PROVE  EndsInv'
  <2>1. \A u \in Thread :
          \/ pc'[u] = pc[u]
          \/ pc[u] \in {"body", "tail"} /\ pc'[u] \in {"tail", "done"}
    BY <1>5 DEF Finish, EventSingle, Step, TypeOK
  <2> QED
    BY <1>5, <2>1, EndsQuiet
       DEF Finish, EventSingle, Keep, roi, current, birth, Gone
<1>6. ASSUME NEW t \in Thread,
             EnterFunction(t) \/ ResumeBlock(t) \/ BodyBlock(t)
      PROVE  EndsInv'
  <2>1. PICK blk \in {"entry", "body"} : ExecuteBlock(t, blk) \/ SkipBlock
    BY <1>6 DEF EnterFunction, ResumeBlock, BodyBlock
  <2>2. UNCHANGED <<cur_synch_id, synch_count, roi, birth, threads>>
    BY <2>1, ExecuteBlockType
  <2>3. UNCHANGED script
    BY <1>6 DEF EnterFunction, ResumeBlock, BodyBlock, program
  <2>4. \A u \in Thread :
          \/ pc'[u] = pc[u]
          \/ /\ pc[u] \in {"entering", "resumed"}
             /\ pc'[u] \in {"entered", "body"}
    BY <1>6 DEF EnterFunction, ResumeBlock, BodyBlock, Step, program, TypeOK
  <2> QED
    BY <2>2, <2>3, <2>4, EndsQuiet DEF roi, birth, Gone
<1>7. ASSUME NEW t \in Thread, ThreadInit(t)
      PROVE  EndsInv'
  <2>1. /\ UNCHANGED <<threads, synch_count, script, roi_has_ended,
                       roi_end_detected>>
        /\ \A u \in Thread :
             \/ pc'[u] = pc[u]
             \/ pc[u] = "starting" /\ pc'[u] \in {"serial", "docked"}
    BY <1>7 DEF ThreadInit, Step, roi, TypeOK
  <2>2. CASE roi_has_ended
    <3>1. UNCHANGED <<tls, cur_synch_id>>
      BY <1>7, <2>2 DEF ThreadInit, InitRegistered, CourseInv, birth
    <3> QED
      BY <2>1, <3>1, EndsQuiet DEF Gone
  <2>3. CASE ~roi_has_ended
    BY <2>1, <2>3 DEF EndsInv, Gone
  <2> QED
    BY <2>2, <2>3
<1>8. ASSUME NEW t \in Thread, EventOmpParallel(t) \/ EventBarrier(t)
      PROVE  EndsInv'
  <2>1. /\ UNCHANGED <<roi, tls, threads, script>>
        /\ \A u \in Thread :
             \/ pc'[u] = pc[u]
             \/ pc[u] \in InTeam /\ pc'[u] \in {"body", "waiting"}
        /\ pc[t] \in InTeam
    BY <1>8 DEF EventOmpParallel, EventBarrier, Step, birth, TypeOK, InTeam
  <2>2. CASE in_roi
    <3>1. pc'[Master] \notin Gone
      BY <2>1 DEF TeamInv, InTeam, Gone
    <3> QED
      BY <2>1, <2>2, <3>1, EndsInRoi DEF StartInv, roi
  <2>3. CASE ~in_roi
    <3>1. UNCHANGED current
      BY <1>8, <2>3 DEF EventOmpParallel, EventBarrier, OnBarrier
    <3> QED
      BY <2>1, <3>1, EndsQuiet DEF roi, current, InTeam, Gone
  <2> QED
    BY <2>2, <2>3
<1>9. CASE RoiStart
  BY <1>9, EndsQuiet DEF RoiStart, program, current, birth
<1>10. CASE RoiEnd
  <2>1. /\ UNCHANGED <<pc, tls, threads>>
        /\ pc[Master] = "serial" /\ roi_start_detected
        /\ roi_has_ended' /\ roi_end_detected'
    BY <1>10 DEF RoiEnd, birth
  <2>2. CASE roi_end_detected
    <3>1. UNCHANGED current /\ script' = script
      BY <1>10, <2>2 DEF RoiEnd, OneRoi
    <3>2. roi_has_ended
      BY <2>2 DEF CourseInv
    <3> QED
      BY <2>1, <3>1, <3>2 DEF current, EndsInv, Passed
  <2>3. CASE ~roi_end_detected
    <3>1. in_roi
      BY <2>1, <2>3 DEF CourseInv
    <3>2. /\ synch_count = Passed
          /\ \A t \in Thread : cur_synch_id[t] = Passed /\ pc[t] \notin Gone
      BY <2>1, <3>1, SerialInRoi
    <3>3. /\ SaveData(Master, "thread_exit") /\ "thread_exit" \in Name
          /\ script' = Append(script, "thread_exit")
      BY <1>10, <2>3 DEF RoiEnd, Name
    <3>4. Passed \in Nat /\ Passed' = Passed + 1
      BY <3>3 DEF TypeOK, Passed
    <3>5. tls[Master] /\ is_master[Master]
      BY <2>1 DEF MasterInv
    <3>6. synch_count' = Passed + 1
      BY <3>2, <3>3, <3>5 DEF SaveData
    <3>7. \A t \in Worker : cur_synch_id'[t] = Passed
      BY <3>2, <3>3, SaveAdds DEF Worker
    <3>8. threads' = {}
      BY <2>1, <3>2 DEF ShortInv, Gone
    <3> QED
      BY <2>1, <3>4, <3>6, <3>7, <3>8 DEF EndsInv
  <2> QED
    BY <2>2, <2>3
<1>11. ASSUME EventExit \/ UNCHANGED vars
       PROVE  EndsInv'
  BY <1>11, EndsQuiet DEF EventExit, vars, program, roi, current, birth
<1>12. ~SerialBarrier /\ \A t \in Thread : ~LeavePool(t)
  BY DEF SerialBarrier, LeavePool, Plain, Misaligning, Stay
<1> QED
  BY <1>1, <1>2, <1>3, <1>4, <1>5, <1>6, <1>7, <1>8, <1>9, <1>10, <1>11,
     <1>12, EndsExit DEF Next, ProgramStep, ThreadStep, Stopped

\* Only event_exit writes the files.
LEMMA SavedByExit ==
  ASSUME TypeOK, [Next]_vars, status' = "saved"
  PROVE  EventExit \/ UNCHANGED vars
<1>1. ASSUME NEW t \in Thread,
             EnterFunction(t) \/ ResumeBlock(t) \/ BodyBlock(t)
      PROVE  status' # "saved"
  BY <1>1 DEF EnterFunction, ResumeBlock, BodyBlock, ExecuteBlock, SkipBlock,
     Running
<1>2. ASSUME NEW t \in Thread,
             \/ ThreadInit(t) \/ EventOmpParallel(t) \/ EventBarrier(t)
             \/ ThreadExit(t) \/ Finish(t) \/ EventSingle(t) \/ LeavePool(t)
      PROVE  status' # "saved"
  BY <1>2 DEF ThreadInit, EventOmpParallel, EventBarrier, ThreadExit, Finish,
     EventSingle, LeavePool, Keep, Running
<1>3. ASSUME \/ \E tm \in SUBSET Thread, f \in Fn : Fork(tm, f)
             \/ \E s \in Stretch : ReleaseTeam(s) \/ ReleaseBarrier(s)
             \/ Join \/ EndProgram \/ RoiStart \/ RoiEnd \/ SerialBarrier
      PROVE  status' # "saved"
  BY <1>3 DEF Fork, ReleaseTeam, ReleaseBarrier, Join, EndProgram, RoiStart,
     RoiEnd, SerialBarrier, Keep, Running
<1> QED
  BY <1>1, <1>2, <1>3 DEF Next, ProgramStep, ThreadStep, Stopped

\* What is there when event_exit gets as far as the files is complete.
LEMMA ExitComplete ==
  ASSUME EndsRoi, OutputInv, EndsInv, EventExit, status' = "saved"
  PROVE  OutputComplete'
<1> USE ThreadAssumption DEF OutputInv, AlignInv, NamesInv
<1>1. roi_has_ended
  <2>1. pc[Master] \in Gone
    BY DEF EventExit, MasterInv, Gone
  <2>2. Debug => roi_end_detected
    BY DEF EventExit
  <2> QED
    BY <2>1, <2>2 DEF EndsRoi, EndsInv, CourseInv
<1>2. synch_count = Passed /\ Passed \in Nat
  BY <1>1 DEF EndsInv, TypeOK, Passed
<1>3. ASSUME NEW t \in threads
      PROVE  {<<r.id, r.name>> : r \in regions[t]} =
               {<<i - 1, script[i]>> : i \in 1 .. Passed}
  <2>1. t \in Thread /\ tls[t] /\ cur_synch_id[t] = Passed
    BY <1>1, <1>3 DEF ShortInv, EndsInv
  <2>2. RegionIds(t) = 0 .. Passed - 1
    BY <2>1 DEF FullInv
  <2>3. ASSUME NEW r \in regions[t]
        PROVE  r.id + 1 \in 1 .. Passed /\ r.name = script[r.id + 1]
    <3>1. r.id \in 0 .. Passed - 1
      BY <2>2 DEF RegionIds
    <3> QED
      BY <1>2, <2>1, <3>1 DEF RegionNames
  <2>4. ASSUME NEW r \in regions[t]
        PROVE  \E i \in 1 .. Passed : <<r.id, r.name>> = <<i - 1, script[i]>>
    <3>1. r.id \in 0 .. Passed - 1
      BY <2>2 DEF RegionIds
    <3>2. r.id = (r.id + 1) - 1
      BY <1>2, <3>1
    <3> QED
      BY <2>3, <3>2
  <2>5. ASSUME NEW i \in 1 .. Passed
        PROVE  \E r \in regions[t] : <<i - 1, script[i]>> = <<r.id, r.name>>
    <3>1. i - 1 \in RegionIds(t) /\ (i - 1) + 1 = i
      BY <1>2, <2>2
    <3>2. PICK r \in regions[t] : r.id = i - 1
      BY <3>1 DEF RegionIds
    <3> QED
      BY <2>3, <3>1, <3>2
  <2> QED
    BY <2>4, <2>5
<1>4. UNCHANGED <<synch_count, script, threads, regions>>
  BY DEF EventExit, program, current
<1> QED
  BY <1>2, <1>3, <1>4 DEF OutputComplete, Passed

\* If nothing misaligns the threads, none of the pool leaves before the end
\* and the ROI ends once, every thread in the files has a region for each
\* synchronisation point of the ROI and for nothing else, under its name:
\* the counters that the threads keep alone, the master's synch_count and
\* the exit handlers, in whatever order they run, come out even.
THEOREM OutputIsComplete ==
  ASSUME Plain, Stay, OneRoi, EndsRoi
  PROVE  Spec => []OutputComplete
<1> DEFINE Inv == OutputInv /\ EndsInv /\ OutputComplete
<1>1. Init => Inv
  <2>1. Init => EndsInv /\ OutputComplete
    BY ThreadAssumption DEF Init, EndsInv, OutputComplete, Gone
  <2> QED
    BY <2>1, OutputInit
<1>2. Inv /\ [Next]_vars => Inv'
  <2> SUFFICES ASSUME Inv, [Next]_vars
               PROVE  Inv'
    OBVIOUS
  <2>1. OutputInv' /\ EndsInv'
    BY OutputStep, EndsStep
  <2>2. OutputComplete'
    <3>1. CASE status' # "saved"
      BY <3>1 DEF OutputComplete
    <3>2. CASE EventExit /\ status' = "saved"
      BY <3>2, ExitComplete
    <3>3. CASE UNCHANGED vars
      BY <3>3 DEF vars, program, current, OutputComplete, Passed
    <3> QED
      BY <3>1, <3>2, <3>3, SavedByExit DEF OutputInv, AlignInv
  <2> QED
    BY <2>1, <2>2
<1>3. Inv => OutputComplete
  OBVIOUS
<1> QED
  BY <1>1, <1>2, <1>3, PTL DEF Spec
=============================================================================
