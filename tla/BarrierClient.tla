--------------------------- MODULE BarrierClient ---------------------------
(* The DynamoRIO client at run time: dynamorio_client/main.cpp together      *)
(* with the ThreadData of each thread (thread_data.cpp) and the counters of  *)
(* BarrierPoint (barrierpoint.cpp).  An OpenMP program runs under the        *)
(* client; the client is called back on its events, in whatever order the    *)
(* threads produce them, and cuts the execution of each thread into regions. *)
(*                                                                           *)
(* The program and libgomp are the environment.  They are modelled by what   *)
(* the client can see of them: a master that forks teams, the stretches of   *)
(* code a team executes, each closed by a barrier or by the join, and the    *)
(* two markers of the region of interest (ROI).  Habits says what the        *)
(* program does beyond plain fork and join.                                  *)
(*                                                                           *)
(* A basic block and a memory reference are told apart only by the moment    *)
(* they execute at: the number of synchronisation points the program has     *)
(* passed since the ROI started, or -1 before it starts.                     *)
EXTENDS Integers, Sequences, FiniteSets

CONSTANTS
    Thread,          \* the threads the program may create
    Master,          \* the one that runs main()
    Fn,              \* the outlined functions, "....omp_fn.N"
    Habits,          \* what the program does beyond plain fork and join
    IgnoreSingle,    \* the client's option -ignore_single
    TraceBeforeRoi,  \* built with TRACE_MEM_BEFORE_ROI
    Debug,           \* DR_ASSERT is compiled in
    MaxSynch         \* bound: synchronisation points in one execution

ASSUME ThreadAssumption == Master \in Thread
ASSUME SwitchAssumption ==
    /\ IgnoreSingle \in BOOLEAN
    /\ TraceBeforeRoi \in BOOLEAN
    /\ Debug \in BOOLEAN
ASSUME BoundAssumption == MaxSynch \in Nat

(* subteam: num_threads(k), a team of some of the threads.                   *)
(* early_exit: the pool lets an idle worker go before the ROI ends.          *)
(* late_team: a worker is created after the ROI has ended.                   *)
(* nowait: "single nowait", GOMP_single_start with no barrier of its own.    *)
(* serial_barrier: an orphaned barrier reached outside any parallel region.  *)
(* second_roi: the markers are called again.                                 *)
(* no_roi: the program ends without having called both markers.              *)
AllHabits == {"subteam", "early_exit", "late_team", "nowait",
              "serial_barrier", "second_roi", "no_roi"}
ASSUME HabitsAssumption == Habits \subseteq AllHabits

VARIABLES
    (* The program: where each thread is, the team that is running, its      *)
    (* function, the stretch of code it executes, the functions DynamoRIO    *)
    (* has instrumented, and the synchronisation points passed so far in the *)
    (* ROI (history).                                                        *)
    pc, team, fn, stretch, cached, script,
    (* The globals of the client.                                            *)
    in_roi, roi_has_ended, roi_start_detected, roi_end_detected,
    registered, first_time_called, synch_count, threads, status,
    (* ThreadData, per thread; tls[t]: the TLS slot of t is not NULL.        *)
    tls, is_master, in_single, cur_synch_id, cur_bbv, cur_lru_hist, buf,
    regions

program == <<pc, team, fn, stretch, cached, script>>
roi     == <<in_roi, roi_has_ended, roi_start_detected, roi_end_detected,
             registered>>
current == <<cur_synch_id, cur_bbv, cur_lru_hist, regions, synch_count>>
birth   == <<tls, is_master, first_time_called>>
vars    == <<program, roi, current, birth, in_single, buf, threads, status>>

Worker == Thread \ {Master}

(* A stretch of code of a team: whether it meets an "omp single", and        *)
(* whether it ends at a barrier or at the end of the parallel region.  The   *)
(* barrier of a single is the end of its stretch.                            *)
Stretch ==
    {s \in [single : {"none", "wait", "nowait"}, close : {"barrier", "join"}] :
        /\ s.single = "wait"   => s.close = "barrier"
        /\ s.single = "nowait" => "nowait" \in Habits}

(* Is the barrier that closes s one the client is asked to count?            *)
Counted(s) == s.close = "barrier" /\ ~(s.single = "wait" /\ IgnoreSingle)

Passed == Len(script)
Room   == in_roi => Passed < MaxSynch
Now    == IF roi_start_detected THEN Passed ELSE -1

(* The stretches a team may start once n points have been passed.            *)
Within(n) == {s \in Stretch : in_roi /\ Counted(s) => n < MaxSynch}

Running == status = "run"
Step(t, from, to) == pc[t] = from /\ pc' = [pc EXCEPT ![t] = to]

Block == [blk : {"entry", "body"}, at : Int]
Name  == Fn \cup {"GOMP_barrier", "thread_exit"}
Region == [id : Nat, name : Name, bbv : SUBSET Block, hist : SUBSET Int]

-----------------------------------------------------------------------------
(* The start: dr_client_main has registered its events, and the thread of    *)
(* main() is about to be initialised.                                        *)

Init ==
    /\ pc = [t \in Thread |-> IF t = Master THEN "starting" ELSE "unborn"]
    /\ team = {}
    /\ fn \in Fn
    /\ stretch = [single |-> "none", close |-> "join"]
    /\ cached = {}
    /\ script = <<>>
    /\ in_roi = FALSE
    /\ roi_has_ended = FALSE
    /\ roi_start_detected = FALSE
    /\ roi_end_detected = FALSE
    /\ registered = {"thread_init", "bb_app2app", "bb_insertion"}
    /\ first_time_called = TRUE
    /\ synch_count = 0
    /\ threads = {}
    /\ status = "run"
    /\ tls = [t \in Thread |-> FALSE]
    /\ is_master = [t \in Thread |-> FALSE]
    /\ in_single = [t \in Thread |-> FALSE]
    /\ cur_synch_id = [t \in Thread |-> 0]
    /\ cur_bbv = [t \in Thread |-> {}]
    /\ cur_lru_hist = [t \in Thread |-> {}]
    /\ buf = [t \in Thread |-> {}]
    /\ regions = [t \in Thread |-> {}]

-----------------------------------------------------------------------------
(* The methods of ThreadData that the handlers call.                         *)

(* unordered_map::insert leaves an entry that is already there alone.        *)
Inserted(t, name) ==
    [regions EXCEPT ![t] =
         IF \E r \in @ : r.id = cur_synch_id[t]
         THEN @
         ELSE @ \cup {[id |-> cur_synch_id[t], name |-> name,
                       bbv |-> cur_bbv[t], hist |-> cur_lru_hist[t]]}]

(* Faulty: cur_bbv.clear() is forgotten.                                     *)
SaveBarrierKeepsBbv(t, name) ==
    /\ regions' = Inserted(t, name)
    /\ cur_synch_id' = [cur_synch_id EXCEPT ![t] = @ + 1]
    /\ cur_lru_hist' = [cur_lru_hist EXCEPT ![t] = {}]
    /\ UNCHANGED cur_bbv

(* Faulty: the thread takes the global counter for its next id.              *)
SaveBarrierGlobalId(t, name) ==
    /\ regions' = Inserted(t, name)
    /\ cur_synch_id' = [cur_synch_id EXCEPT ![t] = synch_count]
    /\ cur_bbv' = [cur_bbv EXCEPT ![t] = {}]
    /\ cur_lru_hist' = [cur_lru_hist EXCEPT ![t] = {}]

SaveBarrier(t, name) ==
    /\ regions' = Inserted(t, name)
    /\ cur_synch_id' = [cur_synch_id EXCEPT ![t] = @ + 1]
    /\ cur_bbv' = [cur_bbv EXCEPT ![t] = {}]
    /\ cur_lru_hist' = [cur_lru_hist EXCEPT ![t] = {}]

(* Faulty: every thread increments synch_count.                              *)
SaveDataAnyThread(t, name) ==
    /\ SaveBarrier(t, name)
    /\ synch_count' = synch_count + 1

SaveData(t, name) ==
    /\ SaveBarrier(t, name)
    /\ synch_count' = IF is_master[t] THEN synch_count + 1 ELSE synch_count

AddBb(t, blk) ==
    cur_bbv' = [cur_bbv EXCEPT ![t] = @ \cup {[blk |-> blk, at |-> Now]}]

AddAddress(t) ==
    cur_lru_hist' = [cur_lru_hist EXCEPT ![t] = @ \cup buf[t]]

(* Faulty: the buffer is never discarded.                                    *)
DrainAndFillAlways(t, blk) ==
    /\ IF in_roi THEN AddBb(t, blk) ELSE UNCHANGED cur_bbv
    /\ AddAddress(t)
    /\ buf' = [buf EXCEPT ![t] = {Now}]
    /\ UNCHANGED <<cur_synch_id, regions, synch_count>>

(* clean_call runs at the first instruction of a block, so what it drains    *)
(* are the references of the blocks before it; those of the block itself     *)
(* are in the buffer when it is left.                                        *)
DrainAndFill(t, blk) ==
    /\ IF in_roi THEN AddBb(t, blk) ELSE UNCHANGED cur_bbv
    /\ IF (IF TraceBeforeRoi THEN ~roi_has_ended ELSE in_roi)
       THEN AddAddress(t)
       ELSE UNCHANGED cur_lru_hist
    /\ buf' = [buf EXCEPT ![t] = {Now}]
    /\ UNCHANGED <<cur_synch_id, regions, synch_count>>

(* After the ROI only code that was translated before its end still carries  *)
(* a clean call, and not for certain: it may have been translated again.     *)
Inserting == "bb_insertion" \in registered
Instrumented(t) == Inserting \/ pc[t] = "serial" \/ fn \in cached

(* The block blk of thread t: the client dereferences the TLS slot.          *)
ExecuteBlock(t, blk) ==
    /\ Instrumented(t)
    /\ IF tls[t]
       THEN DrainAndFill(t, blk) /\ UNCHANGED status
       ELSE status' = "null_data" /\ UNCHANGED <<current, buf>>
    /\ UNCHANGED <<roi, birth, in_single, threads>>

SkipBlock ==
    /\ ~Inserting
    /\ UNCHANGED <<roi, current, birth, in_single, buf, threads, status>>

Keep == UNCHANGED <<roi, current, birth, in_single, buf, threads, status>>

-----------------------------------------------------------------------------
(* The environment: the program and libgomp, as far as the client sees them. *)

(* The teams the master may form.                                            *)
Alive == {t \in Thread : pc[t] \notin {"exiting", "exited"}}
Teams ==
    {tm \in SUBSET Alive :
        /\ Master \in tm
        /\ tm = Alive \/ "subteam" \in Habits
        /\ "late_team" \in Habits \/ ~roi_has_ended
             \/ \A t \in tm : pc[t] # "unborn"}

(* GOMP_parallel: libgomp creates the workers it lacks.                      *)
Fork(tm, f) ==
    /\ Running
    /\ pc[Master] = "serial"
    /\ Room
    /\ tm \in Teams
    /\ team' = tm
    /\ fn' = f
    /\ pc' = [t \in Thread |->
                CASE t = Master -> "forking"
                  [] t \in tm /\ pc[t] = "unborn" -> "starting"
                  [] OTHER -> pc[t]]
    /\ UNCHANGED <<stretch, cached, script>>
    /\ Keep

(* The whole team has arrived at the dock; it starts on the function.        *)
ReleaseTeam(s) ==
    /\ Running
    /\ pc[Master] = "forking"
    /\ \A t \in team \ {Master} : pc[t] = "docked"
    /\ pc' = [t \in Thread |-> IF t \in team THEN "entering" ELSE pc[t]]
    /\ script' = IF in_roi THEN Append(script, fn) ELSE script
    /\ s \in Within(Len(script'))
    /\ stretch' = s
    /\ UNCHANGED <<team, fn, cached>>
    /\ Keep

(* The whole team has arrived at the barrier; it goes on to stretch s.       *)
ReleaseBarrier(s) ==
    /\ Running
    /\ team # {}
    /\ \A t \in team : pc[t] = "waiting"
    /\ pc' = [t \in Thread |-> IF t \in team THEN "resumed" ELSE pc[t]]
    /\ script' = IF in_roi /\ Counted(stretch)
                 THEN Append(script, "GOMP_barrier")
                 ELSE script
    /\ s \in Within(Len(script'))
    /\ stretch' = s
    /\ UNCHANGED <<team, fn, cached>>
    /\ Keep

(* The end of the parallel region is a barrier inside libgomp, and no        *)
(* synchronisation point.                                                    *)
Finish(t) ==
    /\ Running
    /\ stretch.close = "join"
    /\ Step(t, IF stretch.single = "none" THEN "body" ELSE "tail", "done")
    /\ UNCHANGED <<team, fn, stretch, cached, script>>
    /\ Keep

Join ==
    /\ Running
    /\ team # {}
    /\ \A t \in team : pc[t] = "done"
    /\ pc' = [t \in Thread |-> CASE t = Master -> "serial"
                                 [] t \in team \ {Master} -> "docked"
                                 [] OTHER -> pc[t]]
    /\ team' = {}
    /\ UNCHANGED <<fn, stretch, cached, script>>
    /\ Keep

(* An idle worker leaves the pool.                                           *)
LeavePool(t) ==
    /\ Running
    /\ "early_exit" \in Habits
    /\ t \notin team
    /\ Step(t, "docked", "exiting")
    /\ UNCHANGED <<team, fn, stretch, cached, script>>
    /\ Keep

(* main() returns: DynamoRIO ends the threads one by one, in any order.      *)
EndProgram ==
    /\ Running
    /\ pc[Master] = "serial"
    /\ "no_roi" \in Habits \/ roi_end_detected
    /\ pc' = [t \in Thread |->
                IF pc[t] \in {"serial", "docked"} THEN "exiting" ELSE pc[t]]
    /\ UNCHANGED <<team, fn, stretch, cached, script>>
    /\ Keep

-----------------------------------------------------------------------------
(* The handlers.                                                             *)

(* Whether event_thread_init is called, and the id of the first region of a  *)
(* thread that starts now.                                                   *)
InitRegisteredInRoi == "thread_init" \in registered /\ in_roi    \* faulty
InitRegistered      == "thread_init" \in registered
FirstIdEarly        == synch_count - 1                            \* faulty
FirstId             == synch_count

ThreadInit(t) ==
    /\ Running
    /\ Step(t, "starting", IF t = Master THEN "serial" ELSE "docked")
    /\ IF InitRegistered
       THEN /\ tls' = [tls EXCEPT ![t] = TRUE]
            /\ is_master' = [is_master EXCEPT ![t] = first_time_called]
            /\ first_time_called' = FALSE
            /\ in_single' = [in_single EXCEPT ![t] = FALSE]
            /\ cur_synch_id' = [cur_synch_id EXCEPT ![t] = FirstId]
            /\ cur_bbv' = [cur_bbv EXCEPT ![t] = {}]
            /\ cur_lru_hist' = [cur_lru_hist EXCEPT ![t] = {}]
            /\ buf' = [buf EXCEPT ![t] = {}]
            /\ regions' = [regions EXCEPT ![t] = {}]
       ELSE UNCHANGED <<birth, in_single, cur_synch_id, cur_bbv,
                        cur_lru_hist, buf, regions>>
    /\ UNCHANGED <<team, fn, stretch, cached, script, roi, synch_count,
                   threads, status>>

(* The first block of the outlined function: its clean call comes before     *)
(* the wrapper's callback.                                                   *)
EnterFunction(t) ==
    /\ Running
    /\ Step(t, "entering", "entered")
    /\ \/ ExecuteBlock(t, "entry")
       \/ SkipBlock
    /\ cached' = IF Inserting THEN cached \cup {fn} ELSE cached
    /\ UNCHANGED <<team, fn, stretch, script>>

EventOmpParallel(t) ==
    /\ Running
    /\ Step(t, "entered", "body")
    /\ IF in_roi
       THEN SaveData(t, fn)
       ELSE UNCHANGED current
    /\ UNCHANGED <<team, fn, stretch, cached, script, roi, birth, in_single,
                   buf,
                   threads, status>>

(* The block a call to GOMP_barrier returns to.                              *)
ResumeBlock(t) ==
    /\ Running
    /\ Step(t, "resumed", "body")
    /\ \/ ExecuteBlock(t, "body")
       \/ SkipBlock
    /\ UNCHANGED <<team, fn, stretch, cached, script>>

(* Any other block of the program.                                           *)
BodyBlock(t) ==
    /\ Running
    /\ pc[t] \in {"serial", "body", "tail"}
    /\ ExecuteBlock(t, "body")
    /\ UNCHANGED program

EventSingle(t) ==
    /\ Running
    /\ stretch.single # "none"
    /\ Step(t, "body", "tail")
    /\ in_single' = IF in_roi /\ IgnoreSingle
                    THEN [in_single EXCEPT ![t] = TRUE]
                    ELSE in_single
    /\ UNCHANGED <<team, fn, stretch, cached, script, roi, current, birth, buf,
                   threads, status>>

(* Faulty: in_single is not looked at, or never reset.                       *)
OnBarrierAlways(t) ==
    /\ IF in_roi THEN SaveData(t, "GOMP_barrier") ELSE UNCHANGED current
    /\ UNCHANGED in_single
OnBarrierKeepsSingle(t) ==
    /\ IF in_roi /\ ~in_single[t]
       THEN SaveData(t, "GOMP_barrier")
       ELSE UNCHANGED current
    /\ UNCHANGED in_single

(* The body of event_barrier.                                                *)
OnBarrier(t) ==
    /\ IF in_roi /\ ~in_single[t]
       THEN SaveData(t, "GOMP_barrier")
       ELSE UNCHANGED current
    /\ in_single' = IF in_roi THEN [in_single EXCEPT ![t] = FALSE]
                    ELSE in_single

EventBarrier(t) ==
    /\ Running
    /\ stretch.close = "barrier"
    /\ Step(t, IF stretch.single = "none" THEN "body" ELSE "tail", "waiting")
    /\ OnBarrier(t)
    /\ UNCHANGED <<team, fn, stretch, cached, script, roi, birth, buf, threads,
                   status>>

(* GOMP_barrier outside a parallel region: a team of one.                    *)
SerialBarrier ==
    /\ Running
    /\ "serial_barrier" \in Habits
    /\ pc[Master] = "serial"
    /\ in_roi /\ Room
    /\ OnBarrier(Master)
    /\ script' = Append(script, "GOMP_barrier")
    /\ UNCHANGED <<pc, team, fn, stretch, cached, roi, birth, buf, threads,
                   status>>

(* event_roi_init.  Its static only_once is FALSE after the first call, just *)
(* as roi_start_detected is TRUE.                                            *)
RoiStart ==
    /\ Running
    /\ pc[Master] = "serial"
    /\ ~roi_start_detected \/ "second_roi" \in Habits
    /\ roi_start_detected' = TRUE
    /\ IF ~roi_start_detected
       THEN /\ registered' = registered \cup {"thread_exit"}
            /\ in_roi' = TRUE
            /\ UNCHANGED status
       ELSE /\ status' = IF Debug THEN "assert" ELSE status
            /\ UNCHANGED <<registered, in_roi>>
    /\ UNCHANGED <<program, roi_has_ended, roi_end_detected, current, birth,
                   in_single, buf, threads>>

(* event_roi_end.  A second call stops a debug build at its assertion and    *)
(* saves one more region of the master in a release build.                   *)
RoiEnd ==
    /\ Running
    /\ pc[Master] = "serial"
    /\ roi_start_detected
    /\ \/ ~roi_end_detected
       \/ "second_roi" \in Habits /\ synch_count <= MaxSynch
    /\ roi_end_detected' = TRUE
    /\ in_roi' = FALSE
    /\ roi_has_ended' = TRUE
    /\ registered' = registered \ {"thread_init", "bb_app2app", "bb_insertion"}
    /\ script' = IF roi_end_detected THEN script
                 ELSE Append(script, "thread_exit")
    /\ IF roi_end_detected /\ Debug
       THEN status' = "assert" /\ UNCHANGED current
       ELSE SaveData(Master, "thread_exit") /\ UNCHANGED status
    /\ UNCHANGED <<pc, team, fn, stretch, cached, roi_start_detected, birth,
                   in_single, buf, threads>>

(* event_thread_exit, once it is registered.                                 *)
ThreadExit(t) ==
    /\ Running
    /\ Step(t, "exiting", "exited")
    /\ IF "thread_exit" \notin registered
       THEN UNCHANGED <<current, threads, status>>
       ELSE IF ~tls[t]
       THEN status' = "null_data" /\ UNCHANGED <<current, threads>>
       ELSE /\ IF is_master[t] THEN UNCHANGED current
               ELSE SaveData(t, "thread_exit")
            /\ threads' = threads \cup {t}
            /\ UNCHANGED status
    /\ UNCHANGED <<team, fn, stretch, cached, script, roi, birth, in_single,
                   buf>>

(* Faulty: id <= synch_count in the loop.                                    *)
AlignFindsOneMore ==
    \A t \in threads : \A id \in 0 .. synch_count :
        \E r \in regions[t] : r.id = id

(* Does align_synch_bb find every region it dereferences?                    *)
AlignFindsAll ==
    \A t \in threads : \A id \in 0 .. synch_count - 1 :
        \E r \in regions[t] : r.id = id

(* event_exit, up to the files.                                              *)
EventExit ==
    /\ Running
    /\ \A t \in Thread : pc[t] \in {"unborn", "exited"}
    /\ status' = CASE Debug /\ ~(roi_start_detected /\ roi_end_detected)
                          -> "assert"
                   [] ~AlignFindsAll -> "missing_region"
                   [] OTHER -> "saved"
    /\ UNCHANGED <<program, roi, current, birth, in_single, buf, threads>>

(* The process is gone, one way or another.                                  *)
Stopped == ~Running /\ UNCHANGED vars

ProgramStep ==
    \/ \E tm \in SUBSET Thread, f \in Fn : Fork(tm, f)
    \/ \E s \in Stretch : ReleaseTeam(s) \/ ReleaseBarrier(s)
    \/ Join
    \/ EndProgram
    \/ \E t \in Thread : Finish(t) \/ LeavePool(t)

ThreadStep(t) ==
    \/ ThreadInit(t)
    \/ EnterFunction(t)
    \/ EventOmpParallel(t)
    \/ ResumeBlock(t)
    \/ BodyBlock(t)
    \/ EventSingle(t)
    \/ EventBarrier(t)
    \/ ThreadExit(t)

Next ==
    \/ ProgramStep
    \/ \E t \in Thread : ThreadStep(t)
    \/ SerialBarrier
    \/ RoiStart
    \/ RoiEnd
    \/ EventExit
    \/ Stopped

Spec == Init /\ [][Next]_vars

(* Once main() has returned, DynamoRIO runs the exit handlers to their end.  *)
FairSpec ==
    /\ Spec
    /\ \A t \in Thread : WF_vars(ThreadExit(t))
    /\ WF_vars(EventExit)

-----------------------------------------------------------------------------
(* Properties.                                                               *)

PcLabel == {"unborn", "starting", "docked", "serial", "forking", "entering",
            "entered", "body", "tail", "waiting", "resumed", "done",
            "exiting", "exited"}

(* Every variable stays in the domain the client and the program give it.    *)
TypeOK ==
    /\ pc \in [Thread -> PcLabel]
    /\ team \subseteq Thread
    /\ fn \in Fn
    /\ stretch \in Stretch
    /\ cached \subseteq Fn
    /\ script \in Seq(Name)
    /\ in_roi \in BOOLEAN
    /\ roi_has_ended \in BOOLEAN
    /\ roi_start_detected \in BOOLEAN
    /\ roi_end_detected \in BOOLEAN
    /\ registered \subseteq
         {"thread_init", "thread_exit", "bb_app2app", "bb_insertion"}
    /\ first_time_called \in BOOLEAN
    /\ synch_count \in Nat
    /\ threads \subseteq Thread
    /\ status \in {"run", "assert", "null_data", "missing_region", "saved"}
    /\ tls \in [Thread -> BOOLEAN]
    /\ is_master \in [Thread -> BOOLEAN]
    /\ in_single \in [Thread -> BOOLEAN]
    /\ cur_synch_id \in [Thread -> Nat]
    /\ cur_bbv \in [Thread -> SUBSET Block]
    /\ cur_lru_hist \in [Thread -> SUBSET Int]
    /\ buf \in [Thread -> SUBSET Int]
    /\ regions \in [Thread -> SUBSET Region]

RegionIds(t) == {r.id : r \in regions[t]}

(* The region ids of all threads denote the same intervals of the            *)
(* execution, although each thread counts alone: a block in region k ran     *)
(* after k synchronisation points, except that the first block of an         *)
(* outlined function is found one region early (which is what                *)
(* align_synch_bb exists to repair).  Behaviour of save_data, add_bb.        *)
Aligned ==
    \A t \in Thread : \A r \in regions[t] : \A b \in r.bbv :
        b.at = IF b.blk = "entry" THEN r.id + 1 ELSE r.id

(* The region with id k carries, in every thread, the name of the k-th       *)
(* synchronisation point of the program.  Behaviour of save_data's omp_name. *)
RegionNames ==
    \A t \in Thread : \A r \in regions[t] :
        r.id < Passed => r.name = script[r.id + 1]

(* The references in the histogram of region k were made in region k or at   *)
(* the end of the one before it: the buffer holds back one block at most,    *)
(* and nothing the program does after the ROI is ever counted.  Behaviour    *)
(* of clean_call's add_address and clean_buffer.                             *)
RefsLag ==
    \A t \in Thread : \A r \in regions[t] : \A a \in r.hist :
        a \in {r.id - 1, r.id}

(* The master has one region for each value synch_count has had, whatever    *)
(* the program does: save_bp_id's assertion "Master Thread is missing some   *)
(* piece of info" can never fail.  Behaviour of save_data.                   *)
MasterComplete ==
    tls[Master] => /\ is_master[Master]
                   /\ RegionIds(Master) = 0 .. synch_count - 1

(* The ids a worker has saved form an interval that ends at its counter, and *)
(* the counter is never more than two above the one the master keeps: a      *)
(* worker can pass the start of the function and meet a barrier before the   *)
(* master has saved either, and no further.  So what the loops up to         *)
(* synch_count leave out of a worker's data is the end of it, never a part   *)
(* of what the master has already passed.  Behaviour of save_data.           *)
WorkersNotAhead ==
    \A t \in Worker :
        /\ cur_synch_id[t] <= synch_count + 2
        /\ \A r \in regions[t] :
              r.id + 1 \in RegionIds(t) \/ r.id + 1 = cur_synch_id[t]

(* No handler dereferences the NULL data of a thread nobody initialised.     *)
NoNullData == status # "null_data"

(* align_synch_bb finds the region of every thread at every id it visits.    *)
NoMissingRegion == status # "missing_region"

(* When the files are written, every thread that is in them has a region for *)
(* each synchronisation point of the program and for nothing else, and the   *)
(* regions of one id have one name.                                          *)
OutputComplete ==
    status = "saved" =>
        /\ synch_count = Passed
        /\ \A t \in threads :
             {<<r.id, r.name>> : r \in regions[t]} =
                 {<<i - 1, script[i]>> : i \in 1 .. Passed}

(* A region, once saved, is never replaced or lost, and each call of         *)
(* save_barrier adds one: unordered_map::insert, which would silently drop   *)
(* a region whose id is taken, never meets one.                              *)
SavesAppend ==
    [][\A t \in Thread : tls[t] =>
         /\ regions[t] \subseteq regions'[t]
         /\ cur_synch_id'[t] # cur_synch_id[t] =>
              \E r \in regions'[t] \ regions[t] : r.id = cur_synch_id[t]]_vars

(* Once main() has returned the profile is written: none of the exit         *)
(* handlers stops the client first.                                          *)
ExitSaves == pc[Master] = "exiting" ~> status = "saved"
=============================================================================
