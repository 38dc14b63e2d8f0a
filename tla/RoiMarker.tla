----------------------------- MODULE RoiMarker -----------------------------
(***************************************************************************)
(* libbp_dr.so (bp_dr.cc), preloaded when a program is run under           *)
(* DynamoRIO: its GOMP_barrier turns the two barriers that delimit the     *)
(* region of interest into calls of SimRoiStart and SimRoiEnd, and passes  *)
(* every other barrier on to libgomp.                                      *)
(*                                                                         *)
(* _inside_roi and _dr_flag are plain globals that all threads read and    *)
(* write, so GOMP_barrier takes a step for each access.  The program is    *)
(* the environment: it forms teams, meets barriers in them and outside,    *)
(* and delimits the region of interest the way README.md asks for, by a    *)
(* setenv that is directly followed by a barrier, outside of every team.   *)
(***************************************************************************)
EXTENDS Naturals, Sequences

CONSTANTS
  Threads,  \* the threads of the program
  Master    \* the thread omp_get_thread_num() calls 0

ASSUME MasterAssumption == Master \in Threads

VARIABLES
  team,        \* the threads of the parallel region, {} outside of one
  pc,          \* where each thread is: in the program ("out"), waiting in
               \* libgomp ("real", "joined"), or in GOMP_barrier
  roi_bp,      \* the environment variable ROI_BP
  inside_roi,  \* _inside_roi
  dr_flag,     \* _dr_flag
  marks        \* history: the calls of the markers

markerVars == <<dr_flag, marks>>
processVars == <<team, pc, roi_bp, inside_roi>>
roiVars == <<processVars, markerVars>>

\* The threads that execute the program now.
Active == IF team = {} THEN {Master} ELSE team

GoesTo(t, label) == pc' = [pc EXCEPT ![t] = label]

ProcessInit ==
  /\ team = {}
  /\ pc = [t \in Threads |-> "out"]
  /\ roi_bp = "unset"
  /\ inside_roi = FALSE

MarkerInit ==
  /\ dr_flag = FALSE
  /\ marks = <<>>

----------------------------------------------------------------------------
(* The program and libgomp.                                                *)

Fork(members) ==
  /\ team = {}
  /\ pc[Master] = "out"
  /\ team' = members
  /\ UNCHANGED <<pc, roi_bp, inside_roi>>

Finish(t) ==
  /\ t \in team
  /\ pc[t] = "out"
  /\ GoesTo(t, "joined")
  /\ UNCHANGED <<team, roi_bp, inside_roi>>

Join ==
  /\ team # {}
  /\ \A t \in team : pc[t] = "joined"
  /\ team' = {}
  /\ pc' = [t \in Threads |-> "out"]
  /\ UNCHANGED <<roi_bp, inside_roi>>

\* libgomp's own barrier: it holds a thread until all of the team are in it.
Release ==
  /\ \A t \in Active : pc[t] = "real"
  /\ pc' = [t \in Threads |-> "out"]
  /\ UNCHANGED <<team, roi_bp, inside_roi>>

\* setenv("ROI_BP", value, 1); #pragma omp barrier
SetRoi(value) ==
  /\ team = {}
  /\ pc[Master] = "out"
  /\ roi_bp' = value
  /\ GoesTo(Master, "env")
  /\ UNCHANGED <<team, inside_roi>>

CallBarrier(t) ==
  /\ t \in Active
  /\ pc[t] = "out"
  /\ GoesTo(t, "env")
  /\ UNCHANGED <<team, roi_bp, inside_roi>>

----------------------------------------------------------------------------
(* GOMP_barrier of bp_dr.cc.                                               *)

\* What the environment makes of _inside_roi.
RoiRead == IF roi_bp = "unset" THEN inside_roi ELSE roi_bp = "1"

ReadEnv(t) ==
  /\ pc[t] = "env"
  /\ inside_roi' = RoiRead
  /\ GoesTo(t, "flag")
  /\ UNCHANGED <<team, roi_bp>>

TestFlag(t) ==
  /\ pc[t] = "flag"
  /\ GoesTo(t, CASE inside_roi /\ ~dr_flag -> "start"
                 [] ~inside_roi /\ dr_flag -> "end"
                 [] OTHER -> "real")
  /\ UNCHANGED <<team, roi_bp, inside_roi>>

FlagAfterStuck(call) == TRUE  \* faulty: never taken back

\* What a call of a marker leaves in _dr_flag.
FlagAfter(call) == call = "start"

\* The marker is called, and GOMP_barrier returns: no barrier is executed.
Mark(t) ==
  /\ pc[t] \in {"start", "end"}
  /\ dr_flag' = FlagAfter(pc[t])
  /\ marks' = Append(marks, [call |-> pc[t], by |-> t, team |-> team])
  /\ GoesTo(t, "out")
  /\ UNCHANGED <<team, roi_bp, inside_roi>>

----------------------------------------------------------------------------
RoiInit == ProcessInit /\ MarkerInit

RoiNext ==
  \/ \E members \in SUBSET Threads :
       Master \in members /\ Fork(members) /\ UNCHANGED markerVars
  \/ Join /\ UNCHANGED markerVars
  \/ Release /\ UNCHANGED markerVars
  \/ \E value \in {"0", "1"} : SetRoi(value) /\ UNCHANGED markerVars
  \/ \E t \in Threads :
       \/ Finish(t) /\ UNCHANGED markerVars
       \/ CallBarrier(t) /\ UNCHANGED markerVars
       \/ ReadEnv(t) /\ UNCHANGED markerVars
       \/ TestFlag(t) /\ UNCHANGED markerVars
       \/ Mark(t)

RoiSpec == RoiInit /\ [][RoiNext]_roiVars

----------------------------------------------------------------------------
(***************************************************************************)
(* The calls of SimRoiStart and SimRoiEnd alternate, beginning with a      *)
(* start, and each is made by the master outside of every team: no thread  *)
(* of a team ever takes the flags for a request (bp_dr.cc:38-55), so none  *)
(* leaves the others behind in a barrier, and the client meets its one     *)
(* region of interest on the thread it asserts it on.                      *)
(***************************************************************************)
MarksPaired ==
  \A i \in 1..Len(marks) :
    /\ marks[i].call = IF (i % 2) = 1 THEN "start" ELSE "end"
    /\ marks[i].by = Master
    /\ marks[i].team = {}
=============================================================================
