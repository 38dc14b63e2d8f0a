-------------------------- MODULE MCBarrierClient --------------------------
(* Small instances of BarrierClient for TLC.  The instances of single        *)
(* features name their Habits in the .cfg.                                   *)
EXTENDS BarrierClient

(* Any program that has no "single nowait".                                  *)
MCAnyHabits == AllHabits \ {"nowait"}
=============================================================================
