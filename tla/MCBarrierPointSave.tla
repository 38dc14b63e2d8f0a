------------------------- MODULE MCBarrierPointSave -------------------------
(* A small instance of BarrierPointSave for TLC.                             *)
EXTENDS BarrierPointSave, TLC

CONSTANTS f1, f2, b1, b2

MCEntrySize == f1 :> 2 @@ f2 :> 3

(* Nothing; one block and references at one distance; two blocks, and        *)
(* references at three distances with a gap between them.                    *)
MCProfiles ==
    {[blocks |-> <<>>, hist |-> <<>>],
     [blocks |-> b1 :> 2, hist |-> <<1>>],
     [blocks |-> b1 :> 1 @@ b2 :> 5, hist |-> <<2, 1, 0, 1>>]}
=============================================================================
