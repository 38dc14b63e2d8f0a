---------------------------- MODULE MCSelection ----------------------------
(* A small instance of Selection for TLC.                                    *)
EXTENDS Selection, TLC

(* A region that executes nothing, one without references, and two with      *)
(* different reuse distances.                                                *)
MCProfiles ==
    {[ins |-> 0, ldv |-> <<>>, bbv |-> <<>>],
     [ins |-> 1, ldv |-> <<>>, bbv |-> 1 :> 1],
     [ins |-> 3, ldv |-> 1 :> 2 @@ 3 :> 1, bbv |-> 1 :> 3],
     [ins |-> 4, ldv |-> 2 :> 1, bbv |-> 1 :> 2 @@ 2 :> 2]}

(* One cluster, two, and two when an id between them is not in use.          *)
MCIdLists == {<<0>>, <<0, 1>>, <<0, 2>>}
=============================================================================
