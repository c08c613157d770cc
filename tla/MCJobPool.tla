----------------------------- MODULE MCJobPool -----------------------------
(***************************************************************************)
(* Two instances of JobQueue for TLC, side by side: a run begins in one of *)
(* its Kinds and stays there.                                              *)
(*   given - the constants of the .cfg;                                    *)
(*   pool  - one of its workers and one of its slots; submits that wait,   *)
(*           time out or find no memory, waits for results, destroyed      *)
(*           handles.                                                      *)
(* The constants of pool are among those of the .cfg, so that the          *)
(* properties of JobQueue are about both. In pool the other workers do     *)
(* nothing and the other slots stay empty.                                 *)
(***************************************************************************)
EXTENDS MCJobQueue

CONSTANTS w1, Kinds

VARIABLE instance

OneWorker == INSTANCE JobQueue WITH Worker <- {w1}

Pool == INSTANCE JobQueue WITH
    Worker <- {w1}, Capacity <- 1,
    Ops <- {"submit", "wait", "handle_destroy"}, Modes <- {"try", "timed"},
    AllocFails <- TRUE

MCInit ==
    /\ instance \in Kinds
    /\ IF instance = "pool" THEN OneWorker!Init ELSE Init

MCNext ==
    /\ \/ instance = "given" /\ Next
       \/ instance = "pool" /\ Pool!Next
    /\ UNCHANGED instance

MCSpec == MCInit /\ [][MCNext]_<<vars, instance>>

(* The fairness of JobQueue, for the instance given.                       *)
MCFairSpec ==
    MCSpec /\ \A t \in Task : WF_<<vars, instance>>(Step(t) /\ UNCHANGED instance)
=============================================================================
