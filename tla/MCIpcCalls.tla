----------------------------- MODULE MCIpcCalls -----------------------------
(***************************************************************************)
(* Two instances of IpcChannel for TLC, side by side: a run begins in one  *)
(* of them and stays there.                                                *)
(*   waits - all the tasks, which wait, with and without a deadline, and   *)
(*           make no mistake; one generation of the slot;                  *)
(*   calls - two of its tasks, which make every mistake and never wait     *)
(*           without a deadline; all its generations.                      *)
(* The constants of waits and calls are among those of the .cfg, so that   *)
(* the properties of IpcChannel are about both.                            *)
(***************************************************************************)
EXTENDS MCIpcChannel

VARIABLE instance

Waits == INSTANCE IpcChannel WITH
    Lengths <- {1, 2}, BufferSizes <- {2}, Modes <- {"finite", "forever"}, MaxGen <- 1

Early == INSTANCE IpcChannel WITH Modes <- {"try", "zero", "finite"}

MCInit == instance \in {"waits", "calls"} /\ Init

MCNext ==
    /\ \/ instance = "waits" /\ Waits!Next
       \/ instance = "calls" /\ \E t \in TwoTasks : Early!Begin(t) \/ Early!Step(t)
    /\ UNCHANGED instance

MCSpec == MCInit /\ [][MCNext]_<<vars, instance>>
=============================================================================
