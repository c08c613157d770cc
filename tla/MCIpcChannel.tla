---------------------------- MODULE MCIpcChannel ----------------------------
(* Instances of IpcChannel for TLC.                                        *)
EXTENDS IpcChannel, TLC

CONSTANTS t1, t2, t3

TwoTasks   == {t1, t2}
ThreeTasks == {t1, t2, t3}

(* t1 and t2 are of one priority, t3 of a higher one.                      *)
TwoPrio   == [t \in TwoTasks |-> 1]
ThreePrio == [t \in ThreeTasks |-> IF t = t3 THEN 2 ELSE 1]

(* Tasks of one priority are interchangeable.                              *)
Equals == Permutations({t1, t2})
=============================================================================
