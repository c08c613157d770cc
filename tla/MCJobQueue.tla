---------------------------- MODULE MCJobQueue ----------------------------
(* Instances of JobQueue for TLC.                                          *)
EXTENDS JobQueue

Tasks    == Client \cup Worker
SamePrio == [t \in Client \cup Worker |-> 1]
=============================================================================
