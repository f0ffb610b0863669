------------------------------- MODULE MCAIJobs -------------------------------
(* Small instances of AIJobs.                                              *)
EXTENDS AIJobs, TLC

CONSTANTS q1, q2, q3, a1, a2, c1, j1, j2

MCCaseOf == [e \in Targets |-> c1]
===============================================================================
