------------------------------- MODULE MCDispatch -------------------------------
(* Small instances of Dispatch.                                            *)
EXTENDS Dispatch, TLC

CONSTANTS c1, c2, s1, s2, s3, u1, u2, e1, e2

MCInitialCases == [status : {"accepted"}, stamps : {{"submitted", "reviewing", "accepted"}}]

MCDispatchInputs == [unit : UnitsOrNull, engineer : EngineersOrNull]

Symmetry == Permutations(Sessions) \cup Permutations(Cases) \cup Permutations(Units)
            \cup Permutations(Engineers)
===============================================================================
