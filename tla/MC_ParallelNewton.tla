-------------------------- MODULE MC_ParallelNewton --------------------------
(* Exceptions of one process among several that the runs tell apart.       *)
EXTENDS ParallelNewton

NoThrow == {}
SolverThrows == {"solver"}
=============================================================================
