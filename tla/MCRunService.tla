---------------------------- MODULE MCRunService ----------------------------
(* Instances of RunService for TLC: one job, one or two requests served at *)
(* once, and the run thread of the job.                                    *)
EXTENDS RunService, TLC

CONSTANTS j1, t1, t2

\* Two request threads are alike.
Symmetry == Permutations(Thread)
=============================================================================
