-------------------------- MODULE MCExecutionEngine --------------------------
(* Instances of ExecutionEngine for TLC. *)
EXTENDS ExecutionEngine

CONSTANTS d1, d2, d3, d4

Call(devs, can, conc, ret, stop) ==
    [devices |-> devs, canary |-> can, concurrency |-> conc,
     retry |-> ret, stopOnError |-> stop]

\* Requests prepare_run accepts: canary anywhere in the list, one to three
\* other devices, a key that is repeated, plus the two calls run_job refuses.
MCCalls ==
    {Call(ds, d1, c, r, s) :
        ds \in {<<d1>>, <<d2, d1>>, <<d1, d2, d3, d4>>},
        c \in 1 .. 2, r \in 0 .. 1, s \in BOOLEAN}
    \cup {Call(<<d1, d2, d2>>, d1, c, 0, s) : c \in 1 .. 2, s \in BOOLEAN}
    \cup {Call(<<d1, d2, d2, d3>>, d1, 2, 0, TRUE)}
    \cup {Call(<< >>, d1, 1, 0, TRUE), Call(<<d2, d3>>, d1, 1, 0, TRUE)}

\* One canary and two others: enough for a full pool with one device waiting.
MCSmallCalls == {Call(<<d1, d2, d3>>, d1, c, 1, s) : c \in 1 .. 2, s \in BOOLEAN}
=============================================================================
