---------------------------- MODULE MCRunSystem ----------------------------
(* Instances of RunSystem for TLC: a job on a canary and two other devices, *)
(* or on a canary alone, steered by one client.                             *)
EXTENDS RunSystem

CONSTANTS j1, t1, d1, d2, d3

Call(devs, c, r, s) ==
    [devices |-> devs, canary |-> d1, concurrency |-> c, retry |-> r, stopOnError |-> s]

MCCalls ==
    {Call(<<d1, d2, d3>>, c, r, s) : c \in 1 .. 2, r \in 0 .. 1, s \in BOOLEAN}
    \cup {Call(<<d2, d1>>, 1, 1, FALSE), Call(<<d1>>, 1, 0, TRUE)}
=============================================================================
