--------------------------- MODULE MCDeviceSession ---------------------------
(* Instances of DeviceSession for TLC. *)
EXTENDS DeviceSession

ApplyCall(v, canary, cancellable) ==
    [kind |-> "apply", commands |-> 1, verify |-> v, canary |-> canary,
     retryConnect |-> ~canary, cancellable |-> cancellable]

\* Calls of NetmikoDeviceWorker (canary, no retry, no event), calls with the
\* executor's own defaults, a status session and an import check.
MCCalls ==
    {ApplyCall(v, c, e) : v \in 0 .. 2, c \in BOOLEAN, e \in BOOLEAN}
    \cup {[kind |-> k, commands |-> 2, verify |-> 0, canary |-> TRUE,
            retryConnect |-> FALSE, cancellable |-> FALSE] : k \in {"status", "validate"}}
=============================================================================
