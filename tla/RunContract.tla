----------------------------- MODULE RunContract -----------------------------
(***************************************************************************)
(* What a run promises the operator who starts it, without threads, pools  *)
(* or flags: every target device is touched at most once, the canary       *)
(* first, the others only after the canary's success and never more than   *)
(* the limit at once; with stop on error nothing new is touched once as    *)
(* many devices went bad as may be in flight together; one verdict is      *)
(* given, it is true, and nothing is touched after it.                     *)
(*                                                                         *)
(* Touched means committed to: from then on, until its outcome is known,   *)
(* the device may be changed at any time, after a verdict of "cancelled"   *)
(* too.                                                                    *)
(***************************************************************************)
EXTENDS Integers, FiniteSets

CONSTANT Device    \* device keys

VARIABLES
    order,     \* [targets, canary, limit, stopOnError]: what was ordered
    fate,      \* device -> "untouched" | "busy" | "good" | "bad"
    verdict    \* "none" | "completed" | "failed" | "cancelled"

Orders == [targets : SUBSET Device, canary : Device,
           limit : Nat \ {0}, stopOnError : BOOLEAN]

vars == <<order, fate, verdict>>

With(f) == {d \in Device : fate[d] = f}

Init ==
    /\ order \in Orders
    /\ fate = [d \in Device |-> "untouched"]
    /\ verdict = "none"

\* A device's configuration may be changed from now on.
Touch(d) ==
    /\ verdict = "none"
    /\ d \in order.targets /\ fate[d] = "untouched"
    /\ d = order.canary \/ fate[order.canary] = "good"
    /\ Cardinality(With("busy")) < order.limit
    /\ order.stopOnError => Cardinality(With("bad")) < order.limit
    /\ fate' = [fate EXCEPT ![d] = "busy"]
    /\ UNCHANGED <<order, verdict>>

\* The outcome of a device is known; devices in flight settle even after a
\* verdict of "cancelled".
Settle(d) ==
    /\ fate[d] = "busy"
    /\ \E f \in {"good", "bad"} : fate' = [fate EXCEPT ![d] = f]
    /\ UNCHANGED <<order, verdict>>

Complete ==
    /\ verdict = "none"
    /\ order.targets # {} /\ \A d \in order.targets : fate[d] = "good"
    /\ verdict' = "completed"
    /\ UNCHANGED <<order, fate>>

Fail ==
    /\ verdict = "none"
    /\ With("busy") = {}
    /\ With("bad") # {} \/ order.canary \notin order.targets
    /\ verdict' = "failed"
    /\ UNCHANGED <<order, fate>>

Cancel ==
    /\ verdict = "none"
    /\ verdict' = "cancelled"
    /\ UNCHANGED <<order, fate>>

Next ==
    \/ \E d \in Device : Touch(d) \/ Settle(d)
    \/ Complete \/ Fail \/ Cancel

Spec == Init /\ [][Next]_vars
=============================================================================
