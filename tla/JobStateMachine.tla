--------------------------- MODULE JobStateMachine ---------------------------
(* The transition table of a job, domain/state_machine.py and the status   *)
(* predicates of domain/models.py.                                         *)

Status == {"queued", "running", "paused", "completed", "failed", "cancelled"}
Event == {"start", "pause", "resume", "complete", "fail", "cancel"}

ActiveStatus == {"queued", "running", "paused"}

\* <<status, event, next status>>
Transitions ==
    { <<"queued",  "start",    "running">>,
      <<"queued",  "cancel",   "cancelled">>,
      <<"running", "pause",    "paused">>,
      <<"running", "complete", "completed">>,
      <<"running", "fail",     "failed">>,
      <<"running", "cancel",   "cancelled">>,
      <<"paused",  "resume",   "running">>,
      <<"paused",  "cancel",   "cancelled">> }

CanTransition(s, e) == \E t \in Transitions : t[1] = s /\ t[2] = e

NextStatus(s, e) == (CHOOSE t \in Transitions : t[1] = s /\ t[2] = e)[3]
=============================================================================
