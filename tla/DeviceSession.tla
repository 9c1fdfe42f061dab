---------------------------- MODULE DeviceSession ----------------------------
(***************************************************************************)
(* The SSH sessions of infrastructure/netmiko_executor.py: applying a      *)
(* configuration with verification before and after (NetmikoDeviceWorker), *)
(* status commands, and the connection check of the device import.  A call *)
(* that applies a configuration is repeated by _run_with_retry while it is *)
(* no success and attempts are left.                                       *)
(*                                                                         *)
(* Netmiko and the device are the environment: a connection may be refused *)
(* and anything sent to the device may be answered well, answered with an  *)
(* error message, or raise.  The device's configuration is "old", "new",   *)
(* or "partly" changed.  The deadline passes and the cancel flag is set at *)
(* any moment; both are looked at between commands only.  The looks before *)
(* the configuration and send_config_set are steps of their own, so that   *)
(* either may come too late; a verification command and the look before it *)
(* are one step, and so are a connection and the looks before it.          *)
(* NetmikoDeviceWorker passes no cancel event: its calls are not           *)
(* cancellable.                                                            *)
(***************************************************************************)
EXTENDS Integers

CONSTANTS
    Calls,       \* the calls considered
    Attempts     \* attempts _run_with_retry makes of a failing call

Kind == {"apply", "status", "validate"}
CallType == [kind : Kind, commands : Nat \ {0}, verify : Nat,
             canary : BOOLEAN, retryConnect : BOOLEAN, cancellable : BOOLEAN]

ASSUME CallsAssumption == Calls \subseteq CallType
ASSUME AttemptsAssumption == Attempts \in Nat

VARIABLES
    call,       \* arguments of the call
    attempt,    \* number of the attempt
    pc,         \* stage of the call
    conn,       \* "none", "open", or "released" once disconnect was called
    dials,      \* retry_count of _connect_with_retry
    next,       \* the verification or status command to send next
    late,       \* DEVICE_TIMEOUT has passed since the call began
    cancel,     \* cancel_event
    sent,       \* send_config_set was called in this call
    config,     \* configuration of the device
    before,     \* configuration when the call began
    result      \* the result dictionary

session == <<conn, dials, next, sent>>
env == <<late, cancel>>
vars == <<call, attempt, pc, session, env, config, before, result>>

Config == {"old", "partly", "new"}
SessionCode == {"command_timeout", "execution_error"}
Code == SessionCode \cup {"none", "cancelled", "device_timeout", "connection_timeout",
         "connection_error", "authentication_failed", "command_error", "no_profile"}

\* _initial_execution_result
Fresh == [status |-> "success", code |-> "none", pre |-> "none", applied |-> FALSE,
          post |-> "none", diff |-> FALSE]

MaxRetries == IF call.canary THEN 0 ELSE 1
FirstStage == IF call.kind # "apply" THEN call.kind ELSE IF call.verify > 0 THEN "pre" ELSE "apply"

Init ==
    /\ call \in Calls /\ attempt = 1
    /\ pc = "start" /\ conn = "none" /\ dials = 0 /\ next = 1
    /\ late = FALSE /\ cancel = FALSE
    /\ sent = FALSE /\ config = "old" /\ before = "old"
    /\ result = Fresh

-----------------------------------------------------------------------------
Return(r) == result' = r /\ pc' = "returned"

\* _mark_failed, _mark_cancelled
Failed(c) == [result EXCEPT !.status = "failed", !.code = c]
Cancelled == [result EXCEPT !.status = "cancelled", !.code = "cancelled"]

\* Mutant: the handlers of the last resort do not disconnect.
CrashKeepsOpen ==
    /\ UNCHANGED conn
    /\ \E c \in SessionCode : Return(Failed(c))

\* An exception inside the session: disconnect, whatever that raises, and fail.
Crash ==
    /\ conn' = "released"
    /\ \E c \in SessionCode : Return(Failed(c))

\* disconnect() and return r; a disconnect that raises is a crash.
Leave(r) == (conn' = "released" /\ Return(r)) \/ Crash

\* Mutant: the output is kept only if it shows no error.
RejectedBare == Failed("command_error")

\* send_config_set's output is kept, whatever _check_for_errors says of it.
Rejected == [Failed("command_error") EXCEPT !.applied = TRUE]

\* Mutant: a failed connection is not counted.
NextDialAgain == dials

NextDial == dials + 1

\* Mutant: off by one.
MayRetryOneMore == call.retryConnect /\ dials <= MaxRetries

\* Whether a failed connection is tried once more.
MayRetry == call.retryConnect /\ dials < MaxRetries

\* Mutant: an error message in an output is overlooked.
CleanAlways(a) == TRUE

\* _check_for_errors: the output shows none of ERROR_PATTERNS.
Clean(a) == a = "ok"

-----------------------------------------------------------------------------
(* execute_device_commands                                                 *)

\* NetmikoDeviceWorker finds no profile: the import was replaced or reset.
NoProfile ==
    /\ pc = "start" /\ call.kind = "apply"
    /\ Return(Failed("no_profile"))
    /\ UNCHANGED <<call, attempt, session, env, config, before>>

Start ==
    /\ pc = "start"
    /\ \/ call.kind = "apply" /\ cancel /\ Return(Cancelled)
       \/ call.kind = "apply" /\ ~cancel /\ late /\ Return(Failed("device_timeout"))
       \/ /\ call.kind = "apply" => ~cancel /\ ~late
          /\ pc' = "connect" /\ UNCHANGED result
    /\ UNCHANGED <<call, attempt, session, env, config, before>>

\* One pass of _connect_with_retry that reaches the device.
Connect ==
    /\ pc = "connect"
    /\ call.kind = "apply" => ~late /\ ~cancel
    /\ conn' = "open"
    /\ pc' = FirstStage
    /\ UNCHANGED <<call, attempt, dials, next, sent, env, config, before, result>>

\* One that does not: timeouts and other errors are retried while allowed, a
\* refused login never is.  Status commands and the import check dial once.
ConnectFails ==
    /\ pc = "connect"
    /\ call.kind = "apply" => ~late /\ ~cancel
    /\ \E c \in {"connection_timeout", "connection_error", "authentication_failed"} :
        IF call.kind = "apply" /\ c # "authentication_failed" /\ MayRetry
        THEN dials' = NextDial /\ pc' = "backoff" /\ UNCHANGED result
        ELSE Return(Failed(c)) /\ UNCHANGED dials
    /\ UNCHANGED <<call, attempt, conn, next, sent, env, config, before>>

Backoff ==
    /\ pc = "backoff" /\ pc' = "connect"
    /\ UNCHANGED <<call, attempt, session, env, config, before, result>>

ConnectStopped ==
    /\ pc = "connect" /\ call.kind = "apply"
    /\ \/ late /\ Return(Failed("device_timeout"))
       \/ ~late /\ cancel /\ Return(Cancelled)
    /\ UNCHANGED <<call, attempt, session, env, config, before>>

\* The deadline or the cancel flag is noticed between two commands.
Stopped ==
    \/ cancel /\ Leave(Cancelled)
    \/ ~cancel /\ late /\ Leave(Failed("device_timeout"))

\* What the device makes of a command sent to it.
Answer == {"ok", "error", "raise"}

\* _run_verification_commands, one command; after the last one the stage ends
\* with result r and stage s follows.
Verify(s, r) ==
    /\ IF cancel \/ late THEN Stopped /\ UNCHANGED next
       ELSE \E a \in Answer :
            IF a = "raise" THEN Crash /\ UNCHANGED next
            ELSE IF ~Clean(a) THEN Leave(Failed("command_error")) /\ UNCHANGED next
            ELSE IF next < call.verify THEN next' = next + 1 /\ UNCHANGED <<pc, conn, result>>
            ELSE next' = 1 /\ pc' = s /\ result' = r /\ UNCHANGED conn
    /\ UNCHANGED <<call, attempt, dials, sent, env, config, before>>

PreVerify == pc = "pre" /\ Verify("apply", [result EXCEPT !.pre = config])

PostVerify == pc = "post" /\ Verify("close", [result EXCEPT !.post = config, !.diff = TRUE])

\* _apply_configuration_commands: both looks in the loop over the commands, then
\* the clock once more.
ApplyStopped ==
    /\ pc = "apply" /\ (cancel \/ late)
    /\ Stopped
    /\ UNCHANGED <<call, attempt, dials, next, sent, env, config, before>>

ApplyAllowed ==
    /\ pc = "apply" /\ ~cancel /\ ~late
    /\ pc' = "clock"
    /\ UNCHANGED <<call, attempt, session, env, config, before, result>>

LastLook ==
    /\ pc = "clock"
    /\ IF late THEN Leave(Failed("device_timeout"))
       ELSE pc' = "send" /\ UNCHANGED <<conn, result>>
    /\ UNCHANGED <<call, attempt, dials, next, sent, env, config, before>>

\* The one send_config_set, whatever the flags are by now.
Apply ==
    /\ pc = "send"
    /\ sent' = TRUE
    /\ \E a \in Answer :
        /\ config' \in IF a = "ok" THEN {"new"} ELSE {config, "partly", "new"}
        /\ IF a = "raise" THEN Crash
           ELSE IF ~Clean(a) THEN Leave(Rejected)
           ELSE /\ result' = [result EXCEPT !.applied = TRUE]
                /\ pc' = IF call.verify > 0 THEN "post" ELSE "close"
                /\ UNCHANGED conn
    /\ UNCHANGED <<call, attempt, dials, next, env, before>>

\* The last disconnect: one that raises turns a success into a failure.
Close ==
    /\ pc = "close"
    /\ Leave(result)
    /\ UNCHANGED <<call, attempt, dials, next, sent, env, config, before>>

-----------------------------------------------------------------------------
(* run_status_commands, and validate_device_connection with its one prompt. *)

\* The finally clause disconnects, whatever happened.
StatusCommand ==
    /\ pc = "status"
    /\ \E a \in Answer :
        IF a = "ok" /\ next < call.commands
        THEN next' = next + 1 /\ UNCHANGED <<pc, conn, result>>
        ELSE /\ conn' = "released"
             /\ Return(IF a = "ok" THEN result
                       ELSE Failed(IF a = "error" THEN "command_error" ELSE "execution_error"))
             /\ UNCHANGED next
    /\ UNCHANGED <<call, attempt, dials, sent, env, config, before>>

\* A find_prompt that raises returns without disconnecting.
Prompt ==
    /\ pc = "validate"
    /\ \/ conn' = "released" /\ (Return(result) \/ Return(Failed("connection_error")))
       \/ Return(Failed("connection_timeout")) /\ UNCHANGED conn
    /\ UNCHANGED <<call, attempt, dials, next, sent, env, config, before>>

-----------------------------------------------------------------------------
\* _run_with_retry calls the worker again: a new session, the same device.
Again ==
    /\ pc = "returned" /\ call.kind = "apply"
    /\ result.status # "success" /\ attempt < Attempts /\ ~cancel
    /\ attempt' = attempt + 1
    /\ pc' = "start" /\ conn' = "none" /\ dials' = 0 /\ next' = 1
    /\ late' = FALSE /\ sent' = FALSE
    /\ before' = config
    /\ result' = Fresh
    /\ UNCHANGED <<call, cancel, config>>

\* Only execute_device_commands keeps a clock and, when given one, an event.
Deadline ==
    /\ call.kind = "apply" /\ pc # "returned" /\ ~late /\ late' = TRUE
    /\ UNCHANGED <<call, attempt, pc, session, cancel, config, before, result>>

SetCancel ==
    /\ call.cancellable /\ ~cancel /\ cancel' = TRUE
    /\ UNCHANGED <<call, attempt, pc, session, late, config, before, result>>

Work ==
    \/ NoProfile \/ Start
    \/ Connect \/ ConnectFails \/ Backoff \/ ConnectStopped
    \/ PreVerify \/ ApplyStopped \/ ApplyAllowed \/ LastLook \/ Apply \/ PostVerify \/ Close
    \/ StatusCommand \/ Prompt

Next == Work \/ Again \/ Deadline \/ SetCancel

Spec == Init /\ [][Next]_vars

\* A call to Netmiko returns or raises: each is given a timeout of its own.
FairSpec == Spec /\ WF_vars(Work)

-----------------------------------------------------------------------------
Stage == {"start", "connect", "backoff", "pre", "apply", "clock", "send", "post", "close",
          "status", "validate", "returned"}
ConfigSeen == Config \cup {"none"}
Result == [status : {"success", "failed", "cancelled"}, code : Code,
           pre : ConfigSeen, applied : BOOLEAN, post : ConfigSeen, diff : BOOLEAN]

(* Every variable stays in its domain; a call dials at most MaxRetries + 1 *)
(* times.                                                                  *)
TypeOK ==
    /\ call \in Calls /\ attempt \in 1 .. (Attempts + 1)
    /\ pc \in Stage /\ conn \in {"none", "open", "released"}
    /\ dials \in 0 .. MaxRetries /\ next \in Nat
    /\ late \in BOOLEAN /\ cancel \in BOOLEAN /\ sent \in BOOLEAN
    /\ config \in Config /\ before \in Config
    /\ result \in Result

(* No session is left open: whichever command, check or disconnect fails,   *)
(* execute_device_commands and run_status_commands return with the         *)
(* connection given back.  (validate_device_connection does not.)          *)
Released == pc = "returned" /\ call.kind # "validate" => conn # "open"

(* A success of execute_device_commands is a whole one: the configuration  *)
(* is on the device, its output was kept, and with verification commands   *)
(* the diff is that of the configuration before and after this call.       *)
SuccessMeansDone ==
    pc = "returned" /\ call.kind = "apply" /\ result.status = "success" =>
        /\ sent /\ result.applied /\ config = "new"
        /\ IF call.verify > 0
           THEN result.diff /\ result.pre = before /\ result.post = config
           ELSE ~result.diff

(* A change of the device never goes unreported: a result without the      *)
(* output of send_config_set, and without the codes of a session that broke *)
(* off, means that this call did not touch the configuration: the deadline  *)
(* and the cancel flag too are reported for what they interrupted, although *)
(* the configuration may be sent after them.                               *)
ChangeIsReported ==
    pc = "returned" /\ ~result.applied /\ result.code \notin SessionCode => ~sent /\ config = before

(* Every call comes back, the connection retries included.                 *)
CallReturns == pc = "connect" ~> pc = "returned"
=============================================================================
