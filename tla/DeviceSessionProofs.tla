------------------------- MODULE DeviceSessionProofs -------------------------
(***************************************************************************)
(* Theorems about DeviceSession for every call, any number of verification *)
(* commands and any number of attempts.                                    *)
(*                                                                         *)
(* The properties speak of returned calls only, so they are not inductive: *)
(* Progress says at each stage what the session has done so far, and       *)
(* Outcome says what that leaves in the result of a call that returned.    *)
(***************************************************************************)
EXTENDS DeviceSession, TLAPS

Early == {"start", "connect", "backoff"}
Inside == {"pre", "apply", "clock", "send", "post", "close"}

\* What has happened by the time the call is at a stage.
Progress ==
    /\ pc \in Inside => call.kind = "apply"
    /\ pc \in {"status", "validate"} => pc = call.kind
    /\ pc \in Early \cup {"pre", "apply", "clock", "send", "status", "validate"} => ~sent /\ ~result.applied
    /\ pc \in {"post", "close"} => sent /\ result.applied /\ config = "new"
    /\ pc # "returned" => result.status = "success" /\ result.code = "none"
    /\ pc \in Early \cup {"pre", "apply", "clock", "send", "post"} => ~result.diff
    /\ pc \in {"apply", "clock", "send", "post", "close"} /\ call.verify > 0 => result.pre = before
    /\ pc = "close" => (IF call.verify > 0 THEN result.diff /\ result.post = config ELSE ~result.diff)
    /\ pc = "post" => call.verify > 0
    /\ pc = "pre" => call.verify > 0
    /\ ~sent => config = before
    /\ pc \in Early => conn # "open"

\* What a call that returned leaves behind.
Outcome == Released /\ SuccessMeansDone /\ ChangeIsReported

SInv == TypeOK /\ Progress /\ Outcome

-----------------------------------------------------------------------------
(* A call has a kind, at least one command, and its limits are numbers.    *)
LEMMA CallFacts ==
    ASSUME TypeOK
    PROVE  /\ call.kind \in Kind /\ call.verify \in Nat
           /\ call.canary \in BOOLEAN /\ MaxRetries \in Nat
  BY CallsAssumption DEF TypeOK, CallType, MaxRetries

(* A call that has not begun has done nothing.                             *)
LEMMA FreshFacts ==
    /\ Fresh \in Result /\ Fresh.status = "success" /\ Fresh.code = "none"
    /\ ~Fresh.applied /\ ~Fresh.diff
  BY DEF Fresh, Result, ConfigSeen, Code

(* A failure changes the verdict of a result and nothing of its record.    *)
LEMMA FailedFacts ==
    ASSUME TypeOK, NEW c \in Code
    PROVE  /\ Failed(c) \in Result /\ Failed(c).status = "failed" /\ Failed(c).code = c
           /\ Failed(c).applied = result.applied
  BY DEF TypeOK, Failed, Result

(* So does a cancellation.                                                 *)
LEMMA CancelledFacts ==
    ASSUME TypeOK
    PROVE  /\ Cancelled \in Result /\ Cancelled.status = "cancelled" /\ Cancelled.code = "cancelled"
           /\ Cancelled.applied = result.applied
  BY DEF TypeOK, Cancelled, Result, Code

(* A rejected configuration has been applied as far as one can tell.       *)
LEMMA RejectedFacts ==
    ASSUME TypeOK
    PROVE  Rejected \in Result /\ Rejected.status = "failed" /\ Rejected.applied
  BY DEF TypeOK, Rejected, Failed, Result, Code, SessionCode

(* However a session is left, it is given back and the call returns, with  *)
(* the result meant for it or with that of a session that broke off.       *)
LEMMA LeaveFacts ==
    ASSUME NEW r, Leave(r)
    PROVE  /\ pc' = "returned" /\ conn' = "released"
           /\ result' = r \/ (\E c \in SessionCode : result' = Failed(c))
  BY DEF Leave, Crash, Return

(* The same for an exception.                                              *)
LEMMA CrashFacts ==
    ASSUME Crash
    PROVE  pc' = "returned" /\ conn' = "released" /\ \E c \in SessionCode : result' = Failed(c)
  BY DEF Crash, Return

-----------------------------------------------------------------------------
(* Initially no call has done anything.                                    *)
LEMMA SessionInit == Init => SInv
  <1> SUFFICES ASSUME Init PROVE SInv
    OBVIOUS
  <1>1. /\ call \in Calls /\ dials \in 0 .. MaxRetries /\ attempt \in 1 .. (Attempts + 1) /\ next \in Nat
    <2>1. MaxRetries \in Nat
      BY DEF MaxRetries
    <2> QED BY <2>1, AttemptsAssumption DEF Init
  <1>2. TypeOK
    BY <1>1, FreshFacts DEF Init, TypeOK, Config, Stage
  <1>3. Progress /\ Outcome
    BY FreshFacts DEF Init, Progress, Outcome, Released, SuccessMeansDone, ChangeIsReported, Early, Inside
  <1> QED BY <1>2, <1>3 DEF SInv

(* A step that keeps the call and returns with the session given back, and *)
(* with a result other than success that tells of what was sent, is sound. *)
LEMMA Returned ==
    ASSUME SInv, call' = call, attempt' = attempt, dials' = dials, next' = next,
           late' = late, cancel' = cancel, before' = before,
           pc' = "returned", conn' \in {"none", "released"}, sent' \in BOOLEAN, config' \in Config,
           result' \in Result, result'.status # "success",
           ~sent' => config' = before,
           result'.applied \/ result'.code \in SessionCode \/ ~sent'
    PROVE  SInv'
  <1>1. MaxRetries' = MaxRetries
    BY DEF MaxRetries
  <1>2. TypeOK'
    BY <1>1 DEF SInv, TypeOK, Stage
  <1>3. Progress'
    BY DEF SInv, Progress, Early, Inside
  <1>4. Outcome'
    BY DEF Outcome, Released, SuccessMeansDone, ChangeIsReported
  <1> QED BY <1>2, <1>3, <1>4 DEF SInv

(* Before the configuration is sent.                                       *)
LEMMA EarlyStep ==
    SInv /\ (NoProfile \/ Start \/ Connect \/ ConnectFails \/ Backoff \/ ConnectStopped) => SInv'
  <1> SUFFICES ASSUME SInv, NoProfile \/ Start \/ Connect \/ ConnectFails \/ Backoff \/ ConnectStopped
              PROVE SInv'
    OBVIOUS
  <1> DEFINE Silent == Code \ (SessionCode \cup {"none", "command_error"})
  <1>a. TypeOK /\ Progress /\ Outcome
    BY DEF SInv
  <1>b. /\ call' = call /\ attempt' = attempt /\ next' = next /\ sent' = sent
        /\ late' = late /\ cancel' = cancel /\ config' = config /\ before' = before
        /\ MaxRetries' = MaxRetries
    BY DEF NoProfile, Start, Connect, ConnectFails, Backoff, ConnectStopped, session, env, MaxRetries
  <1>c. pc \in Early /\ conn # "open" /\ ~sent /\ ~result.applied /\ config = before
    BY <1>a DEF NoProfile, Start, Connect, ConnectFails, Backoff, ConnectStopped, Early, Progress
  <1>1. ASSUME pc' = "returned", conn' = conn, dials' = dials,
               result' = Cancelled \/ \E c \in {"no_profile", "device_timeout", "connection_timeout",
                  "connection_error", "authentication_failed"} : result' = Failed(c)
        PROVE  SInv'
    <2>1. result' \in Result /\ result'.status # "success"
      BY <1>1, <1>a, FailedFacts, CancelledFacts DEF Code
    <2>2. conn' \in {"none", "released"} /\ sent' \in BOOLEAN /\ config' \in Config
      BY <1>1, <1>a, <1>b, <1>c DEF TypeOK
    <2> QED BY <1>1, <1>b, <1>c, <2>1, <2>2, Returned
  <1>2. ASSUME pc' \in Early, conn' = conn, dials' \in 0 .. MaxRetries, result' = result
        PROVE  SInv'
    <2>1. TypeOK'
      BY <1>2, <1>a, <1>b DEF TypeOK, Early, Stage
    <2>2. Progress'
      BY <1>2, <1>a, <1>b, <1>c DEF Progress, Early, Inside
    <2>3. Outcome'
      BY <1>2 DEF Outcome, Released, SuccessMeansDone, ChangeIsReported, Early
    <2> QED BY <2>1, <2>2, <2>3 DEF SInv
  <1>3. CASE NoProfile
    BY <1>3, <1>1 DEF NoProfile, session, Return
  <1>4. CASE Start
    <2>1. conn' = conn /\ dials' = dials /\ dials' \in 0 .. MaxRetries
      BY <1>4, <1>a DEF Start, session, TypeOK
    <2> QED BY <1>4, <2>1, <1>1, <1>2 DEF Start, Return, Early
  <1>5. CASE Connect
    <2>1. /\ conn' = "open" /\ dials' = dials /\ result' = result
          /\ pc' = FirstStage
      BY <1>5 DEF Connect
    <2>2. call.kind \in Kind /\ call.verify \in Nat
      BY <1>a, CallFacts
    <2>3. \/ pc' \in {"status", "validate"} /\ pc' = call.kind
          \/ pc' = "pre" /\ call.kind = "apply" /\ call.verify > 0
          \/ pc' = "apply" /\ call.kind = "apply" /\ ~(call.verify > 0)
      BY <2>1, <2>2 DEF FirstStage, Kind
    <2>4. TypeOK'
      BY <2>1, <2>3, <1>a, <1>b DEF TypeOK, Stage
    <2>5. result.status = "success" /\ result.code = "none" /\ ~result.diff
      BY <1>a, <1>c DEF Progress, Early
    <2>6. Progress'
      BY <2>1, <2>3, <2>5, <1>b, <1>c DEF Progress, Early, Inside
    <2>7. Outcome'
      BY <2>3 DEF Outcome, Released, SuccessMeansDone, ChangeIsReported
    <2> QED BY <2>4, <2>6, <2>7 DEF SInv
  <1>6. CASE ConnectFails
    <2>1. PICK c \in {"connection_timeout", "connection_error", "authentication_failed"} :
             IF call.kind = "apply" /\ c # "authentication_failed" /\ MayRetry
             THEN dials' = NextDial /\ pc' = "backoff" /\ UNCHANGED result
             ELSE Return(Failed(c)) /\ UNCHANGED dials
      BY <1>6 DEF ConnectFails
    <2>2. conn' = conn
      BY <1>6 DEF ConnectFails
    <2>3. CASE call.kind = "apply" /\ c # "authentication_failed" /\ MayRetry
      <3>1. dials' \in 0 .. MaxRetries
        BY <2>1, <2>3, <1>a, CallFacts DEF TypeOK, MayRetry, NextDial
      <3> QED BY <3>1, <2>1, <2>2, <2>3, <1>2 DEF Early
    <2>4. CASE ~(call.kind = "apply" /\ c # "authentication_failed" /\ MayRetry)
      BY <2>1, <2>2, <2>4, <1>1 DEF Return
    <2> QED BY <2>3, <2>4
  <1>7. CASE Backoff
    BY <1>7, <1>2, <1>a DEF Backoff, session, TypeOK, Early
  <1>8. CASE ConnectStopped
    BY <1>8, <1>1 DEF ConnectStopped, session, Return
  <1> QED BY <1>3, <1>4, <1>5, <1>6, <1>7, <1>8

(* A session that is left without having kept more than it had.            *)
LEMMA LeftFacts ==
    ASSUME TypeOK,
           Crash \/ Stopped \/ Leave(Failed("command_error")) \/ Leave(Failed("device_timeout"))
    PROVE  /\ pc' = "returned" /\ conn' = "released"
           /\ result' \in Result /\ result'.status # "success"
           /\ result'.applied = result.applied
  <1>1. SessionCode \subseteq Code /\ "device_timeout" \in Code /\ "command_error" \in Code
    BY DEF Code, SessionCode
  <1>2. CASE Crash
    BY <1>1, <1>2, CrashFacts, FailedFacts
  <1>3. CASE Stopped
    <2>1. Leave(Cancelled) \/ Leave(Failed("device_timeout"))
      BY <1>3 DEF Stopped
    <2> QED BY <2>1, <1>1, LeaveFacts, FailedFacts, CancelledFacts
  <1>4. CASE Leave(Failed("command_error"))
    BY <1>4, <1>1, LeaveFacts, FailedFacts
  <1>5. CASE Leave(Failed("device_timeout"))
    BY <1>5, <1>1, LeaveFacts, FailedFacts
  <1> QED BY <1>2, <1>3, <1>4, <1>5

(* One verification command, before or after the configuration is sent.    *)
LEMMA VerifyFacts ==
    ASSUME NEW s, NEW r, Verify(s, r)
    PROVE  /\ UNCHANGED <<call, attempt, dials, sent, late, cancel, config, before>>
           /\ \/ (Crash \/ Stopped \/ Leave(Failed("command_error"))) /\ next' = next
              \/ next < call.verify /\ next' = next + 1 /\ UNCHANGED <<pc, conn, result>>
              \/ next' = 1 /\ pc' = s /\ result' = r /\ UNCHANGED conn
  BY DEF Verify, env

(* Verification before.                                                    *)
LEMMA PreVerifyStep == SInv /\ PreVerify => SInv'
  <1> SUFFICES ASSUME SInv, PreVerify PROVE SInv'
    OBVIOUS
  <1> DEFINE r == [result EXCEPT !.pre = config]
  <1>a. TypeOK /\ Progress /\ Outcome
    BY DEF SInv
  <1>b. pc = "pre" /\ Verify("apply", r)
    BY DEF PreVerify
  <1>c. /\ call.kind = "apply" /\ call.verify > 0 /\ ~sent /\ ~result.applied /\ config = before
        /\ result.status = "success" /\ result.code = "none" /\ ~result.diff
    BY <1>a, <1>b DEF Progress, Inside
  <1>d. r \in Result /\ r.status = "success" /\ r.code = "none" /\ ~r.applied /\ ~r.diff /\ r.pre = config
    BY <1>a, <1>c DEF TypeOK, Result, ConfigSeen
  <1>e. UNCHANGED <<call, attempt, dials, sent, late, cancel, config, before>> /\ MaxRetries' = MaxRetries
    BY <1>b, VerifyFacts DEF MaxRetries
  <1> HIDE DEF r
  <1>1. CASE (Crash \/ Stopped \/ Leave(Failed("command_error"))) /\ next' = next
    <2>1. sent' \in BOOLEAN /\ config' \in Config
      BY <1>a, <1>e DEF TypeOK
    <2> QED BY <1>1, <1>a, <1>c, <1>e, <2>1, LeftFacts, Returned
  <1>2. CASE next' = next + 1 /\ UNCHANGED <<pc, conn, result>>
    <2>1. TypeOK'
      BY <1>2, <1>a, <1>e DEF TypeOK
    <2>2. Progress' /\ Outcome'
      BY <1>2, <1>a, <1>b, <1>e DEF Progress, Outcome, Early, Inside, Released, SuccessMeansDone, ChangeIsReported
    <2> QED BY <2>1, <2>2 DEF SInv
  <1>3. CASE next' = 1 /\ pc' = "apply" /\ result' = r /\ UNCHANGED conn
    <2>1. TypeOK'
      BY <1>3, <1>a, <1>d, <1>e DEF TypeOK, Stage
    <2>2. Progress' /\ Outcome'
      BY <1>3, <1>c, <1>d, <1>e DEF Progress, Outcome, Early, Inside, Released, SuccessMeansDone, ChangeIsReported
    <2> QED BY <2>1, <2>2 DEF SInv
  <1> QED BY <1>b, <1>1, <1>2, <1>3, VerifyFacts

(* Verification after, and the diff.                                       *)
LEMMA PostVerifyStep == SInv /\ PostVerify => SInv'
  <1> SUFFICES ASSUME SInv, PostVerify PROVE SInv'
    OBVIOUS
  <1> DEFINE r == [result EXCEPT !.post = config, !.diff = TRUE]
  <1>a. TypeOK /\ Progress /\ Outcome
    BY DEF SInv
  <1>b. pc = "post" /\ Verify("close", r)
    BY DEF PostVerify
  <1>c. /\ call.kind = "apply" /\ call.verify > 0 /\ sent /\ result.applied /\ config = "new"
        /\ result.status = "success" /\ result.code = "none" /\ result.pre = before
    BY <1>a, <1>b DEF Progress, Inside
  <1>d. /\ r \in Result /\ r.status = "success" /\ r.code = "none" /\ r.applied /\ r.diff
        /\ r.pre = before /\ r.post = config
    BY <1>a, <1>c DEF TypeOK, Result, ConfigSeen
  <1>e. UNCHANGED <<call, attempt, dials, sent, late, cancel, config, before>> /\ MaxRetries' = MaxRetries
    BY <1>b, VerifyFacts DEF MaxRetries
  <1> HIDE DEF r
  <1>1. CASE (Crash \/ Stopped \/ Leave(Failed("command_error"))) /\ next' = next
    <2>1. sent' \in BOOLEAN /\ config' \in Config
      BY <1>a, <1>e DEF TypeOK
    <2> QED BY <1>1, <1>a, <1>c, <1>e, <2>1, LeftFacts, Returned
  <1>2. CASE next' = next + 1 /\ UNCHANGED <<pc, conn, result>>
    <2>1. TypeOK'
      BY <1>2, <1>a, <1>e DEF TypeOK
    <2>2. Progress' /\ Outcome'
      BY <1>2, <1>a, <1>b, <1>e DEF Progress, Outcome, Early, Inside, Released, SuccessMeansDone, ChangeIsReported
    <2> QED BY <2>1, <2>2 DEF SInv
  <1>3. CASE next' = 1 /\ pc' = "close" /\ result' = r /\ UNCHANGED conn
    <2>1. TypeOK'
      BY <1>3, <1>a, <1>d, <1>e DEF TypeOK, Stage
    <2>2. Progress' /\ Outcome'
      BY <1>3, <1>c, <1>d, <1>e DEF Progress, Outcome, Early, Inside, Released, SuccessMeansDone, ChangeIsReported
    <2> QED BY <2>1, <2>2 DEF SInv
  <1> QED BY <1>b, <1>1, <1>2, <1>3, VerifyFacts

(* Sending the configuration, or finding that it is too late to.           *)
LEMMA ApplyStep == SInv /\ (ApplyStopped \/ ApplyAllowed \/ LastLook \/ Apply) => SInv'
  <1> SUFFICES ASSUME SInv, ApplyStopped \/ ApplyAllowed \/ LastLook \/ Apply PROVE SInv'
    OBVIOUS
  <1> DEFINE r == [result EXCEPT !.applied = TRUE]
  <1>a. TypeOK /\ Progress /\ Outcome
    BY DEF SInv
  <1>b. /\ pc \in {"apply", "clock", "send"}
        /\ UNCHANGED <<call, attempt, dials, next, late, cancel, before>> /\ MaxRetries' = MaxRetries
    BY DEF ApplyStopped, ApplyAllowed, LastLook, Apply, session, env, MaxRetries
  <1>c. /\ call.kind = "apply" /\ call.verify \in Nat /\ ~sent /\ ~result.applied /\ config = before
        /\ result.status = "success" /\ result.code = "none" /\ ~result.diff
        /\ call.verify > 0 => result.pre = before
    BY <1>a, <1>b, CallFacts DEF Progress, Inside
  <1>d. /\ r \in Result /\ r.status = "success" /\ r.code = "none" /\ r.applied /\ ~r.diff
        /\ r.pre = result.pre
    BY <1>a, <1>c DEF TypeOK, Result
  <1> HIDE DEF r
  <1>1. ASSUME Stopped \/ Leave(Failed("device_timeout")), sent' = sent, config' = config
        PROVE  SInv'
    <2>1. sent' \in BOOLEAN /\ config' \in Config
      BY <1>1, <1>a DEF TypeOK
    <2> QED BY <1>1, <2>1, <1>a, <1>b, <1>c, LeftFacts, Returned
  <1>3. ASSUME pc' \in {"clock", "send"}, UNCHANGED <<conn, sent, config, result>>
        PROVE  SInv'
    <2>1. TypeOK'
      BY <1>3, <1>a, <1>b DEF TypeOK, Stage
    <2>2. Progress'
      BY <1>3, <1>b, <1>c DEF Progress, Early, Inside
    <2>3. Outcome'
      BY <1>3 DEF Outcome, Released, SuccessMeansDone, ChangeIsReported
    <2> QED BY <2>1, <2>2, <2>3 DEF SInv
  <1>2. CASE Apply
    <2>1. PICK a \in Answer :
            /\ config' \in IF a = "ok" THEN {"new"} ELSE {config, "partly", "new"}
            /\ IF a = "raise" THEN Crash
               ELSE IF ~Clean(a) THEN Leave(Rejected)
               ELSE /\ result' = r
                    /\ pc' = IF call.verify > 0 THEN "post" ELSE "close"
                    /\ UNCHANGED conn
      BY <1>2 DEF Apply, r
    <2>2. sent' = TRUE /\ config' \in Config
      BY <1>2, <2>1, <1>a DEF Apply, Config, TypeOK
    <2>3. CASE a = "raise"
      <3>1. \E c \in SessionCode : result' = Failed(c)
        BY <2>1, <2>3, CrashFacts
      <3>2. result'.code \in SessionCode /\ result' \in Result /\ result'.status = "failed"
        BY <3>1, <1>a, FailedFacts DEF Code
      <3> QED BY <2>1, <2>2, <2>3, <3>2, <1>b, CrashFacts, Returned
    <2>4. CASE a # "raise" /\ ~Clean(a)
      <3>1. /\ pc' = "returned" /\ conn' = "released"
            /\ result' = Rejected \/ \E c \in SessionCode : result' = Failed(c)
        BY <2>1, <2>4, LeaveFacts
      <3>2. /\ result'.applied \/ result'.code \in SessionCode
            /\ result' \in Result /\ result'.status = "failed"
        BY <3>1, <1>a, FailedFacts, RejectedFacts DEF Code
      <3> QED BY <2>2, <3>1, <3>2, <1>b, Returned
    <2>5. CASE a # "raise" /\ Clean(a)
      <3>1. /\ config' = "new" /\ result' = r /\ UNCHANGED conn
            /\ \/ call.verify > 0 /\ pc' = "post"
               \/ ~(call.verify > 0) /\ pc' = "close"
        BY <2>1, <2>5 DEF Clean
      <3>2. TypeOK'
        BY <3>1, <2>2, <1>a, <1>b, <1>d DEF TypeOK, Stage
      <3>3. Progress'
        BY <3>1, <2>2, <1>b, <1>c, <1>d DEF Progress, Early, Inside
      <3>4. Outcome'
        BY <3>1 DEF Outcome, Released, SuccessMeansDone, ChangeIsReported
      <3> QED BY <3>2, <3>3, <3>4 DEF SInv
    <2> QED BY <2>3, <2>4, <2>5
  <1>4. CASE ApplyStopped
    BY <1>4, <1>1 DEF ApplyStopped
  <1>5. CASE ApplyAllowed
    BY <1>5, <1>3 DEF ApplyAllowed, session
  <1>6. CASE LastLook
    BY <1>6, <1>1, <1>3 DEF LastLook
  <1> QED BY <1>2, <1>4, <1>5, <1>6

(* The last disconnect, by which alone a call becomes a success.           *)
LEMMA CloseStep == SInv /\ Close => SInv'
  <1> SUFFICES ASSUME SInv, Close PROVE SInv'
    OBVIOUS
  <1>a. TypeOK /\ Progress /\ Outcome
    BY DEF SInv
  <1>b. /\ pc = "close" /\ UNCHANGED <<call, attempt, dials, next, sent, late, cancel, config, before>>
        /\ MaxRetries' = MaxRetries
    BY DEF Close, env, MaxRetries
  <1>c. /\ pc' = "returned" /\ conn' = "released"
        /\ result' = result \/ \E c \in SessionCode : result' = Failed(c)
    BY LeaveFacts DEF Close
  <1>d. sent /\ result.applied /\ config = "new"
    BY <1>a, <1>b DEF Progress
  <1>1. CASE result' = result
    <2>1. TypeOK'
      BY <1>1, <1>a, <1>b, <1>c DEF TypeOK, Stage
    <2>2. Progress'
      BY <1>b, <1>c, <1>d DEF Progress, Early, Inside
    <2>3. Outcome'
      BY <1>1, <1>a, <1>b, <1>c DEF Progress, Outcome, Inside, Released, SuccessMeansDone, ChangeIsReported
    <2> QED BY <2>1, <2>2, <2>3 DEF SInv
  <1>2. CASE \E c \in SessionCode : result' = Failed(c)
    <2>1. result' \in Result /\ result'.status = "failed" /\ result'.applied
      BY <1>2, <1>a, <1>d, FailedFacts DEF Code
    <2>2. sent' \in BOOLEAN /\ config' \in Config
      BY <1>a, <1>b DEF TypeOK
    <2> QED BY <2>1, <2>2, <1>b, <1>c, <1>d, Returned
  <1> QED BY <1>c, <1>1, <1>2

(* Status commands and the prompt touch no configuration.                  *)
LEMMA ReadStep == SInv /\ (StatusCommand \/ Prompt) => SInv'
  <1> SUFFICES ASSUME SInv, StatusCommand \/ Prompt PROVE SInv'
    OBVIOUS
  <1>a. TypeOK /\ Progress /\ Outcome
    BY DEF SInv
  <1>b. /\ UNCHANGED <<call, attempt, dials, sent, late, cancel, config, before>>
        /\ MaxRetries' = MaxRetries
    BY DEF StatusCommand, Prompt, env, MaxRetries
  <1>c. /\ pc \in {"status", "validate"} /\ pc = call.kind /\ ~sent /\ config = before
        /\ next' \in Nat
    BY <1>a DEF StatusCommand, Prompt, Progress, TypeOK
  <1>1. CASE UNCHANGED <<pc, conn, result>>
    <2>1. TypeOK'
      BY <1>1, <1>a, <1>b, <1>c DEF TypeOK
    <2>2. Progress' /\ Outcome'
      BY <1>1, <1>a, <1>b, <1>c DEF Progress, Outcome, Early, Inside, Released, SuccessMeansDone, ChangeIsReported
    <2> QED BY <2>1, <2>2 DEF SInv
  <1>2. CASE /\ pc' = "returned"
             /\ conn' = "released" \/ (pc = "validate" /\ conn' = conn)
             /\ result' = result \/ \E c \in Code : result' = Failed(c)
    <2>1. result' \in Result
      BY <1>2, <1>a, FailedFacts DEF TypeOK
    <2>2. TypeOK'
      BY <1>2, <2>1, <1>a, <1>b, <1>c DEF TypeOK, Stage
    <2>3. Progress' /\ Outcome'
      BY <1>2, <1>b, <1>c DEF Progress, Outcome, Early, Inside, Released, SuccessMeansDone, ChangeIsReported
    <2> QED BY <2>2, <2>3 DEF SInv
  <1>3. CASE StatusCommand
    <2>1. "command_error" \in Code /\ "execution_error" \in Code
      BY DEF Code, SessionCode
    <2> QED BY <1>3, <2>1, <1>1, <1>2 DEF StatusCommand, Return
  <1>4. CASE Prompt
    <2>1. "connection_error" \in Code /\ "connection_timeout" \in Code
      BY DEF Code
    <2> QED BY <1>4, <2>1, <1>2 DEF Prompt, Return
  <1> QED BY <1>3, <1>4

(* Neither the next attempt nor the environment disturbs it.               *)
LEMMA SessionStep == SInv /\ [Next]_vars => SInv'
  <1> SUFFICES ASSUME SInv, [Next]_vars PROVE SInv'
    OBVIOUS
  <1>1. CASE Work
    BY <1>1, EarlyStep, PreVerifyStep, ApplyStep, PostVerifyStep, CloseStep, ReadStep DEF Work
  <1>2. CASE Again
    <2>0. /\ dials' \in 0 .. MaxRetries' /\ attempt' \in 1 .. (Attempts + 1) /\ next' \in Nat
      <3>1. MaxRetries' \in Nat
        BY DEF MaxRetries
      <3>2. attempt \in 1 .. (Attempts + 1)
        BY DEF SInv, TypeOK
      <3> QED BY <1>2, <3>1, <3>2, AttemptsAssumption DEF Again
    <2>1. TypeOK'
      BY <1>2, <2>0, FreshFacts DEF SInv, TypeOK, Again, Stage
    <2>2. Progress' /\ Outcome'
      BY <1>2, FreshFacts DEF Again, Progress, Outcome, Released, SuccessMeansDone, ChangeIsReported,
         Early, Inside
    <2> QED BY <2>1, <2>2 DEF SInv
  <1>3. CASE UNCHANGED <<call, attempt, pc, conn, dials, next, sent, config, before, result>>
             /\ late' \in BOOLEAN /\ cancel' \in BOOLEAN
    <2>1. TypeOK'
      BY <1>3 DEF SInv, TypeOK, MaxRetries
    <2>2. Progress' /\ Outcome'
      BY <1>3 DEF SInv, Progress, Outcome, Early, Inside, Released, SuccessMeansDone, ChangeIsReported
    <2> QED BY <2>1, <2>2 DEF SInv
  <1>4. CASE Deadline \/ SetCancel \/ UNCHANGED vars
    BY <1>3, <1>4 DEF SInv, TypeOK, Deadline, SetCancel, session, env, vars
  <1> QED BY <1>1, <1>2, <1>3, <1>4 DEF Next

(* The invariant holds in every session.                                   *)
LEMMA SessionInv == Spec => []SInv
  BY SessionInit, SessionStep, PTL DEF Spec

(* Types, and the number of connections a call may try.                    *)
THEOREM SessionTypes == Spec => []TypeOK
  <1>1. SInv => TypeOK
    BY DEF SInv
  <1> QED BY <1>1, SessionInv, PTL

(* No way out of execute_device_commands or run_status_commands leaves the *)
(* connection open.                                                        *)
THEOREM SessionReleased == Spec => []Released
  <1>1. SInv => Released
    BY DEF SInv, Outcome
  <1> QED BY <1>1, SessionInv, PTL

(* A success has applied and verified everything in this very call.        *)
THEOREM SuccessIsWhole == Spec => []SuccessMeansDone
  <1>1. SInv => SuccessMeansDone
    BY DEF SInv, Outcome
  <1> QED BY <1>1, SessionInv, PTL

(* A device whose configuration may have been touched by a call is one     *)
(* whose result says so.                                                   *)
THEOREM NoSilentChange == Spec => []ChangeIsReported
  <1>1. SInv => ChangeIsReported
    BY DEF SInv, Outcome
  <1> QED BY <1>1, SessionInv, PTL
=============================================================================
