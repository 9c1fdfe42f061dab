--------------------------- MODULE ExecutionEngine ---------------------------
(***************************************************************************)
(* ExecutionEngine.run_job: canary first, then a thread pool over the      *)
(* remaining devices, steered by the pause and cancel flags that the API   *)
(* handlers set from other threads.                                        *)
(*                                                                         *)
(* The orchestrator (the thread inside run_job) advances pc.  Every call   *)
(* of _run_with_retry is a slot: slot 0 is the canary, executed on the     *)
(* orchestrator's own thread, and slot i > 0 is the device at position i   *)
(* of the target list, executed by a pool thread.  A target list may name  *)
(* one key twice, which is why slots and keys are different things.        *)
(*                                                                         *)
(* A step ends where another thread can make a difference: at each read of *)
(* a control flag, at each call and return of the device worker, and where *)
(* the orchestrator looks at its futures.  Between the look at the cancel  *)
(* flag and the call it clears, an attempt emits its log events; a cancel  *)
(* that comes then is too late for it.                                     *)
(***************************************************************************)
EXTENDS Integers, Sequences, FiniteSets

CONSTANTS
    Device,           \* device keys (host:port)
    RunArgs,          \* the calls of run_job considered
    WorkerOutcomes    \* how DeviceWorker.run may end

Outcome == {"success", "failed", "cancelled", "raised"}
DeviceStatus == {"none", "queued", "running", "success", "failed", "cancelled"}
Verdict == {"completed", "failed", "cancelled"}

Calls == [devices : Seq(Device), canary : Device, concurrency : Int,
          retry : Nat, stopOnError : BOOLEAN]

ASSUME RunArgsAssumption == RunArgs \subseteq Calls
ASSUME OutcomesAssumption == WorkerOutcomes \subseteq {"success", "failed", "raised"}

VARIABLES
    args,        \* arguments of this call, constant during the run
    pc,          \* where the orchestrator is
    pending,     \* pending_devices, as the positions still to submit
    inFlight,    \* in_flight, the slots whose future is not collected yet
    batch,       \* done futures of the last wait() not yet looked at
    stage,       \* slot -> "idle" | "ready" | "cleared" | "running" | "done"
    attempts,    \* slot -> number of the attempt reached
    outcome,     \* slot -> what _run_with_retry returned
    late,        \* history: slot -> worker calls begun with cancel requested
    results,     \* summary.device_results: key -> status
    verdict,     \* summary.status, "running" until run_job sets it
    shown,       \* key -> status of its last device_status event
    announced,   \* status carried by the job_complete event, if emitted
    pause,       \* control.pause_event
    cancel       \* control.cancel_event

control == <<pause, cancel>>
pool == <<stage, attempts, outcome, late>>
book == <<results, verdict, shown, announced>>
queue == <<pending, inFlight, batch>>
vars == <<args, pc, queue, pool, book, control>>

Targets == args.devices
Slots == 0 .. Len(Targets)
KeyOf(i) == IF i = 0 THEN args.canary ELSE Targets[i]
TargetKeys == {Targets[i] : i \in 1 .. Len(Targets)}
Concurrency == IF args.concurrency < 1 THEN 1 ELSE args.concurrency

\* Mutant: the canary is retried like any other device.
AttemptLimitCanaryRetried(i) == args.retry + 1

\* The canary gets no retry, any other device non_canary_retry_limit of them.
AttemptLimit(i) == IF i = 0 THEN 1 ELSE args.retry + 1

\* Mutant: the last device of the list is forgotten.
RemainingButLast == {i \in 1 .. (Len(Targets) - 1) : Targets[i] # args.canary}

\* Positions of the devices that are not the canary, in list order.
Remaining == {i \in 1 .. Len(Targets) : Targets[i] # args.canary}

\* Mutant: a failure is not taken for one.
SomeResultCancelled == \E d \in Device : results[d] = "cancelled"

SomeResultNotSuccess == \E d \in Device : results[d] \notin {"none", "success"}

\* Mutant: only a failed canary stops the others.
ErrorStopsCanaryOnly == args.stopOnError /\ results[args.canary] # "success"

\* stop_on_error drops what is pending once any recorded result is no success.
ErrorStops == args.stopOnError /\ SomeResultNotSuccess

\* Mutant: off by one.
PoolHasRoomOneMore == Cardinality(inFlight) <= Concurrency

PoolHasRoom == Cardinality(inFlight) < Concurrency

\* Mutant: the pause spin does not look at the cancel flag.
HeldByPauseOnly == pause

\* The pause spin goes on while paused and not cancelled.
HeldByPause == pause /\ ~cancel

\* Mutant: executor.shutdown(wait=False).
PoolDrainedNoWait == TRUE

\* executor.shutdown(wait=True), on leaving the with block.
PoolDrained == \A i \in inFlight : stage[i] = "done"

\* Mutant: every result but "cancelled" lets the others go ahead.
CanaryPassedUnlessCancelled == outcome[0] # "cancelled"

CanaryPassed == outcome[0] = "success"

\* Mutant: the flag is looked at before the first attempt only.
CancelSeenFirst(i) == cancel /\ attempts[i] = 0

\* Mutant: a pause stops attempts as a cancel does.
CancelSeenOrPause(i) == pause \/ cancel

\* Every attempt looks at the cancel flag before it calls the worker.
CancelSeen(i) == cancel

\* Mutant: no break out of the scheduling loop when nothing is in flight.
AfterSubmitAwait == "await"

AfterSubmit == IF inFlight = {} THEN "finish" ELSE "await"

\* Mutant: a success is recorded without a device_status event.
RecordSilently(k, s) ==
    /\ results' = [results EXCEPT ![k] = s]
    /\ shown' = IF s = "success" THEN shown ELSE [shown EXCEPT ![k] = s]

\* A device's result enters the summary and is shown by a device_status event.
Record(k, s) ==
    /\ results' = [results EXCEPT ![k] = s]
    /\ shown' = [shown EXCEPT ![k] = s]

Init ==
    /\ args \in RunArgs
    /\ pc = "begin"
    /\ pending = {} /\ inFlight = {} /\ batch = {}
    /\ stage = [i \in Slots |-> "idle"]
    /\ attempts = [i \in Slots |-> 0]
    /\ outcome = [i \in Slots |-> "none"]
    /\ late = [i \in Slots |-> 0]
    /\ results = [d \in Device |-> "none"]
    /\ verdict = "running"
    /\ shown = [d \in Device |-> "none"]
    /\ announced = "none"
    /\ pause = FALSE /\ cancel = FALSE

-----------------------------------------------------------------------------
(* The orchestrator: the thread that executes run_job.                     *)

\* summary.status is set and the job_complete event carrying it is emitted.
Conclude(v) == verdict' = v /\ announced' = v

\* Entered with the cancel flag already set.
BeginCancelled ==
    /\ pc = "begin" /\ cancel
    /\ Conclude("cancelled")
    /\ pc' = "returned"
    /\ UNCHANGED <<args, queue, pool, results, shown, control>>

\* No target at all, or a canary that is not one of them.
BeginRejected ==
    /\ pc = "begin" /\ ~cancel
    /\ args.canary \notin TargetKeys
    /\ Conclude("failed")
    /\ IF Targets = << >>
       THEN UNCHANGED <<results, shown>>
       ELSE Record(args.canary, "failed")
    /\ pc' = "returned"
    /\ UNCHANGED <<args, queue, pool, control>>

\* Every target is shown as queued, then the canary as running.
BeginCanary ==
    /\ pc = "begin" /\ ~cancel
    /\ args.canary \in TargetKeys
    /\ shown' = [d \in Device |->
                    IF d = args.canary THEN "running"
                    ELSE IF d \in TargetKeys THEN "queued" ELSE shown[d]]
    /\ stage' = [stage EXCEPT ![0] = "ready"]
    /\ pc' = "canary"
    /\ UNCHANGED <<args, queue, attempts, outcome, late, results, verdict, announced, control>>

\* The canary's result decides: stop here, or fan out over the rest.
CanaryResult ==
    /\ pc = "canary" /\ stage[0] = "done" /\ outcome[0] # "raised"
    /\ Record(args.canary, outcome[0])
    /\ \/ /\ ~CanaryPassed
          /\ Conclude(IF outcome[0] = "cancelled" THEN "cancelled" ELSE "failed")
          /\ pc' = "returned"
          /\ UNCHANGED pending
       \/ /\ CanaryPassed /\ Remaining = {}
          /\ Conclude("completed")
          /\ pc' = "returned"
          /\ UNCHANGED pending
       \/ /\ CanaryPassed /\ Remaining # {}
          /\ pending' = Remaining
          /\ pc' = "gate"
          /\ UNCHANGED <<verdict, announced>>
    /\ UNCHANGED <<args, inFlight, batch, pool, control>>

\* An exception of the canary's worker call leaves run_job.
CanaryRaises ==
    /\ pc = "canary" /\ stage[0] = "done" /\ outcome[0] = "raised"
    /\ pc' = "raised"
    /\ UNCHANGED <<args, queue, pool, book, control>>

\* Head of the scheduling loop.  It spins while paused and not cancelled; a
\* cancelled run is concluded at once, before the pool is shut down.
Gate ==
    /\ pc = "gate"
    /\ ~HeldByPause
    /\ \/ /\ cancel
          /\ Conclude("cancelled")
          /\ pc' = "shutdown"
       \/ /\ ~cancel
          /\ pc' = "submit"
          /\ UNCHANGED <<verdict, announced>>
    /\ UNCHANGED <<args, queue, pool, results, shown, control>>

\* One iteration of the inner loop: the first pending device goes to the pool.
\* The pause flag is not looked at here.
Submit(i) ==
    /\ pc = "submit"
    /\ i \in pending /\ \A j \in pending : i <= j
    /\ PoolHasRoom
    /\ ~ErrorStops /\ ~cancel
    /\ pending' = pending \ {i}
    /\ inFlight' = inFlight \cup {i}
    /\ stage' = [stage EXCEPT ![i] = "ready"]
    /\ shown' = [shown EXCEPT ![KeyOf(i)] = "running"]
    /\ UNCHANGED <<args, pc, batch, attempts, outcome, late, results, verdict, announced, control>>

\* The inner loop is left because the pool is full or nothing is pending, or
\* because an error or a cancel request drops what is pending.
SubmitEnds ==
    /\ pc = "submit"
    /\ \/ /\ pending = {} \/ ~PoolHasRoom
          /\ UNCHANGED pending
       \/ /\ pending # {} /\ PoolHasRoom
          /\ ErrorStops \/ cancel
          /\ pending' = {}
    /\ pc' = AfterSubmit
    /\ UNCHANGED <<args, inFlight, batch, pool, book, control>>

\* wait(FIRST_COMPLETED) returns every future that is done by then.
Await ==
    /\ pc = "await"
    /\ batch' = {i \in inFlight : stage[i] = "done"}
    /\ batch' # {}
    /\ pc' = "collect"
    /\ UNCHANGED <<args, pending, inFlight, pool, book, control>>

\* One future of the batch, in the arbitrary order of a set.  A cancelled
\* result ends the run and abandons the futures not collected yet; an
\* exception leaves run_job through the pool's shutdown.
Collect(i) ==
    /\ pc = "collect" /\ i \in batch
    /\ inFlight' = inFlight \ {i}
    /\ IF outcome[i] = "raised"
       THEN /\ batch' = {} /\ pc' = "shutdown"
            /\ UNCHANGED book
       ELSE /\ Record(KeyOf(i), outcome[i])
            /\ IF outcome[i] = "cancelled"
               THEN /\ batch' = {} /\ pc' = "shutdown"
                    /\ Conclude("cancelled")
               ELSE /\ batch' = batch \ {i}
                    /\ pc' = IF batch' # {} THEN "collect"
                             ELSE IF pending = {} /\ inFlight' = {} THEN "finish"
                             ELSE "gate"
                    /\ UNCHANGED <<verdict, announced>>
    /\ UNCHANGED <<args, pending, pool, control>>

\* Leaving the with block by return or by exception waits for every pool
\* thread; what their futures hold is never read.
Shutdown ==
    /\ pc = "shutdown"
    /\ PoolDrained
    /\ pc' = IF verdict = "running" THEN "raised" ELSE "returned"
    /\ UNCHANGED <<args, queue, pool, book, control>>

\* The aggregated status once nothing is pending and nothing is in flight.
Finish ==
    /\ pc = "finish"
    /\ Conclude(IF cancel THEN "cancelled"
                ELSE IF SomeResultNotSuccess THEN "failed" ELSE "completed")
    /\ pc' = "returned"
    /\ UNCHANGED <<args, queue, pool, results, shown, control>>

-----------------------------------------------------------------------------
(* A slot: _run_with_retry on one device.                                  *)

\* Top of an attempt: the cancel flag is read; the attempt is given up or
\* cleared to call the worker.
StartAttempt(i) ==
    /\ stage[i] = "ready"
    /\ attempts' = [attempts EXCEPT ![i] = @ + 1]
    /\ IF CancelSeen(i)
       THEN /\ stage' = [stage EXCEPT ![i] = "done"]
            /\ outcome' = [outcome EXCEPT ![i] = "cancelled"]
       ELSE /\ stage' = [stage EXCEPT ![i] = "cleared"]
            /\ UNCHANGED outcome
    /\ UNCHANGED <<args, pc, queue, late, book, control>>

\* worker.run is called, whatever has become of the flag since.
CallWorker(i) ==
    /\ stage[i] = "cleared"
    /\ stage' = [stage EXCEPT ![i] = "running"]
    /\ late' = [late EXCEPT ![i] = IF cancel THEN @ + 1 ELSE @]
    /\ UNCHANGED <<args, pc, queue, attempts, outcome, book, control>>

\* The worker returns or raises.  A result that is no success is retried
\* until the attempts are used up; an exception is not.
FinishAttempt(i) ==
    /\ stage[i] = "running"
    /\ \E o \in WorkerOutcomes :
        IF o = "failed" /\ attempts[i] < AttemptLimit(i)
        THEN /\ stage' = [stage EXCEPT ![i] = "ready"]
             /\ UNCHANGED outcome
        ELSE /\ stage' = [stage EXCEPT ![i] = "done"]
             /\ outcome' = [outcome EXCEPT ![i] = o]
    /\ UNCHANGED <<args, pc, queue, attempts, late, book, control>>

-----------------------------------------------------------------------------
(* The control flags, as the pause, resume and cancel handlers set them.   *)
(* request_cancel also clears the pause flag; the engine reads that flag   *)
(* only together with an unset cancel flag, so the pair is one step.       *)

Pause == ~pause /\ pause' = TRUE /\ UNCHANGED cancel
Resume == pause /\ pause' = FALSE /\ UNCHANGED cancel
Cancel == ~cancel /\ cancel' = TRUE /\ pause' = FALSE

Control ==
    /\ Pause \/ Resume \/ Cancel
    /\ UNCHANGED <<args, pc, queue, pool, book>>

-----------------------------------------------------------------------------
Begin == BeginCancelled \/ BeginRejected \/ BeginCanary

Orchestrate ==
    \/ Begin
    \/ CanaryResult \/ CanaryRaises
    \/ Gate
    \/ \E i \in Slots : Submit(i)
    \/ SubmitEnds
    \/ Await
    \/ \E i \in Slots : Collect(i)
    \/ Shutdown
    \/ Finish

Attempt == \E i \in Slots : StartAttempt(i) \/ CallWorker(i) \/ FinishAttempt(i)

Next == Orchestrate \/ Attempt \/ Control

Spec == Init /\ [][Next]_vars

\* The thread of run_job and the pool threads keep running, and a worker call
\* ends (Netmiko's own timeouts bound it).  Nobody has to resume a paused run.
Fairness == WF_vars(Orchestrate) /\ WF_vars(Attempt)

FairSpec == Spec /\ Fairness

-----------------------------------------------------------------------------
Over == pc \in {"returned", "raised"}

\* No key but the canary's is repeated in the target list.
DistinctKeys == \A i, k \in Remaining : KeyOf(i) = KeyOf(k) => i = k

\* Slots with an attempt cleared at least once: an attempt that only saw the
\* cancel flag calls nothing.
Touched(i) == attempts[i] > 1 \/ (attempts[i] = 1 /\ outcome[i] # "cancelled")
Executing(i) == stage[i] \in {"ready", "cleared", "running"}

(* Every variable stays in its domain; in particular no device is tried    *)
(* more often than the retry limits of run_job allow.                      *)
TypeOK ==
    /\ args \in RunArgs
    /\ pc \in {"begin", "canary", "gate", "submit", "await", "collect",
               "finish", "shutdown", "returned", "raised"}
    /\ pending \subseteq Slots /\ inFlight \subseteq Slots /\ batch \subseteq Slots
    /\ stage \in [Slots -> {"idle", "ready", "cleared", "running", "done"}]
    /\ attempts \in [Slots -> Nat]
    /\ \A i \in Slots : attempts[i] <= (IF i = 0 THEN 1 ELSE args.retry + 1)
    /\ outcome \in [Slots -> {"none"} \cup Outcome]
    /\ late \in [Slots -> Nat]
    /\ results \in [Device -> {"none", "success", "failed", "cancelled"}]
    /\ verdict \in {"running"} \cup Verdict
    /\ shown \in [Device -> DeviceStatus]
    /\ announced \in {"none"} \cup Verdict
    /\ pause \in BOOLEAN /\ cancel \in BOOLEAN

(* No device other than the canary is contacted unless the canary's own    *)
(* run ended in success (run_job, "Canary first").                         *)
CanaryFirst == (\E i \in Slots \ {0} : stage[i] # "idle") => outcome[0] = "success"

(* At most max(1, concurrency_limit) devices are being worked on at once,  *)
(* also while the pool is shut down.                                       *)
ConcurrencyBound == Cardinality({i \in Slots : Executing(i)}) <= Concurrency

(* With stop_on_error the damage of a bad change is bounded: however the   *)
(* workers, wait() and the scheduling loop interleave, no more devices     *)
(* fail than were allowed in flight together.  (Of a repeated key a later  *)
(* success hides the failure.)                                             *)
BlastRadius ==
    args.stopOnError /\ DistinctKeys =>
        Cardinality({i \in Slots \ {0} : outcome[i] = "failed"}) <= Concurrency

(* A verdict is the truth about the devices: completed means the canary    *)
(* and every other target succeeded and has its result; failed that one    *)
(* did not (or the request named no valid target); cancelled that cancel   *)
(* was requested.  (With a repeated key, completed says less: a success    *)
(* may hide the failure that made stop on error drop the rest.)            *)
VerdictTruthful ==
    /\ verdict = "completed" =>
          /\ outcome[0] = "success" /\ results[args.canary] = "success"
          /\ DistinctKeys => \A i \in Remaining :
                outcome[i] = "success" /\ results[KeyOf(i)] = "success"
    /\ verdict = "failed" =>
          \/ args.canary \notin TargetKeys
          \/ \E i \in Slots : outcome[i] = "failed"
    /\ verdict = "cancelled" => cancel

(* When run_job has returned or raised, or has announced a completed or     *)
(* failed run, no pool thread works on a device: no log event follows such *)
(* a job_complete.  (A cancelled run is announced before its pool drains.) *)
NothingLeftRunning ==
    Over \/ announced \in {"completed", "failed"} => \A i \in Slots : ~Executing(i)

(* What the event stream says of a device is what the summary says of it:  *)
(* in a run that was not cancelled, no device is left shown as running,    *)
(* and each recorded result is the last status shown (a repeated key may   *)
(* be shown as running again when a cancel comes).                         *)
StreamMatchesSummary ==
    pc = "returned" =>
        /\ DistinctKeys => \A d \in Device : results[d] # "none" => shown[d] = results[d]
        /\ verdict # "cancelled" => \A d \in Device : shown[d] # "running"

(* How far a cancel request is from instant: the flag is looked at once    *)
(* per attempt, some time before the worker is called, so calls do begin   *)
(* after the request, but on no more devices than may be worked on at      *)
(* once, and on none of them twice (a retry looks again).                  *)
CancelLag ==
    /\ Cardinality({i \in Slots : late[i] > 0}) <= Concurrency
    /\ \A i \in Slots : late[i] <= 1

(* The verdict is given once, and no attempt is cleared after it, although *)
(* the pool may still be draining (run_job's returns inside the with       *)
(* block); of a cancelled run only calls cleared before it may still begin.*)
VerdictIsFinal ==
    [][verdict # "running" =>
          /\ verdict' = verdict /\ announced' = announced
          /\ \A i \in Slots : stage[i] # "cleared" => stage'[i] # "cleared"]_vars

(* An "execution summary for all devices" (JobRunSummary) would hold a     *)
(* result for every device the run has touched.                            *)
SummaryCoversTouched ==
    pc = "returned" =>
        \A i \in Slots : Touched(i) => results[KeyOf(i)] # "none"

(* A cancel request ends the run, wherever the orchestrator is, a pause    *)
(* spin included.                                                          *)
CancelEndsRun == cancel ~> Over

(* A run that is not left paused ends.                                     *)
UnpausedRunEnds == <>[](~pause \/ cancel) => <>Over

-----------------------------------------------------------------------------
(* The run promised by RunContract, read off the engine's state.           *)

\* What the attempts of a slot amount to, from the first one cleared: a slot
\* cancelled before a retry is left as its last attempt left it.
SlotFate(i) ==
    IF ~Touched(i) THEN "untouched"
    ELSE IF stage[i] # "done" THEN "busy"
    ELSE IF outcome[i] = "success" THEN "good" ELSE "bad"

\* With distinct keys a device has one slot: 0 if it is the canary.
SlotOf(d) == IF d = args.canary THEN 0 ELSE CHOOSE i \in Slots : i > 0 /\ Targets[i] = d

Fate == [d \in Device |-> IF d \in TargetKeys THEN SlotFate(SlotOf(d)) ELSE "untouched"]

Ordered == [targets |-> TargetKeys, canary |-> args.canary, limit |-> Concurrency,
            stopOnError |-> args.stopOnError]

Contract == INSTANCE RunContract WITH
    order <- Ordered, fate <- Fate, verdict <- announced

(* For target lists without repeated keys, run_job does only what the      *)
(* contract allows: the run starts as one, and each step is a step of the  *)
(* contract or changes nothing the contract speaks of.                     *)
ImplementsContract ==
    /\ DistinctKeys => Contract!Init
    /\ [][DistinctKeys => Contract!Next]_(Contract!vars)
=============================================================================
