---------------------------- MODULE RunSystemProofs ----------------------------
(***************************************************************************)
(* Theorems about RunSystem: what a client reads of a job and what the     *)
(* devices go through agree, for every target list, limit and worker.      *)
(*                                                                         *)
(* They hold for one client that steers the job by the control endpoints.  *)
(* The proofs put the invariants of the service and of the engine side by  *)
(* side and add Link: what a call of the service in hand says of the flags *)
(* and of the engine, and what the record of the job says of them.  The    *)
(* last part shows that the system implements RunService, step by step.    *)
(***************************************************************************)
EXTENDS RunSystem, RunServiceProofs

\* The engine's lemmas, about its flags as the service keeps them.
Run == INSTANCE ExecutionContractProofs WITH
    pause <- pause[TheJob], cancel <- cancel[TheJob]

\* One client, which leaves the status and the control of a job to the handlers meant for them.
OneSteers == OneClient /\ Requests \cap {"event", "reset"} = {}

\* A process at one of these will have run_job called, and nobody has called it yet.
Starting(x) ==
    \/ proc[x].at \in {"control", "clear", "spawn", "execute"}
    \/ proc[x].at \in {"commit", "record"} /\ proc[x].event = "start"

Closing == {"complete", "fail", "cancel"}

\* Which events a call may have in hand.
HandInv(x) ==
    /\ proc[x].at \notin {"drain", "reset_jobs", "reset_results", "reset_controls"}
    /\ proc[x].kind \notin {"event", "reset"}
    /\ x \in Job => At(x, "idle") \/ proc[x].kind = "thread"
    /\ proc[x].kind = "control" => proc[x].at \in {"lookup", "commit", "record"}
    /\ proc[x].at \in {"lookup", "commit", "record"} =>
          \/ proc[x].kind = "control" /\ x \in Thread /\ proc[x].event \in {"pause", "resume", "cancel"}
          \/ proc[x].kind \in {"run", "run_async"} /\ proc[x].event \in {"start"} \cup Closing
          \/ proc[x].kind = "thread" /\ proc[x].event \in Closing
    /\ At(x, "commit") => \E s \in Status : <<s, proc[x].event, proc[x].next>> \in Transitions

\* A run is started from a running job with a fresh control.
StartInv(x) ==
    /\ Starting(x) => pc = "begin"
    /\ proc[x].at \in {"control", "clear"} \/ (At(x, "record") /\ proc[x].event = "start") =>
          status[TheJob] = "running"
    /\ proc[x].at \in {"clear", "spawn", "execute"} => TheJob \in ctl

\* The flag is set before the transition is tried.
FlagInv(x) ==
    /\ At(x, "lookup") /\ proc[x].event = "cancel" => cancel[TheJob]
    /\ At(x, "commit") /\ proc[x].next = "cancelled" => cancel[TheJob]
    /\ proc[x].at \in {"lookup", "commit"} /\ proc[x].event = "pause" => pause[TheJob]

\* The result is stored before the job is closed.
ClosingInv(x) ==
    /\ At(x, "save") => pc = "returned" /\ proc[x].next = verdict
    /\ At(x, "lookup") /\ proc[x].event = "complete" => result[TheJob] = "completed"
    /\ At(x, "lookup") /\ proc[x].event = "fail" => result[TheJob] = "failed"
    /\ At(x, "commit") /\ proc[x].next \in {"completed", "failed"} => result[TheJob] = proc[x].next

CallLink(x) == HandInv(x) /\ StartInv(x) /\ FlagInv(x) /\ ClosingInv(x)

\* Somebody is about to have a paused job resumed.
Resuming == \E t \in Thread : proc[t].at \in {"lookup", "commit"} /\ proc[t].event = "resume"

JobLink ==
    /\ status[TheJob] \in {"unborn", "queued"} => pc = "begin"
    /\ status[TheJob] # "unborn" => TheJob \in stored
    /\ status[TheJob] = "cancelled" => cancel[TheJob]
    /\ status[TheJob] = "paused" => pause[TheJob] \/ cancel[TheJob] \/ Resuming
    /\ result[TheJob] # "none" => result[TheJob] = verdict /\ pc = "returned"
    /\ status[TheJob] \in {"completed", "failed"} => result[TheJob] = status[TheJob]

Link == JobLink /\ \A x \in Proc : CallLink(x)

ServiceInv == IInv /\ RunnerInv

SystemInv == ServiceInv /\ Run!EngineInv /\ Link

-----------------------------------------------------------------------------
(* There is one job, and every call that names one names it.               *)
LEMMA JobFacts ==
    /\ TheJob \in Job /\ Job = {TheJob} /\ TheJob \in Proc
    /\ \A x \in Proc : x \in Thread \/ x = TheJob
    /\ IInv => \A x \in Proc : proc[x].at \notin Nowhere => JobOf(x) = TheJob
  <1>1. TheJob \in Job /\ Job = {TheJob}
    BY OneJob DEF TheJob
  <1>2. IInv => \A x \in Proc : proc[x].at \notin Nowhere => JobOf(x) \in Job
    BY DEF IInv, CallInv, JobOK
  <1> QED BY <1>1, <1>2, Processes

(* The payload of the run request is one of the engine's calls.            *)
LEMMA Payload ==
    /\ RunArgs \subseteq Run!Calls
    /\ WorkerOutcomes \subseteq {"success", "failed", "raised"}
  BY PayloadAssumption DEF Engine!Calls, Run!Calls

(* What the engine's invariant says of its verdict.                        *)
LEMMA VerdictFacts ==
    ASSUME Run!EngineInv
    PROVE  /\ pc = "returned" => verdict \in Terminal
           /\ verdict = "cancelled" => cancel[TheJob]
  BY Payload, Run!VerdictMeans DEF Run!Verdict, Terminal

(* Both instances of the engine see the same arguments and results.        *)
LEMMA SameHelpers ==
    /\ Engine!Targets = Run!Targets /\ Engine!Slots = Run!Slots /\ Engine!TargetKeys = Run!TargetKeys
    /\ Engine!Remaining = Run!Remaining /\ Engine!DistinctKeys = Run!DistinctKeys
    /\ \A i : Engine!KeyOf(i) = Run!KeyOf(i)
    /\ \A i : Engine!AttemptLimit(i) = Run!AttemptLimit(i)
    /\ Engine!PoolHasRoom = Run!PoolHasRoom /\ Engine!ErrorStops = Run!ErrorStops
    /\ Engine!SomeResultNotSuccess = Run!SomeResultNotSuccess
  <1>1. \A S : Engine!Cardinality(S) = Run!Cardinality(S)
    BY DEF Engine!Cardinality, Run!Cardinality
  <1> QED BY <1>1 DEF Engine!Targets, Run!Targets, Engine!Slots, Run!Slots,
                        Engine!TargetKeys, Run!TargetKeys, Engine!Remaining, Run!Remaining,
                        Engine!DistinctKeys, Run!DistinctKeys, Engine!KeyOf, Run!KeyOf,
                        Engine!AttemptLimit, Run!AttemptLimit, Engine!PoolHasRoom,
                        Run!PoolHasRoom, Engine!ErrorStops, Run!ErrorStops,
                        Engine!SomeResultNotSuccess, Run!SomeResultNotSuccess,
                        Engine!Concurrency, Run!Concurrency

(* The engine inside the system is the engine of the theorems.             *)
LEMMA SameEngine ==
    /\ Engine!Init <=> Run!Init
    /\ Engine!Orchestrate <=> Run!Orchestrate
    /\ Engine!Attempt <=> Run!Attempt
  <1>1. Engine!Init <=> Run!Init
    BY SameHelpers DEF Engine!Init, Run!Init
  <1>2. Engine!Orchestrate <=> Run!Orchestrate
    <2> USE SameHelpers DEF Engine!control, Run!control, Engine!pool, Run!pool, Engine!book,
                            Run!book, Engine!queue, Run!queue
    <2>1. Engine!Begin <=> Run!Begin
      BY DEF Engine!Begin, Run!Begin, Engine!BeginCancelled, Run!BeginCancelled,
             Engine!BeginRejected, Run!BeginRejected, Engine!BeginCanary, Run!BeginCanary,
             Engine!Conclude, Run!Conclude, Engine!Record, Run!Record
    <2>2. (Engine!CanaryResult <=> Run!CanaryResult) /\ (Engine!CanaryRaises <=> Run!CanaryRaises)
      BY DEF Engine!CanaryResult, Run!CanaryResult, Engine!CanaryRaises, Run!CanaryRaises,
             Engine!Conclude, Run!Conclude, Engine!Record, Run!Record, Engine!CanaryPassed,
             Run!CanaryPassed
    <2>3. (Engine!Gate <=> Run!Gate) /\ (Engine!Finish <=> Run!Finish)
      BY DEF Engine!Gate, Run!Gate, Engine!Finish, Run!Finish, Engine!Conclude, Run!Conclude,
             Engine!HeldByPause, Run!HeldByPause
    <2>4. \A i : Engine!Submit(i) <=> Run!Submit(i)
      BY DEF Engine!Submit, Run!Submit
    <2>5. (Engine!SubmitEnds <=> Run!SubmitEnds) /\ (Engine!Await <=> Run!Await) /\ (Engine!Shutdown <=> Run!Shutdown)
      BY DEF Engine!SubmitEnds, Run!SubmitEnds, Engine!Await, Run!Await, Engine!AfterSubmit,
             Run!AfterSubmit, Engine!Shutdown, Run!Shutdown, Engine!PoolDrained,
             Run!PoolDrained
    <2>6. \A i : Engine!Collect(i) <=> Run!Collect(i)
      BY DEF Engine!Collect, Run!Collect, Engine!Conclude, Run!Conclude, Engine!Record,
             Run!Record
    <2> QED BY <2>1, <2>2, <2>3, <2>4, <2>5, <2>6 DEF Engine!Orchestrate, Run!Orchestrate
  <1>3. Engine!Attempt <=> Run!Attempt
    BY SameHelpers DEF Engine!Attempt, Run!Attempt, Engine!StartAttempt, Run!StartAttempt,
                       Engine!CallWorker, Run!CallWorker, Engine!FinishAttempt, Run!FinishAttempt, Engine!CancelSeen,
                       Run!CancelSeen, Engine!control, Run!control, Engine!pool, Run!pool,
                       Engine!book, Run!book, Engine!queue, Run!queue
  <1> QED BY <1>1, <1>2, <1>3

-----------------------------------------------------------------------------
(* While the client's request starts a run nobody else works, and whoever  *)
(* is inside run_job finds no other process about to call it.              *)
LEMMA Alone ==
    ASSUME OneClient, ServiceInv, \A x \in Proc : CallLink(x)
    PROVE  /\ \A x \in Thread : Starting(x) => \A y \in Proc \ {x} : At(y, "idle")
           /\ \A x \in Proc : At(x, "engine") => \A y \in Proc : ~Starting(y)
           /\ \A x \in Proc : x = TheJob /\ Starting(x) => At(x, "execute")
  <1>0. IInv /\ RunnerInv
    BY DEF ServiceInv
  <1>1. ASSUME NEW x \in Thread, Starting(x), NEW y \in Proc \ {x}
        PROVE  At(y, "idle")
    <2>1. x \in Proc /\ HandInv(x)
      BY Processes DEF CallLink
    <2>2. proc[x].kind \in {"run", "run_async"} /\ ~At(x, "lookup")
      BY <1>0, <1>1, <2>1, Processes DEF Starting, RunnerInv, HandInv, IInv, CallInv, ThreadOK, At, Closing
    <2>3. At(JobOf(x), "idle")
      BY <1>0, <2>2 DEF RunnerInv
    <2>4. JobOf(x) = TheJob
      BY <1>0, <1>1, <2>1, JobFacts DEF Starting, Nowhere
    <2> QED BY <2>3, <2>4, JobFacts DEF OneClient
  <1>2. ASSUME NEW x \in Proc, x = TheJob, Starting(x)
        PROVE  At(x, "execute")
    BY <1>0, <1>2, JobFacts, Processes DEF Starting, CallLink, HandInv, IInv, CallInv, HandOK, ThreadOK, At, Served, Closing
  <1>3. ASSUME NEW x \in Proc, At(x, "engine"), NEW y \in Proc, Starting(y)
        PROVE  FALSE
    <2>1. x # y
      BY <1>3 DEF Starting, At
    <2>2. y \notin Thread
      BY <1>1, <1>3, <2>1 DEF At
    <2>3. y = TheJob /\ x \in Thread
      BY <2>1, <2>2, JobFacts
    <2>4. At(JobOf(x), "idle") /\ JobOf(x) = TheJob
      BY <1>0, <1>3, <2>3, JobFacts DEF RunnerInv, At, Nowhere
    <2> QED BY <1>2, <1>3, <2>3, <2>4, Processes DEF At
  <1> QED BY <1>1, <1>2, <1>3

(* What a call in hand knows stays true when others do as follows.         *)
LEMMA OthersKept ==
    ASSUME IInv, NEW y \in Proc, CallLink(y), proc'[y] = proc[y],
           Starting(y) => pc' = pc,
           y \in Thread /\ Starting(y) => status'[TheJob] = status[TheJob],
           ctl \subseteq ctl',
           ~At(y, "idle") => (cancel[TheJob] => cancel'[TheJob]),
           y \in Thread => (pause[TheJob] => pause'[TheJob]),
           pc = "returned" => pc' = "returned" /\ verdict' = verdict,
           result[TheJob] # "none" => result'[TheJob] = result[TheJob]
    PROVE  CallLink(y)'
  <1>1. HandInv(y)'
    BY DEF CallLink, HandInv, At
  <1>2. y = TheJob => /\ proc[y].at \notin {"control", "clear"}
                      /\ proc[y].at \in {"lookup", "commit", "record"} => proc[y].event \in Closing
    BY JobFacts, Processes DEF CallLink, HandInv, IInv, CallInv, HandOK, ThreadOK, Served, At
  <1>3. StartInv(y)'
    BY <1>2, JobFacts DEF CallLink, StartInv, Starting, At, Closing
  <1>4. FlagInv(y)'
    BY <1>2, JobFacts DEF CallLink, FlagInv, At, Closing
  <1>5. ClosingInv(y)'
    BY DEF CallLink, ClosingInv, At
  <1> QED BY <1>1, <1>3, <1>4, <1>5 DEF CallLink

(* A step that moves one process and touches nothing but the list of jobs. *)
LEMMA OneStep ==
    ASSUME IInv, Link, NEW x \in Proc, \A y \in Proc \ {x} : proc'[y] = proc[y],
           UNCHANGED <<status, ctl, result, flags, engineVars>>, stored \subseteq stored',
           CallLink(x)',
           status[TheJob] = "paused" /\ x \in Thread /\ proc[x].event = "resume" /\ proc[x].at \in {"lookup", "commit"} =>
               proc'[x].event = "resume" /\ proc'[x].at \in {"lookup", "commit"}
    PROVE  Link'
  <1>1. UNCHANGED <<pause, cancel, pc, verdict>>
    BY DEF flags, engineVars
  <1>2. \A y \in Proc : CallLink(y)'
    BY <1>1, OthersKept DEF Link
  <1>3. status[TheJob] = "paused" /\ Resuming => Resuming'
    BY Processes DEF Resuming
  <1>4. JobLink'
    BY <1>1, <1>3 DEF Link, JobLink
  <1> QED BY <1>2, <1>4 DEF Link

(* A request that is taken on has nothing in hand yet.                     *)
LEMMA RequestLink ==
    ASSUME OneSteers, SystemInv, NEW t \in Thread, CreateCheck(t) \/ RunRequest(t), UNCHANGED engineVars
    PROVE  Link'
  <1>0. IInv /\ Link /\ t \in Proc /\ At(t, "idle")
    BY Processes DEF SystemInv, ServiceInv, CreateCheck, RunRequest
  <1>1. UNCHANGED <<stores, flags>> /\ \A y \in Proc \ {t} : proc'[y] = proc[y]
    BY <1>0 DEF IInv, CreateCheck, RunRequest
  <1>2. \/ proc'[t].at = "create" /\ proc'[t].kind = "create"
        \/ proc'[t].at = "lookup" /\ proc'[t].kind \in {"run", "run_async"} /\ proc'[t].event = "start"
    BY <1>0 DEF IInv, CreateCheck, RunRequest, Idle
  <1>3. CallLink(t)'
    BY <1>2, Processes DEF CallLink, HandInv, StartInv, FlagInv, ClosingInv, Starting, At
  <1> QED BY <1>0, <1>1, <1>3, OneStep DEF stores, At

(* The transition that is looked up is one of the table.                   *)
LEMMA LookupLink ==
    ASSUME OneSteers, SystemInv, NEW x \in Proc, LookupEvent(x), UNCHANGED engineVars
    PROVE  Link'
  <1>0. IInv /\ Link /\ HandInv(x) /\ FlagInv(x) /\ ClosingInv(x)
    BY DEF SystemInv, ServiceInv, Link, CallLink
  <1>1. UNCHANGED <<stores, flags>> /\ \A y \in Proc \ {x} : proc'[y] = proc[y]
    BY DEF LookupEvent, SystemInv, ServiceInv, IInv
  <1> DEFINE s == status[TheJob]
             e == proc[x].event
             n == proc'[x].next
  <1>2. JobOf(x) = TheJob
    BY <1>0, JobFacts DEF LookupEvent, At, Nowhere
  <1>3. <<s, e, n>> \in Transitions /\ s \in Status
    <2>1. CanTransition(s, e) /\ n = NextStatus(s, e)
      BY <1>0, <1>2 DEF LookupEvent, IInv, Call
    <2>2. <<s, e, n>> \in Transitions /\ s \in ActiveStatus
      BY <2>1, MachineFacts
    <2> QED BY <2>2 DEF ActiveStatus, Status
  <1>4. /\ proc'[x].at = "commit" /\ proc'[x].event = e /\ proc'[x].kind = proc[x].kind
        /\ At(x, "lookup")
    BY <1>0 DEF LookupEvent, IInv, Call, At
  <1>5. /\ e = "start" => s = "queued"
        /\ n = "cancelled" => e = "cancel"
        /\ n = "completed" => e = "complete"
        /\ n = "failed" => e = "fail"
    BY <1>3 DEF Transitions
  <1>6. CallLink(x)'
    <2>1. HandInv(x)'
      BY <1>0, <1>3, <1>4 DEF HandInv, At
    <2>2. StartInv(x)' /\ FlagInv(x)' /\ ClosingInv(x)'
      BY <1>0, <1>1, <1>4, <1>5 DEF StartInv, FlagInv, ClosingInv, Starting, At, Link, JobLink, engineVars, stores, flags
    <2> QED BY <2>1, <2>2 DEF CallLink
  <1> HIDE DEF s, e, n
  <1> QED BY <1>0, <1>1, <1>4, <1>6, OneStep DEF stores, At, e

(* A process that leaves has nothing in hand any more; a resume that is    *)
(* refused was not for a paused job.                                       *)
LEMMA LeaveLink ==
    ASSUME OneSteers, SystemInv, NEW x \in Proc, UNCHANGED engineVars,
           \/ RefuseEvent(x)
           \/ EngineThrows(x)
           \/ x \in Job /\ ThreadExits(x)
    PROVE  Link'
  <1>0. IInv /\ Link /\ HandInv(x)
    BY DEF SystemInv, ServiceInv, Link, CallLink
  <1>1. UNCHANGED <<stores, flags>> /\ ((Goto(x, "exit") /\ x \in Job) \/ Done(x))
    BY DEF RefuseEvent, EngineThrows, ThreadExits, Leave
  <1>2. \A y \in Proc \ {x} : proc'[y] = proc[y]
    BY <1>0, <1>1, GotoFacts, DoneFacts
  <1>3. \/ proc'[x].at = "idle" /\ proc'[x].kind = "none"
        \/ proc'[x].at = "exit" /\ proc'[x].kind = proc[x].kind /\ x \in Job
    BY <1>0, <1>1, GotoFacts, DoneFacts DEF Idle
  <1>4. proc'[x].kind \in {"none", "thread"} /\ (proc'[x].kind = "none" => proc'[x].at = "idle")
    BY <1>0, <1>3 DEF HandInv, At, RefuseEvent, EngineThrows, ThreadExits
  <1>5. CallLink(x)'
    BY <1>3, <1>4 DEF CallLink, HandInv, StartInv, FlagInv, ClosingInv, Starting, At
  <1>6. status[TheJob] = "paused" /\ proc[x].event = "resume" => ~At(x, "lookup") /\ ~At(x, "commit")
    <2> SUFFICES ASSUME status[TheJob] = "paused", proc[x].event = "resume", At(x, "lookup")
                 PROVE  FALSE
      BY DEF RefuseEvent, EngineThrows, ThreadExits, At
    <2>1. JobOf(x) = TheJob /\ TheJob \in stored
      BY <1>0, JobFacts DEF Link, JobLink, At, Nowhere
    <2>2. CanTransition("paused", "resume")
      <3>1. <<"paused", "resume", "running">> \in Transitions
        BY DEF Transitions
      <3> QED BY <3>1 DEF CanTransition
    <2> QED BY <2>1, <2>2 DEF RefuseEvent, EngineThrows, ThreadExits, At
  <1> QED BY <1>0, <1>1, <1>2, <1>5, <1>6, OneStep DEF stores, At

(* A saved record is that of a job that exists.                            *)
LEMMA RecordLink ==
    ASSUME OneSteers, SystemInv, NEW x \in Proc, SaveRecord(x), UNCHANGED engineVars
    PROVE  Link'
  <1>0. IInv /\ Link /\ HandInv(x) /\ StartInv(x)
    BY DEF SystemInv, ServiceInv, Link, CallLink
  <1>1. /\ UNCHANGED <<status, ctl, result, flags>> /\ stored \subseteq stored' /\ At(x, "record")
        /\ \/ Goto(x, "control") /\ proc[x].kind \in {"run", "run_async"} /\ proc[x].event = "start"
           \/ Goto(x, "exit") /\ x \in Job
           \/ Done(x)
    BY DEF SaveRecord, Leave
  <1>2. \A y \in Proc \ {x} : proc'[y] = proc[y]
    BY <1>0, <1>1, GotoFacts, DoneFacts
  <1>3. \/ proc'[x].at = "idle" /\ proc'[x].kind = "none"
        \/ /\ proc'[x].at = "control" /\ proc'[x].kind = proc[x].kind
           /\ proc[x].kind \in {"run", "run_async"} /\ proc[x].event = "start"
        \/ proc'[x].at = "exit" /\ proc'[x].kind = proc[x].kind /\ x \in Job
    BY <1>0, <1>1, GotoFacts, DoneFacts DEF Idle
  <1>4. proc'[x].kind \notin {"event", "reset", "control"}
    BY <1>0, <1>3 DEF HandInv, IInv, CallInv, ThreadOK
  <1>5. CallLink(x)'
    BY <1>0, <1>1, <1>3, <1>4 DEF CallLink, HandInv, StartInv, FlagInv, ClosingInv, Starting, At, engineVars
  <1> QED BY <1>0, <1>1, <1>2, <1>5, OneStep DEF At

(* run_job hands over the verdict it returned with.                        *)
LEMMA HandOverLink ==
    ASSUME OneSteers, SystemInv, NEW x \in Proc, EngineHandsOver(x)
    PROVE  Link'
  <1>0. IInv /\ Link /\ HandInv(x)
    BY DEF SystemInv, ServiceInv, Link, CallLink
  <1>1. /\ UNCHANGED <<stores, flags, engineVars>> /\ \A y \in Proc \ {x} : proc'[y] = proc[y]
        /\ proc'[x].at = "save" /\ proc'[x].next = verdict /\ proc'[x].kind = proc[x].kind
        /\ pc = "returned" /\ At(x, "engine")
    BY <1>0 DEF EngineHandsOver, IInv, Call
  <1>2. CallLink(x)'
    BY <1>0, <1>1 DEF CallLink, HandInv, StartInv, FlagInv, ClosingInv, Starting, At, engineVars
  <1> QED BY <1>0, <1>1, <1>2, OneStep DEF stores, At

(* A new job has no run behind it.                                         *)
LEMMA CreateLink ==
    ASSUME OneSteers, SystemInv, NEW t \in Thread, CreateSave(t), UNCHANGED engineVars
    PROVE  Link'
  <1>0. IInv /\ Link /\ t \in Proc /\ OneClient /\ At(t, "create") /\ JobOf(t) = TheJob
    BY Processes, JobFacts DEF SystemInv, ServiceInv, OneSteers, CreateSave, At, Nowhere
  <1>1. status[TheJob] = "unborn" /\ TheJob \in Job
    BY <1>0, JobFacts DEF IInv, CallInv, JobOK
  <1>2. /\ status'[TheJob] = "queued" /\ TheJob \in stored' /\ UNCHANGED <<ctl, result, flags>>
        /\ proc'[t] = Idle /\ \A y \in Proc \ {t} : proc'[y] = proc[y] /\ y \notin Thread
    BY <1>0, <1>1, DoneFacts DEF CreateSave, IInv, StoresOK, OneClient
  <1>3. UNCHANGED <<pause, cancel, pc, verdict>> /\ pc = "begin" /\ result[TheJob] = "none"
    BY <1>0, <1>1, <1>2 DEF flags, engineVars, Link, JobLink
  <1>4. CallLink(t)'
    BY <1>2, Processes DEF CallLink, HandInv, StartInv, FlagInv, ClosingInv, Starting, At, Idle
  <1>5. \A y \in Proc \ {t} : CallLink(y)'
    BY <1>0, <1>2, <1>3, OthersKept DEF Link
  <1>6. JobLink'
    BY <1>2, <1>3 DEF JobLink
  <1> QED BY <1>4, <1>5, <1>6 DEF Link

(* The status that is written is the one the event in hand leads to, and   *)
(* what it says is true already.                                           *)
LEMMA CommitLink ==
    ASSUME OneSteers, SystemInv, NEW x \in Proc, CommitEvent(x), UNCHANGED engineVars
    PROVE  Link'
  <1>0. /\ IInv /\ Link /\ OneClient /\ At(x, "commit") /\ JobOf(x) = TheJob
        /\ HandInv(x) /\ StartInv(x) /\ FlagInv(x) /\ ClosingInv(x)
    BY JobFacts DEF SystemInv, ServiceInv, OneSteers, CommitEvent, At, Nowhere, Link, CallLink
  <1> DEFINE e == proc[x].event
             n == proc[x].next
  <1>1. /\ status'[TheJob] = n /\ UNCHANGED <<stored, ctl, result, flags>>
        /\ proc'[x].at = "record" /\ proc'[x].event = e /\ proc'[x].kind = proc[x].kind
        /\ \A y \in Proc \ {x} : proc'[y] = proc[y]
    BY <1>0, GotoFacts, JobFacts DEF CommitEvent, IInv, StoresOK
  <1>2. UNCHANGED <<pause, cancel, pc, verdict>>
    BY <1>1 DEF flags, engineVars
  <1>3. status[TheJob] # "unborn" /\ n \in Status \ {"queued"}
    BY <1>0 DEF IInv, CallInv, JobOK, HandOK, At
  <1>4. (n = "paused" => e = "pause") /\ (e = "start" => n = "running")
    BY <1>0 DEF HandInv, Transitions
  <1>5. CallLink(x)'
    BY <1>0, <1>1, <1>2, <1>4 DEF CallLink, HandInv, StartInv, FlagInv, ClosingInv, Starting, At
  <1>6. \A y \in Proc \ {x} : y \in Thread => ~Starting(y)
    BY <1>0, Alone DEF SystemInv, Link, At
  <1>7. \A y \in Proc \ {x} : CallLink(y)'
    BY <1>0, <1>1, <1>2, <1>6, OthersKept DEF Link
  <1>8. JobLink'
    BY <1>0, <1>1, <1>2, <1>3, <1>4 DEF Link, JobLink, FlagInv, ClosingInv, Status, At
  <1> QED BY <1>5, <1>7, <1>8 DEF Link

(* The handlers of pause, resume and cancel set the flag first.            *)
LEMMA ControlLink ==
    ASSUME OneSteers, SystemInv, NEW t \in Thread, ControlAction(t), UNCHANGED engineVars
    PROVE  Link'
  <1>0. IInv /\ Link /\ OneClient /\ t \in Proc /\ UNCHANGED stores
    BY Processes DEF SystemInv, ServiceInv, OneSteers, ControlAction
  <1>1. PICK e \in {"pause", "resume", "cancel"} :
          /\ pause'[TheJob] = (e = "pause") /\ cancel'[TheJob] = (cancel[TheJob] \/ e = "cancel")
          /\ proc' = [proc EXCEPT ![t] = [Idle EXCEPT !.at = "lookup", !.job = TheJob,
                                                      !.kind = "control", !.event = e]]
    <2>1. PICK e \in {"pause", "resume", "cancel"} \cap Requests, j \in stored \cap ctl :
            /\ SetFlags(j, e)
            /\ proc' = [proc EXCEPT ![t] = [Idle EXCEPT !.at = "lookup", !.job = j,
                                                        !.kind = "control", !.event = e]]
      BY DEF ControlAction
    <2>2. j = TheJob /\ j \in Job
      BY <1>0, JobFacts DEF IInv, StoresOK
    <2>3. pause'[j] = (e = "pause") /\ cancel'[j] = (cancel[j] \/ e = "cancel")
      BY <1>0, <2>1, <2>2 DEF SetFlags, IInv, StoresOK
    <2> QED BY <2>1, <2>2, <2>3
  <1>2. /\ proc'[t].at = "lookup" /\ proc'[t].kind = "control" /\ proc'[t].event = e
        /\ \A y \in Proc \ {t} : proc'[y] = proc[y] /\ y \notin Thread
    BY <1>0, <1>1 DEF IInv, Idle, OneClient
  <1>3. UNCHANGED <<status, stored, ctl, result, pc, verdict>>
    BY <1>0 DEF stores, engineVars
  <1>4. CallLink(t)'
    BY <1>1, <1>2, Processes DEF CallLink, HandInv, StartInv, FlagInv, ClosingInv, Starting, At
  <1>5. \A y \in Proc \ {t} : CallLink(y)'
    BY <1>0, <1>1, <1>2, <1>3, OthersKept DEF Link
  <1>6. JobLink'
    BY <1>0, <1>1, <1>2, <1>3 DEF Link, JobLink, Resuming
  <1> QED BY <1>4, <1>5, <1>6 DEF Link

(* The control is made or cleared for a running job that nobody steers.    *)
LEMMA FreshLink ==
    ASSUME OneSteers, SystemInv, NEW t \in Thread, RunControl(t) \/ ClearFlags(t), UNCHANGED engineVars
    PROVE  Link' /\ pc = "begin"
  <1>0. IInv /\ Link /\ OneClient /\ t \in Proc /\ Starting(t) /\ JobOf(t) = TheJob /\ CallLink(t)
    BY Processes, JobFacts
       DEF SystemInv, ServiceInv, OneSteers, RunControl, ClearFlags, At, Starting, Nowhere, Link
  <1>1. \A y \in Proc \ {t} : At(y, "idle")
    BY <1>0, Alone DEF SystemInv, Link
  <1>2. /\ UNCHANGED <<status, stored, result>> /\ ctl \subseteq ctl' /\ TheJob \in ctl'
        /\ proc'[t].at \in {"clear", "execute", "spawn"} /\ proc'[t].kind = proc[t].kind
        /\ \A y \in Proc \ {t} : proc'[y] = proc[y]
    BY <1>0, GotoFacts DEF RunControl, ClearFlags, GetOrCreate, stores, CallLink, StartInv, At
  <1>3. UNCHANGED <<pc, verdict>> /\ pc = "begin" /\ status[TheJob] = "running"
    BY <1>0 DEF engineVars, CallLink, StartInv, RunControl, ClearFlags, At
  <1>4. CallLink(t)'
    BY <1>0, <1>2, <1>3 DEF CallLink, HandInv, StartInv, FlagInv, ClosingInv, Starting, At,
       RunControl, ClearFlags
  <1>5. \A y \in Proc \ {t} : CallLink(y)'
    <2>1. \A y \in Proc \ {t} : ~Starting(y)
      BY <1>1 DEF Starting, At
    <2>2. \A y \in Proc \ {t} : y \notin Thread
      BY <1>0 DEF OneClient
    <2> QED BY <1>0, <1>1, <1>2, <1>3, <2>1, <2>2, OthersKept DEF Link
  <1>6. JobLink'
    BY <1>0, <1>2, <1>3 DEF Link, JobLink
  <1> QED BY <1>3, <1>4, <1>5, <1>6 DEF Link

(* A run thread is begun for a job whose run has not begun.                *)
LEMMA SpawnLink ==
    ASSUME OneSteers, SystemInv, NEW t \in Thread, Spawn(t), UNCHANGED engineVars
    PROVE  Link'
  <1>0. /\ IInv /\ Link /\ OneClient /\ t \in Proc /\ Starting(t) /\ JobOf(t) = TheJob
        /\ At(t, "spawn") /\ StartInv(t) /\ TheJob # t /\ TheJob \in Proc
    BY Processes, JobFacts
       DEF SystemInv, ServiceInv, OneSteers, Spawn, At, Starting, Nowhere, Link, CallLink
  <1>1. At(TheJob, "idle")
    BY <1>0, Alone DEF SystemInv, Link
  <1>2. /\ proc'[t] = Idle
        /\ proc'[TheJob].at = "execute" /\ proc'[TheJob].kind = "thread"
        /\ UNCHANGED <<status, stored, ctl, result, pause, cancel, pc, verdict>>
    BY <1>0, <1>1 DEF Spawn, IInv, Idle, stores, flags, engineVars
  <1>3. \A y \in Proc : y = t \/ y = TheJob
    BY <1>0, JobFacts DEF OneClient
  <1>4. CallLink(t)'
    BY <1>2, Processes DEF CallLink, HandInv, StartInv, FlagInv, ClosingInv, Starting, At, Idle
  <1>5. CallLink(TheJob)'
    BY <1>0, <1>2 DEF CallLink, HandInv, StartInv, FlagInv, ClosingInv, Starting, At
  <1>6. JobLink'
    <2>1. Resuming => Resuming'
      BY <1>0, <1>3 DEF Resuming, OneClient, At
    <2> QED BY <1>0, <1>2, <2>1 DEF Link, JobLink
  <1> QED BY <1>3, <1>4, <1>5, <1>6 DEF Link

(* The control that run_job is called with is the one that was cleared.    *)
LEMMA ExecuteLink ==
    ASSUME OneSteers, SystemInv, NEW x \in Proc, ExecuteBegin(x), UNCHANGED engineVars
    PROVE  Link' /\ UNCHANGED flags
  <1>0. IInv /\ Link /\ CallLink(x) /\ At(x, "execute") /\ JobOf(x) = TheJob
    BY JobFacts DEF SystemInv, ServiceInv, ExecuteBegin, At, Nowhere, Link
  <1>1. TheJob \in ctl
    BY <1>0 DEF CallLink, StartInv, At
  <1>2. /\ UNCHANGED <<status, stored, ctl, result, flags>>
        /\ proc'[x].at = "engine" /\ proc'[x].kind = proc[x].kind
        /\ \A y \in Proc \ {x} : proc'[y] = proc[y]
    BY <1>0, <1>1, GotoFacts DEF ExecuteBegin, GetOrCreate
  <1>3. CallLink(x)'
    BY <1>0, <1>2 DEF CallLink, HandInv, StartInv, FlagInv, ClosingInv, Starting, At
  <1> QED BY <1>0, <1>2, <1>3, OneStep DEF At

(* The result is stored before the event that closes the job is tried.     *)
LEMMA SummaryLink ==
    ASSUME OneSteers, SystemInv, NEW x \in Proc, SaveSummary(x), UNCHANGED engineVars
    PROVE  Link'
  <1>0. IInv /\ Link /\ CallLink(x) /\ At(x, "save") /\ JobOf(x) = TheJob /\ RunnerInv /\ Run!EngineInv
    BY JobFacts DEF SystemInv, ServiceInv, RunnerInv, SaveSummary, At, Nowhere, Link
  <1>1. pc = "returned" /\ proc[x].next = verdict
    BY <1>0 DEF CallLink, ClosingInv
  <1>2. verdict \in Terminal /\ (verdict = "cancelled" => cancel[TheJob])
    BY <1>0, <1>1, VerdictFacts
  <1>3. /\ result'[TheJob] = verdict
        /\ UNCHANGED <<status, stored, ctl, pause, cancel, pc, verdict>>
        /\ proc'[x].at = "lookup" /\ proc'[x].event = EventOf(verdict) /\ proc'[x].kind = proc[x].kind
        /\ \A y \in Proc \ {x} : proc'[y] = proc[y]
    BY <1>0, <1>1, JobFacts DEF SaveSummary, IInv, StoresOK, Call, flags, engineVars
  <1>4. /\ EventOf(verdict) = "complete" => verdict = "completed"
        /\ EventOf(verdict) = "fail" => verdict = "failed"
        /\ EventOf(verdict) = "cancel" => verdict = "cancelled"
        /\ EventOf(verdict) \in Closing
    BY <1>2 DEF EventOf, Terminal, Closing
  <1>5. proc[x].kind \in {"run", "run_async", "thread"}
    BY <1>0, JobFacts, Processes DEF RunnerInv, CallLink, HandInv, At
  <1>6. CallLink(x)'
    BY <1>0, <1>2, <1>3, <1>4, <1>5 DEF CallLink, HandInv, StartInv, FlagInv, ClosingInv, Starting, At, Closing
  <1>7. result[TheJob] # "none" => result'[TheJob] = result[TheJob]
    BY <1>0, <1>3 DEF Link, JobLink
  <1>8. \A y \in Proc \ {x} : CallLink(y)'
    BY <1>0, <1>3, <1>7, OthersKept DEF Link
  <1>9. Resuming => Resuming'
    BY <1>0, <1>3, Processes DEF Resuming, At
  <1>10. JobLink'
    BY <1>0, <1>1, <1>3, <1>7, <1>9 DEF Link, JobLink
  <1> QED BY <1>6, <1>8, <1>10 DEF Link

(* run_job and its pool go on; what has returned stays as it is.           *)
LEMMA EngineLink ==
    ASSUME OneSteers, SystemInv,
           (\E x \in Proc : EngineStep(x)) \/ PoolStep \/ UNCHANGED systemVars
    PROVE  Link'
  <1>0. IInv /\ Link /\ OneClient
    BY DEF SystemInv, ServiceInv, OneSteers
  <1>1. UNCHANGED <<status, stored, ctl, result, pause, cancel, proc>>
    BY DEF EngineStep, PoolStep, systemVars, vars, stores, flags
  <1>2. pc' = pc \/ \E x \in Proc : At(x, "engine")
    BY DEF EngineStep, PoolStep, Engine!Attempt, Engine!StartAttempt, Engine!CallWorker, Engine!FinishAttempt, systemVars, engineVars
  <1>3. pc = "returned" => pc' = "returned" /\ verdict' = verdict
    <2> SUFFICES ASSUME pc = "returned" PROVE pc' = "returned" /\ verdict' = verdict
      OBVIOUS
    <2>1. CASE UNCHANGED systemVars
      BY <2>1 DEF systemVars, engineVars
    <2>2. CASE Engine!Orchestrate \/ Engine!Attempt
      BY <2>2, Payload, SameEngine, Run!ReturnStays DEF Run!Next
    <2> QED BY <2>1, <2>2 DEF EngineStep, PoolStep
  <1>4. \A y \in Proc : Starting(y) => pc' = pc
    BY <1>0, <1>2, Alone DEF SystemInv, Link
  <1>5. \A y \in Proc : CallLink(y)'
    BY <1>0, <1>1, <1>3, <1>4, OthersKept DEF Link
  <1>6. status[TheJob] \in {"unborn", "queued"} => pc' = pc
    <2>1. ASSUME NEW x \in Proc, At(x, "engine") PROVE status[TheJob] \notin {"unborn", "queued"}
      BY <1>0, <2>1, JobFacts DEF IInv, CallInv, JobOK, Started, At, Nowhere
    <2> QED BY <1>2, <2>1
  <1>7. Resuming' = Resuming
    BY <1>1 DEF Resuming
  <1>8. JobLink'
    BY <1>0, <1>1, <1>3, <1>6, <1>7 DEF Link, JobLink
  <1> QED BY <1>5, <1>8 DEF Link

-----------------------------------------------------------------------------
(* The service's invariant, with the real engine: a verdict that is handed *)
(* over at once is the one step that RunService has in two.                *)
LEMMA HandOverService ==
    ASSUME OneSteers, SystemInv, NEW x \in Proc, EngineHandsOver(x) \/ EngineThrows(x)
    PROVE  ServiceInv'
  <1>0. IInv /\ RunnerInv /\ x \in Proc /\ At(x, "engine") /\ HandOK(x) /\ ThreadOK(x) /\ JobOK(x)
    BY DEF SystemInv, ServiceInv, EngineHandsOver, EngineThrows, IInv, CallInv
  <1>1. UNCHANGED <<status, stored, ctl, result, pause, cancel>>
    BY DEF EngineHandsOver, EngineThrows, stores, flags
  <1>2. pc = "returned" => verdict \in Terminal
    BY VerdictFacts DEF SystemInv
  <1>3. /\ proc' \in [Proc -> Call] /\ \A y \in Proc \ {x} : proc'[y] = proc[y]
        /\ \/ proc'[x] = [proc[x] EXCEPT !.at = "save", !.next = verdict] /\ verdict \in Terminal
           \/ proc'[x] = [proc[x] EXCEPT !.at = "exit"] /\ x \in Job
           \/ proc'[x] = Idle
    <2>1. CASE EngineHandsOver(x)
      <3>1. /\ proc' = [proc EXCEPT ![x].at = "save", ![x].next = verdict]
            /\ verdict \in Terminal /\ proc \in [Proc -> Call]
        BY <1>0, <1>2, <2>1 DEF EngineHandsOver, IInv
      <3>2. [proc[x] EXCEPT !.at = "save", !.next = verdict] \in Call
        BY <1>0, <3>1 DEF Call, Labels, Status, Terminal
      <3>3. proc' = [proc EXCEPT ![x] = [proc[x] EXCEPT !.at = "save", !.next = verdict]]
        BY <1>0, <3>1
      <3> QED BY <1>0, <3>1, <3>2, <3>3
    <2>2. CASE EngineThrows(x)
      BY <1>0, <2>2 DEF EngineThrows, Leave, Goto, Done, IInv, Call, Labels, Idle, Kinds
    <2> QED BY <2>1, <2>2
  <1>4. /\ proc[x] \in Call
        /\ \/ /\ proc'[x].at \in {"save", "exit"} /\ proc'[x].job = proc[x].job /\ proc'[x].kind = proc[x].kind
              /\ proc'[x].at = "save" => proc'[x].next \in Terminal
              /\ proc'[x].at = "exit" => x \in Job
           \/ proc'[x] = Idle
    BY <1>0, <1>3 DEF IInv, Call
  <1>5. HandOK(x)' /\ ThreadOK(x)' /\ JobOK(x)' /\ ~At(x, "create")'
    BY <1>0, <1>1, <1>4, Processes
       DEF HandOK, ThreadOK, JobOK, At, JobOf, Idle, Served, Nowhere, Started
  <1>6. StoresOK' /\ \A j \in stored' : status'[j] # "unborn"
    BY <1>0, <1>1 DEF IInv, StoresOK, BirthInv
  <1>7. \A y \in Proc \ {x} : Relies(y) => JobKept(JobOf(y))
    BY <1>1 DEF JobKept
  <1>8. IInv'
    BY <1>0, <1>3, <1>5, <1>6, <1>7, OneMoves
  <1>9. RunnerInv'
    <2>1. CASE x \in Thread
      BY <1>0, <1>3, <1>4, <2>1, Processes DEF RunnerInv, At, JobOf, Idle, OneSteers, OneClient
    <2>2. CASE x \in Job
      BY <1>0, <1>3, <2>2, Processes DEF RunnerInv, At, JobOf
    <2> QED BY <2>1, <2>2, Processes
  <1> QED BY <1>8, <1>9 DEF ServiceInv

(* The service's invariant holds in the system.                            *)
LEMMA ServiceStep ==
    ASSUME OneSteers, SystemInv, [SystemNext]_systemVars
    PROVE  ServiceInv'
  <1>1. ASSUME NEW x \in Proc, EngineHandsOver(x) \/ EngineThrows(x) PROVE ServiceInv'
    BY <1>1, HandOverService
  <1>2. CASE [Next]_vars
    BY <1>2, StepInv, RunnerStep DEF SystemInv, ServiceInv, OneSteers
  <1> QED BY <1>1, <1>2 DEF SystemNext, Handle, RunJob, EngineStep, PoolStep, systemVars, Next

(* The handlers do to the flags what Control does, and clear them only     *)
(* before run_job looks at them.                                           *)
LEMMA FlagStep ==
    ASSUME OneSteers, SystemInv, UNCHANGED engineVars,
           \/ \E t \in Thread : Arrive(t)
           \/ \E x \in Proc : Advance(x)
    PROVE  \/ [Run!Next]_(Run!vars)
           \/ pc = "begin" /\ UNCHANGED <<args, pc, Run!queue, Run!pool, Run!book>>
  <1>0. IInv /\ Link /\ OneClient /\ Requests \cap {"event", "reset"} = {}
    BY DEF SystemInv, ServiceInv, OneSteers
  <1>1. UNCHANGED <<args, pc, Run!queue, Run!pool, Run!book>>
    BY DEF engineVars, Run!queue, Run!pool, Run!book
  <1>2. CASE UNCHANGED flags
    BY <1>1, <1>2 DEF flags, Run!vars, Run!control
  <1>3. ASSUME NEW t \in Thread, Arrive(t) PROVE UNCHANGED flags \/ [Run!Next]_(Run!vars)
    <2>1. CASE ControlAction(t)
      <3>1. PICK e \in {"pause", "resume", "cancel"}, j \in stored : SetFlags(j, e)
        BY <2>1 DEF ControlAction
      <3>2. j = TheJob /\ j \in Job
        BY <1>0, JobFacts DEF IInv, StoresOK
      <3>3. pause'[TheJob] = (e = "pause") /\ cancel'[TheJob] = (cancel[TheJob] \/ e = "cancel")
        BY <1>0, <3>1, <3>2 DEF SetFlags, IInv, StoresOK
      <3>4. pause[TheJob] \in BOOLEAN /\ cancel[TheJob] \in BOOLEAN
        BY <1>0, <3>2 DEF IInv, StoresOK
      <3>5. CASE e = "pause"
        BY <1>1, <3>3, <3>4, <3>5 DEF Run!Next, Run!Control, Run!Pause, Run!vars, Run!control
      <3>6. CASE e = "resume"
        BY <1>1, <3>3, <3>4, <3>6 DEF Run!Next, Run!Control, Run!Resume, Run!vars, Run!control
      <3>7. CASE e = "cancel"
        BY <1>1, <3>3, <3>4, <3>7 DEF Run!Next, Run!Control, Run!Cancel, Run!Resume, Run!vars, Run!control
      <3> QED BY <3>5, <3>6, <3>7
    <2> QED BY <1>3, <2>1 DEF Arrive, CreateCheck, RawEvent, RunRequest, ResetCheck
  <1>4. ASSUME NEW x \in Proc, Advance(x) PROVE UNCHANGED flags \/ pc = "begin"
    <2>1. CASE ExecuteBegin(x)
      BY <2>1, ExecuteLink
    <2>2. CASE x \in Thread /\ (RunControl(x) \/ ClearFlags(x))
      BY <2>2, FreshLink
    <2>3. CASE x \in Thread /\ CreateSave(x)
      BY <2>3 DEF CreateSave
    <2>4. CASE x \in Thread /\ (Spawn(x) \/ Reset(x))
      BY <2>4 DEF Spawn, Reset, ResetJobs, ResetResults, ResetControls
    <2>5. CASE ApplyEvent(x)
      BY <2>5 DEF ApplyEvent, LookupEvent, RefuseEvent, CommitEvent, SaveRecord
    <2>6. CASE EngineDrained(x) \/ SaveSummary(x) \/ ThreadExits(x)
      BY <2>6 DEF EngineDrained, SaveSummary, ThreadExits
    <2> QED BY <1>4, <2>1, <2>2, <2>3, <2>4, <2>5, <2>6 DEF Advance, StartRun, Execute
  <1> QED BY <1>1, <1>2, <1>3, <1>4

(* Every step of the system is one of run_job, or leaves run_job before    *)
(* its first look at the flags.                                            *)
LEMMA RunStep ==
    ASSUME OneSteers, SystemInv, [SystemNext]_systemVars
    PROVE  \/ [Run!Next]_(Run!vars)
           \/ pc = "begin" /\ UNCHANGED <<args, pc, Run!queue, Run!pool, Run!book>>
  <1>1. ASSUME NEW x \in Proc, EngineStep(x) PROVE Run!Next
    BY <1>1, SameEngine DEF EngineStep, Run!Next
  <1>2. ASSUME PoolStep PROVE Run!Next
    BY <1>2, SameEngine DEF PoolStep, Run!Next
  <1>3. ASSUME NEW x \in Proc, EngineHandsOver(x) \/ EngineThrows(x) PROVE UNCHANGED Run!vars
    BY <1>3 DEF EngineHandsOver, EngineThrows, engineVars, flags, Run!vars, Run!queue, Run!pool,
       Run!book, Run!control
  <1>4. ASSUME UNCHANGED systemVars PROVE UNCHANGED Run!vars
    BY <1>4 DEF systemVars, vars, flags, engineVars, Run!vars, Run!queue, Run!pool, Run!book, Run!control
  <1> QED BY <1>1, <1>2, <1>3, <1>4, FlagStep DEF SystemNext, Handle, RunJob

(* The engine's invariant holds of the engine inside the system.           *)
LEMMA EngineInSystem ==
    ASSUME OneSteers, SystemInv, [SystemNext]_systemVars
    PROVE  Run!EngineInv'
  <1>1. CASE [Run!Next]_(Run!vars)
    BY <1>1, Payload, Run!EngineInvStep DEF SystemInv
  <1>2. CASE pc = "begin" /\ UNCHANGED <<args, pc, Run!queue, Run!pool, Run!book>>
    <2>1. (pause[TheJob])' \in BOOLEAN /\ (cancel[TheJob])' \in BOOLEAN
      BY ServiceStep, JobFacts DEF ServiceInv, IInv, StoresOK
    <2> QED BY <1>2, <2>1, Payload, Run!FreshControl DEF SystemInv
  <1> QED BY <1>1, <1>2, RunStep

(* One client at a time keeps the link.                                    *)
LEMMA LinkStep ==
    ASSUME OneSteers, SystemInv, [SystemNext]_systemVars
    PROVE  Link'
  <1>0. Requests \cap {"event", "reset"} = {} /\ \A x \in Proc : HandInv(x)
    BY DEF SystemInv, OneSteers, Link, CallLink
  <1>1. ASSUME NEW t \in Thread, Arrive(t), UNCHANGED engineVars PROVE Link'
    BY <1>0, <1>1, RequestLink, ControlLink DEF Arrive, RawEvent, ResetCheck
  <1>2. ASSUME NEW x \in Proc, Advance(x), UNCHANGED engineVars PROVE Link'
    <2>1. ~Reset(x) /\ ~EngineDrained(x)
      BY <1>0 DEF HandInv, Reset, ResetJobs, ResetResults, ResetControls, EngineDrained, At
    <2> QED BY <1>2, <2>1, CreateLink, FreshLink, SpawnLink, LookupLink, LeaveLink, CommitLink,
               RecordLink, ExecuteLink, SummaryLink DEF Advance, StartRun, ApplyEvent, Execute
  <1>3. ASSUME NEW x \in Proc, EngineHandsOver(x) \/ EngineThrows(x) PROVE Link'
    BY <1>3, HandOverLink, LeaveLink DEF EngineThrows
  <1> QED BY <1>1, <1>2, <1>3, EngineLink DEF SystemNext, Handle, RunJob

(* Nothing has happened yet.                                               *)
LEMMA InitSystem == SystemInit => SystemInv
  <1> SUFFICES ASSUME SystemInit PROVE SystemInv
    OBVIOUS
  <1>1. ServiceInv
    BY InitInv, InitRunner DEF SystemInit, ServiceInv
  <1>2. Run!EngineInv
    BY Payload, SameEngine, Run!InitEngineInv DEF SystemInit
  <1>3. \A x \in Proc : CallLink(x)
    BY DEF SystemInit, Init, Idle, CallLink, HandInv, StartInv, FlagInv, ClosingInv, Starting, At
  <1>4. JobLink
    BY JobFacts DEF SystemInit, Init, Engine!Init, JobLink
  <1> QED BY <1>1, <1>2, <1>3, <1>4 DEF SystemInv, Link

(* The invariant holds throughout, for one client that steers the job.     *)
LEMMA SystemHolds ==
    ASSUME OneSteers
    PROVE  SystemSpec => []SystemInv
  <1>1. SystemInv /\ [SystemNext]_systemVars => SystemInv'
    BY ServiceStep, EngineInSystem, LinkStep DEF SystemInv
  <1> QED BY <1>1, InitSystem, PTL DEF SystemSpec

-----------------------------------------------------------------------------
(* A job shown as completed or failed has that result, the result is what  *)
(* run_job concluded, and the conclusion is true of the devices.           *)
THEOREM StatusIsTrue ==
    ASSUME OneSteers
    PROVE  SystemSpec => []StatusTruthful
  <1>1. SystemInv => StatusTruthful
    <2> SUFFICES ASSUME SystemInv PROVE StatusTruthful
      OBVIOUS
    <2>1. JobLink /\ Run!EngineInv
      BY DEF SystemInv, Link
    <2>2. /\ verdict = "completed" => outcome[0] = "success"
          /\ verdict = "completed" /\ Engine!DistinctKeys => \A i \in Engine!Remaining : outcome[i] = "success"
          /\ verdict = "failed" => \E i \in Engine!Remaining \cup {0} : outcome[i] # "success"
      BY <2>1, Payload, SameHelpers, Run!VerdictMeans
    <2> QED BY <2>1, <2>2 DEF JobLink, StatusTruthful
  <1> QED BY <1>1, SystemHolds, PTL

(* Once a client can read "cancelled", no attempt on a device is cleared:  *)
(* the flag is set before the status, nothing clears it afterwards, and    *)
(* every attempt looks at it first.                                        *)
THEOREM CancelIsObeyed ==
    ASSUME OneSteers
    PROVE  SystemSpec => CancelStopsDevices
  <1>1. SystemInv /\ [SystemNext]_systemVars =>
            [status[TheJob] = "cancelled" => \A i \in Slots : ~Clears(i)]_systemVars
    <2> SUFFICES ASSUME SystemInv, [SystemNext]_systemVars, status[TheJob] = "cancelled",
                        NEW i \in Slots, Clears(i)
                 PROVE  FALSE
      OBVIOUS
    <2>1. cancel[TheJob] /\ Run!EngineInv
      BY DEF SystemInv, Link, JobLink
    <2>2. i \in Run!Slots
      BY SameHelpers DEF Slots
    <2>3. stage[i] # "cleared" /\ stage'[i] = "cleared"
      BY DEF Clears
    <2>4. CASE [Run!Next]_(Run!vars)
      BY <2>1, <2>2, <2>3, <2>4, Payload, Run!ClearedSawNoCancel DEF Run!EngineInv
    <2>5. CASE UNCHANGED Run!pool
      BY <2>3, <2>5 DEF Run!pool
    <2> QED BY <2>4, <2>5, RunStep
  <1> QED BY <1>1, SystemHolds, PTL DEF CancelStopsDevices, SystemSpec

(* While a client reads "paused" and has no control request under way, the *)
(* scheduling loop does not get past the pause spin.                       *)
THEOREM PauseIsObeyed ==
    ASSUME OneSteers
    PROVE  SystemSpec => PauseHolds
  <1>1. SystemInv /\ [SystemNext]_systemVars =>
            [status[TheJob] = "paused" /\ (\A t \in Thread : proc[t].kind # "control")
                => ~(pc = "gate" /\ pc' = "submit")]_systemVars
    <2> SUFFICES ASSUME SystemInv, [SystemNext]_systemVars, status[TheJob] = "paused",
                        \A t \in Thread : proc[t].kind # "control", pc = "gate", pc' = "submit"
                 PROVE  FALSE
      OBVIOUS
    <2>1. ~Resuming
      BY Processes DEF SystemInv, Link, CallLink, HandInv, Resuming, Closing
    <2>2. pause[TheJob] \/ cancel[TheJob]
      BY <2>1 DEF SystemInv, Link, JobLink
    <2>3. Engine!Gate
      BY DEF SystemNext, Handle, RunJob, EngineStep, EngineHandsOver, EngineThrows, PoolStep,
         engineVars, systemVars, Engine!Attempt, Engine!StartAttempt, Engine!CallWorker, Engine!FinishAttempt,
         Engine!Orchestrate, Engine!Begin, Engine!BeginCancelled, Engine!BeginRejected,
         Engine!BeginCanary, Engine!CanaryResult, Engine!CanaryRaises, Engine!Submit,
         Engine!SubmitEnds, Engine!Await, Engine!Collect, Engine!Shutdown, Engine!Finish
    <2> QED BY <2>2, <2>3 DEF Engine!Gate, Engine!HeldByPause
  <1> QED BY <1>1, SystemHolds, PTL DEF PauseHolds, SystemSpec

-----------------------------------------------------------------------------
(* The refinement.  What the service sees of a process is that process,    *)
(* unless it is inside a run_job that has concluded "cancelled".           *)

seen == [x \in Proc |-> SeenByService(x)]
Hidden(x) == At(x, "engine") /\ announced = "cancelled"

(* What is seen of a process names its job and its kind.                   *)
LEMMA SeenFacts ==
    ASSUME IInv
    PROVE  /\ \A x \in Proc : ~Hidden(x) => seen[x] = proc[x]
           /\ \A x \in Proc : Hidden(x) => seen[x] = [proc[x] EXCEPT !.at = "drain", !.next = "cancelled"]
           /\ \A x \in Proc : seen[x].kind = proc[x].kind /\ seen[x].job = proc[x].job
           /\ DOMAIN seen = Proc
           /\ Service!Reserved = Reserved
  <1>1. \A x \in Proc : ~Hidden(x) => seen[x] = proc[x]
    BY DEF seen, SeenByService, Hidden
  <1>2. \A x \in Proc : Hidden(x) => seen[x] = [proc[x] EXCEPT !.at = "drain", !.next = "cancelled"]
    BY DEF seen, SeenByService, Hidden
  <1>3. \A x \in Proc : seen[x].kind = proc[x].kind /\ seen[x].job = proc[x].job
    <2> SUFFICES ASSUME NEW x \in Proc PROVE seen[x].kind = proc[x].kind /\ seen[x].job = proc[x].job
      OBVIOUS
    <2>1. proc[x] \in Call
      BY DEF IInv
    <2> QED BY <1>1, <1>2, <2>1 DEF Call
  <1>4. DOMAIN seen = Proc
    BY DEF seen
  <1>5. Service!Reserved = Reserved
    <2>1. Service!Reserved = {seen[x].job : x \in {y \in Thread : seen[y].kind = "create"}}
      BY DEF Service!Reserved, Service!JobOf, seen
    <2>2. Reserved = {proc[x].job : x \in {y \in Thread : proc[y].kind = "create"}}
      BY DEF Reserved, JobOf
    <2>3. {y \in Thread : seen[y].kind = "create"} = {y \in Thread : proc[y].kind = "create"}
      BY <1>3, Processes
    <2> QED BY <1>3, <2>1, <2>2, <2>3, Processes
  <1> QED BY <1>1, <1>2, <1>3, <1>4, <1>5

(* A step of one process, in sight of the service before and after it.     *)
LEMMA SeenMove ==
    ASSUME IInv, IInv', NEW x \in Proc, announced' = announced,
           \A y \in Proc \ {x} : proc'[y] = proc[y],
           ~Hidden(x), ~Hidden(x)'
    PROVE  seen[x] = proc[x] /\ seen' = [seen EXCEPT ![x] = proc'[x]]
  <1>1. \A y \in Proc \ {x} : seen'[y] = seen[y]
    BY DEF seen, SeenByService, At
  <1>2. seen[x] = proc[x] /\ seen'[x] = proc'[x]
    BY DEF seen, SeenByService, Hidden
  <1>3. DOMAIN seen = Proc /\ DOMAIN seen' = Proc
    BY DEF seen
  <1>4. seen = [y \in Proc |-> seen[y]] /\ seen' = [y \in Proc |-> seen'[y]]
    BY DEF seen
  <1> QED BY <1>1, <1>2, <1>4

(* The step is what RunService says when its process is seen to make it.   *)
LEMMA SeenGoto ==
    ASSUME NEW x \in Proc, seen[x] = proc[x], seen' = [seen EXCEPT ![x] = proc'[x]],
           proc \in [Proc -> Call]
    PROVE  /\ \A l : Goto(x, l) => Service!Goto(x, l)
           /\ Done(x) => Service!Done(x)
           /\ Leave(x) => Service!Leave(x)
           /\ \A l : Service!At(x, l) <=> At(x, l)
           /\ Service!JobOf(x) = JobOf(x)
  <1>1. ASSUME NEW l, Goto(x, l) PROVE Service!Goto(x, l)
    BY <1>1 DEF Goto, Service!Goto, seen
  <1>2. Done(x) => Service!Done(x)
    BY DEF Done, Service!Done, Idle, Service!Idle, seen
  <1>3. \A l : Service!At(x, l) <=> At(x, l)
    BY DEF At, Service!At, seen
  <1>4. Service!JobOf(x) = JobOf(x)
    BY DEF JobOf, Service!JobOf, seen
  <1> QED BY <1>1, <1>2, <1>3, <1>4 DEF Leave, Service!Leave

(* A request is taken on as in RunService.                                 *)
LEMMA SeenArrival ==
    ASSUME OneSteers, SystemInv, SystemInv', NEW t \in Thread, Arrive(t), UNCHANGED engineVars
    PROVE  Service!Arrive(t)
  <1>0. IInv /\ IInv' /\ t \in Proc /\ announced' = announced /\ Requests \cap {"event", "reset"} = {}
    BY Processes DEF SystemInv, ServiceInv, engineVars, OneSteers
  <1>1. CreateCheck(t) \/ ControlAction(t) \/ RunRequest(t)
    BY <1>0 DEF Arrive, RawEvent, ResetCheck
  <1>2. proc'[t].at \in {"create", "lookup"} /\ At(t, "idle") /\ \A y \in Proc \ {t} : proc'[y] = proc[y]
    <2>1. CASE CreateCheck(t)
      BY <1>0, <2>1 DEF IInv, CreateCheck, Idle
    <2>2. CASE ControlAction(t)
      BY <1>0, <2>2 DEF IInv, ControlAction, Idle
    <2>3. CASE RunRequest(t)
      BY <1>0, <2>3 DEF IInv, RunRequest, Idle
    <2> QED BY <1>1, <2>1, <2>2, <2>3
  <1>3. proc'[t].at # "engine"
    BY <1>2
  <1>4. ~Hidden(t) /\ ~Hidden(t)'
    BY <1>2, <1>3 DEF Hidden, At
  <1>5. seen[t] = proc[t] /\ seen' = [seen EXCEPT ![t] = proc'[t]]
    BY <1>0, <1>2, <1>4, SeenMove
  <1>6. Service!At(t, "idle")
    BY <1>0, <1>2, <1>5, SeenGoto DEF IInv
  <1>7. proc \in [Proc -> Call] /\ \A d : proc' = [proc EXCEPT ![t] = d] => seen' = [seen EXCEPT ![t] = d]
    BY <1>0, <1>5 DEF IInv
  <1>8. CASE CreateCheck(t)
    <2>1. PICK j \in Job \ Reserved :
            status[j] = "unborn" /\ proc' = [proc EXCEPT ![t] = [Idle EXCEPT !.at = "create", !.job = j, !.kind = "create"]]
      BY <1>8 DEF CreateCheck
    <2>2. j \in Job \ Service!Reserved
      BY <1>0, <2>1, SeenFacts
    <2>3. seen' = [seen EXCEPT ![t] = [Idle EXCEPT !.at = "create", !.job = j, !.kind = "create"]]
      BY <1>7, <2>1
    <2>4. ~\E i \in Job : Service!BlocksCreate(i)
      BY <1>8 DEF CreateCheck, BlocksCreate, Service!BlocksCreate, Active, Service!Active,
         ActiveStatus, Service!ActiveStatus
    <2>5. "create" \in Requests /\ UNCHANGED <<stores, flags>>
      BY <1>8 DEF CreateCheck
    <2>6. \E i \in Job \ Service!Reserved :
            /\ status[i] = "unborn"
            /\ seen' = [seen EXCEPT ![t] = [Idle EXCEPT !.at = "create", !.job = i, !.kind = "create"]]
      BY <2>1, <2>2, <2>3
    <2>7. Service!CreateCheck(t)
      BY <1>6, <2>4, <2>5, <2>6 DEF Service!CreateCheck, Idle, Service!Idle, stores, Service!stores,
         flags, Service!flags, seen
    <2> QED BY <2>7 DEF Service!Arrive
  <1>9. CASE ControlAction(t)
    <2>1. PICK e \in {"pause", "resume", "cancel"} \cap Requests, j \in stored \cap ctl :
            /\ SetFlags(j, e)
            /\ proc' = [proc EXCEPT ![t] = [Idle EXCEPT !.at = "lookup", !.job = j, !.kind = "control", !.event = e]]
      BY <1>9 DEF ControlAction
    <2>2. seen' = [seen EXCEPT ![t] = [Idle EXCEPT !.at = "lookup", !.job = j, !.kind = "control", !.event = e]]
      BY <1>7, <2>1
    <2>3. Service!ControlAction(t)
      BY <1>6, <1>9, <2>1, <2>2 DEF ControlAction, Service!ControlAction, SetFlags, Service!SetFlags,
         Idle, Service!Idle, stores, Service!stores, seen
    <2> QED BY <2>3 DEF Service!Arrive
  <1>10. CASE RunRequest(t)
    <2>1. PICK k \in {"run", "run_async"} \cap Requests, j \in stored :
            proc' = [proc EXCEPT ![t] = [Idle EXCEPT !.at = "lookup", !.job = j, !.kind = k, !.event = "start"]]
      BY <1>10 DEF RunRequest
    <2>2. seen' = [seen EXCEPT ![t] = [Idle EXCEPT !.at = "lookup", !.job = j, !.kind = k, !.event = "start"]]
      BY <1>7, <2>1
    <2>3. Service!RunRequest(t)
      BY <1>6, <1>10, <2>1, <2>2 DEF RunRequest, Service!RunRequest,
         Idle, Service!Idle, stores, Service!stores, flags, Service!flags, seen
    <2> QED BY <2>3 DEF Service!Arrive
  <1> QED BY <1>1, <1>8, <1>9, <1>10

(* The service looks transitions up in the table of this module.           *)
LEMMA SameTable ==
    /\ \A s, e : Service!CanTransition(s, e) <=> CanTransition(s, e)
    /\ \A s, e : Service!NextStatus(s, e) = NextStatus(s, e)
  BY DEF Service!CanTransition, CanTransition, Service!NextStatus, NextStatus,
         Service!Transitions, Transitions

(* A handler's or a run thread's step outside run_job is that of RunService. *)
LEMMA SeenAdvance ==
    ASSUME OneSteers, SystemInv, SystemInv', NEW x \in Proc, Advance(x), UNCHANGED engineVars,
           ~Spawn(x), ~Hidden(x)
    PROVE  Service!Advance(x)
  <1>0. IInv /\ IInv' /\ announced' = announced /\ proc \in [Proc -> Call] /\ HandInv(x)
    BY DEF SystemInv, ServiceInv, IInv, engineVars, Link, CallLink
  <1>1. \A y \in Proc \ {x} : proc'[y] = proc[y]
    BY <1>0, GotoFacts, DoneFacts DEF Advance, CreateSave, StartRun, RunControl, ClearFlags, Reset,
       ResetJobs, ResetResults, ResetControls, ApplyEvent, LookupEvent, RefuseEvent, CommitEvent,
       SaveRecord, Execute, ExecuteBegin, EngineDrained, SaveSummary, ThreadExits, Leave
  <1>2. ~Hidden(x)'
    <2>1. CASE ExecuteBegin(x)
      <3>1. pc = "begin" /\ Run!EngineInv
        BY <2>1 DEF ExecuteBegin, At, SystemInv, Link, CallLink, StartInv, Starting
      <3>2. announced = "none"
        BY <3>1, Payload, Run!VerdictMeans
      <3> QED BY <1>0, <3>2 DEF Hidden
    <2>2. CASE ~ExecuteBegin(x)
      <3>1. proc'[x].at # "engine"
        BY <1>0, <2>2, GotoFacts, DoneFacts DEF Advance, CreateSave, StartRun, RunControl, ClearFlags, Reset,
           ResetJobs, ResetResults, ResetControls, ApplyEvent, LookupEvent, RefuseEvent, CommitEvent,
           SaveRecord, Execute, EngineDrained, SaveSummary, ThreadExits, Leave, Idle, Call
      <3> QED BY <3>1 DEF Hidden, At
    <2> QED BY <2>1, <2>2
  <1>3. seen[x] = proc[x] /\ seen' = [seen EXCEPT ![x] = proc'[x]]
    BY <1>0, <1>1, <1>2, SeenMove
  <1>4. /\ \A l : Goto(x, l) => Service!Goto(x, l)
        /\ Done(x) => Service!Done(x)
        /\ Leave(x) => Service!Leave(x)
        /\ \A l : Service!At(x, l) <=> At(x, l)
        /\ Service!JobOf(x) = JobOf(x)
    BY <1>0, <1>3, SeenGoto
  <1>5. /\ UNCHANGED stores => UNCHANGED Service!stores
        /\ UNCHANGED flags => UNCHANGED Service!flags
        /\ \A j : GetOrCreate(j) => Service!GetOrCreate(j)
    BY DEF stores, Service!stores, flags, Service!flags, GetOrCreate, Service!GetOrCreate
  <1>6. CASE CreateSave(x) /\ x \in Thread
    BY <1>4, <1>5, <1>6 DEF CreateSave, Service!CreateSave, Service!Advance, flags, Service!flags
  <1>7. CASE (RunControl(x) \/ ClearFlags(x)) /\ x \in Thread
    <2>1. RunControl(x) => Service!RunControl(x)
      BY <1>4, <1>5 DEF RunControl, Service!RunControl
    <2>2. ASSUME ClearFlags(x) PROVE Service!ClearFlags(x)
      <3>1. Service!Goto(x, IF proc[x].kind = "run" THEN "execute" ELSE "spawn")
        BY <1>4, <2>2 DEF ClearFlags
      <3>2. proc[x].kind = seen[x].kind
        BY <1>3
      <3> QED BY <1>4, <1>5, <2>2, <3>1, <3>2 DEF ClearFlags, Service!ClearFlags, seen
    <2> QED BY <1>7, <2>1, <2>2 DEF Service!Advance, Service!StartRun
  <1>8. CASE ApplyEvent(x)
    <2>0. proc[x].event = seen[x].event /\ proc[x].kind = seen[x].kind /\ proc[x].next = seen[x].next
      BY <1>3
    <2>1. ASSUME LookupEvent(x) PROVE Service!LookupEvent(x)
      <3>1. seen' = [seen EXCEPT ![x].at = "commit", ![x].next = NextStatus(status[JobOf(x)], seen[x].event)]
        BY <1>0, <1>3, <2>0, <2>1, SeenFacts DEF LookupEvent
      <3> QED BY <1>4, <1>5, <2>0, <2>1, <3>1, SameTable DEF LookupEvent, Service!LookupEvent, seen
    <2>2. RefuseEvent(x) => Service!RefuseEvent(x)
      BY <1>4, <1>5, <2>0, SameTable DEF RefuseEvent, Service!RefuseEvent, seen
    <2>3. CommitEvent(x) => Service!CommitEvent(x)
      BY <1>4, <1>5, <2>0 DEF CommitEvent, Service!CommitEvent, seen
    <2>4. SaveRecord(x) => Service!SaveRecord(x)
      BY <1>4, <1>5, <2>0 DEF SaveRecord, Service!SaveRecord, seen
    <2> QED BY <1>8, <2>1, <2>2, <2>3, <2>4 DEF ApplyEvent, Service!ApplyEvent, Service!Advance
  <1>9. CASE Execute(x)
    <2>1. ExecuteBegin(x) => Service!ExecuteBegin(x)
      BY <1>4, <1>5 DEF ExecuteBegin, Service!ExecuteBegin
    <2>2. ~EngineDrained(x)
      BY <1>0 DEF HandInv, EngineDrained, At
    <2>3. ASSUME SaveSummary(x) PROVE Service!SaveSummary(x)
      <3>1. seen' = [seen EXCEPT ![x].at = "lookup", ![x].event = EventOf(seen[x].next)]
        BY <1>0, <1>3, <2>3, SeenFacts DEF SaveSummary
      <3>2. seen[x].next = proc[x].next
        BY <1>3
      <3> QED BY <1>4, <1>5, <2>3, <3>1, <3>2 DEF SaveSummary, Service!SaveSummary, EventOf, Service!EventOf, seen
    <2> QED BY <1>9, <2>1, <2>2, <2>3 DEF Execute, Service!Execute, Service!Advance
  <1>10. CASE x \in Job /\ ThreadExits(x)
    BY <1>4, <1>5, <1>10 DEF ThreadExits, Service!ThreadExits, Service!Advance
  <1>11. ~Reset(x)
    BY <1>0 DEF HandInv, Reset, ResetJobs, ResetResults, ResetControls, At
  <1> QED BY <1>6, <1>7, <1>8, <1>9, <1>10, <1>11 DEF Advance, StartRun

(* The run thread is started as in RunService.                             *)
LEMMA SeenSpawn ==
    ASSUME OneSteers, SystemInv, SystemInv', NEW t \in Thread, Spawn(t), UNCHANGED engineVars
    PROVE  Service!Spawn(t)
  <1>0. /\ IInv /\ IInv' /\ announced' = announced /\ proc \in [Proc -> Call]
        /\ t \in Proc /\ At(t, "spawn") /\ JobOf(t) = TheJob /\ TheJob \in Proc /\ t # TheJob
    BY Processes, JobFacts DEF SystemInv, ServiceInv, IInv, engineVars, Spawn, At, Nowhere
  <1>1. ~Hidden(t) /\ seen[t] = proc[t]
    BY <1>0, SeenFacts DEF Hidden, At
  <1>2. Service!At(t, "spawn") /\ Service!JobOf(t) = TheJob
    BY <1>0, <1>1 DEF Service!At, Service!JobOf, seen, At, JobOf
  <1>3. Service!At(TheJob, "idle") <=> At(TheJob, "idle")
    <2>1. CASE Hidden(TheJob)
      <3>1. seen[TheJob].at = "drain"
        BY <1>0, <2>1, SeenFacts DEF Call
      <3> QED BY <2>1, <3>1 DEF Hidden, At, Service!At, seen
    <2>2. CASE ~Hidden(TheJob)
      BY <1>0, <2>2, SeenFacts DEF At, Service!At, seen
    <2> QED BY <2>1, <2>2
  <1>4. CASE At(TheJob, "idle")
    <2> DEFINE c == [Idle EXCEPT !.at = "execute", !.job = TheJob, !.kind = "thread"]
    <2>1. proc' = [proc EXCEPT ![t] = Idle, ![TheJob] = c]
      BY <1>0, <1>4 DEF Spawn
    <2>2. /\ proc'[t] = Idle /\ proc'[TheJob] = c
          /\ \A y \in Proc \ {t, TheJob} : proc'[y] = proc[y]
      BY <1>0, <2>1
    <2>3. Idle.at # "engine" /\ c.at # "engine"
      BY DEF Idle
    <2> HIDE DEF c
    <2>4. seen'[t] = Idle /\ seen'[TheJob] = c
      BY <1>0, <2>2, <2>3 DEF seen, SeenByService, At
    <2>5. \A y \in Proc \ {t, TheJob} : seen'[y] = seen[y]
      BY <1>0, <2>2 DEF seen, SeenByService, At
    <2>6. seen = [y \in Proc |-> seen[y]] /\ seen' = [y \in Proc |-> seen'[y]]
      BY DEF seen
    <2>7. seen' = [seen EXCEPT ![t] = Idle, ![TheJob] = c]
      BY <1>0, <2>4, <2>5, <2>6
    <2>8. UNCHANGED <<stores, flags>>
      BY DEF Spawn
    <2> QED BY <1>2, <1>3, <1>4, <2>7, <2>8 DEF Service!Spawn, Idle, Service!Idle, stores, Service!stores,
               flags, Service!flags, seen, c
  <1>5. CASE ~At(TheJob, "idle")
    <2>1. Done(t) /\ UNCHANGED <<stores, flags>>
      BY <1>0, <1>5 DEF Spawn
    <2>2. proc'[t] = Idle /\ \A y \in Proc \ {t} : proc'[y] = proc[y]
      BY <1>0, <2>1, DoneFacts
    <2>3. ~Hidden(t)'
      BY <2>2 DEF Hidden, At, Idle
    <2>4. seen' = [seen EXCEPT ![t] = proc'[t]]
      BY <1>0, <1>1, <2>2, <2>3, SeenMove
    <2>5. Service!Done(t)
      BY <1>0, <1>1, <2>1, <2>4, SeenGoto
    <2> QED BY <1>2, <1>3, <1>5, <2>1, <2>5 DEF Service!Spawn, stores, Service!stores, flags, Service!flags
  <1> QED BY <1>4, <1>5

(* One process at most is inside run_job.                                  *)
LEMMA OneInside ==
    ASSUME OneClient, ServiceInv, NEW x \in Proc, At(x, "engine"), NEW y \in Proc, At(y, "engine")
    PROVE  x = y
  <1>1. ASSUME NEW t \in Thread, At(t, "engine"), At(TheJob, "engine") PROVE FALSE
    <2>1. JobOf(t) = TheJob /\ At(JobOf(t), "idle")
      BY <1>1, JobFacts, Processes DEF ServiceInv, RunnerInv, At, Nowhere
    <2> QED BY <1>1, <2>1 DEF At
  <1> QED BY <1>1, JobFacts DEF OneClient

(* run_job announces "cancelled" only to a job whose cancel flag is set.   *)
LEMMA CancelKnown == Run!EngineInv => (announced = "cancelled" => cancel[TheJob])
  BY Payload, Run!VerdictMeans

(* run_job and its pool: the service sees at most that it was cancelled.   *)
LEMMA SeenEngine ==
    ASSUME OneSteers, EngineEnds = EngineEnd, SystemInv, SystemInv', UNCHANGED vars,
           (\E x \in Proc : EngineStep(x)) \/ PoolStep \/ UNCHANGED engineVars
    PROVE  [Service!Next]_(Service!vars)
  <1>0. /\ IInv /\ proc \in [Proc -> Call] /\ Run!EngineInv /\ Run!EngineInv' /\ UNCHANGED <<stores, flags, proc>>
        /\ ServiceInv /\ OneClient
    BY DEF SystemInv, ServiceInv, IInv, vars, OneSteers
  <1>1. CASE announced' = announced
    <2>1. seen' = seen
      BY <1>0, <1>1 DEF seen, SeenByService, At
    <2> QED BY <1>0, <2>1 DEF Service!vars, Service!stores, stores, Service!flags, flags, seen
  <1>2. CASE announced' # announced
    <2>1. PICK x \in Proc : EngineStep(x)
      BY <1>2 DEF PoolStep, Engine!Attempt, Engine!StartAttempt, Engine!CallWorker, Engine!FinishAttempt, Engine!book, engineVars
    <2>2. Run!Next
      BY <2>1, SameEngine DEF EngineStep, Run!Next
    <2>3. verdict = "running" /\ announced # "cancelled"
      BY <1>0, <1>2, <2>2, Payload, Run!VerdictStays, Run!VerdictMeans DEF Run!EngineInv
    <2>4. seen = proc
      <3>1. \A y \in Proc : seen[y] = proc[y]
        BY <1>0, <2>3, SeenFacts DEF Hidden
      <3>2. seen = [y \in Proc |-> seen[y]]
        BY DEF seen
      <3> QED BY <1>0, <3>1, <3>2
    <2>5. At(x, "engine")
      BY <2>1 DEF EngineStep
    <2>6. CASE announced' # "cancelled"
      <3>1. seen' = seen
        BY <1>0, <2>3, <2>6 DEF seen, SeenByService, At
      <3> QED BY <1>0, <3>1 DEF Service!vars, Service!stores, stores, Service!flags, flags, seen
    <2>7. CASE announced' = "cancelled"
      <3>1. cancel[JobOf(x)]
        <4>1. (cancel[TheJob])'
          <5>1. (announced = "cancelled" => cancel[TheJob])'
            BY <1>0, CancelKnown, PTL
          <5> QED BY <2>7, <5>1
        <4>2. JobOf(x) = TheJob
          BY <1>0, <2>5, JobFacts DEF At, Nowhere
        <4> QED BY <1>0, <4>1, <4>2 DEF flags
      <3>2. \A y \in Proc \ {x} : seen'[y] = proc[y]
        BY <1>0, <2>5, OneInside DEF seen, SeenByService, At
      <3>3. seen'[x] = [proc[x] EXCEPT !.at = "drain", !.next = "cancelled"]
        BY <1>0, <2>5, <2>7 DEF seen, SeenByService, At
      <3>4. seen' = [y \in Proc |-> seen'[y]]
        BY DEF seen
      <3>5. seen' = [seen EXCEPT ![x].at = "drain", ![x].next = "cancelled"]
        BY <1>0, <2>4, <3>2, <3>3, <3>4
      <3>6. Service!At(x, "engine") /\ Service!JobOf(x) = JobOf(x)
        BY <2>4, <2>5 DEF Service!At, At, Service!JobOf, JobOf, seen
      <3>7. Service!EngineCancelled(x)
        BY <1>0, <3>1, <3>5, <3>6 DEF Service!EngineCancelled, EngineEnd, Service!stores, stores, Service!flags, flags, seen
      <3> QED BY <3>7 DEF Service!Next, Service!RunEngine, Proc, Service!Proc
    <2> QED BY <2>6, <2>7
  <1> QED BY <1>1, <1>2

(* The verdict that run_job hands over is one that RunService allows.      *)
LEMMA SeenHandOver ==
    ASSUME OneSteers, EngineEnds = EngineEnd, SystemInv, SystemInv', NEW x \in Proc,
           EngineHandsOver(x) \/ EngineThrows(x)
    PROVE  Service!Next
  <1>0. /\ IInv /\ IInv' /\ proc \in [Proc -> Call] /\ Run!EngineInv /\ At(x, "engine")
        /\ UNCHANGED <<stores, flags>> /\ announced' = announced
    BY DEF SystemInv, ServiceInv, IInv, EngineHandsOver, EngineThrows, engineVars
  <1>1. \A y \in Proc \ {x} : proc'[y] = proc[y]
    BY <1>0, GotoFacts, DoneFacts DEF EngineHandsOver, EngineThrows, Leave
  <1>2. ~Hidden(x)'
    BY <1>0, GotoFacts, DoneFacts DEF EngineHandsOver, EngineThrows, Leave, Hidden, At, Idle, Call
  <1>3. CASE EngineThrows(x)
    <2>1. announced # "cancelled"
      BY <1>0, <1>3, Payload, Run!VerdictMeans DEF EngineThrows, Run!EngineInv, Run!IInv, Run!VerdictInv
    <2>2. seen[x] = proc[x] /\ seen' = [seen EXCEPT ![x] = proc'[x]]
      BY <1>0, <1>1, <1>2, <2>1, SeenMove DEF Hidden
    <2>3. Service!At(x, "engine") /\ Service!Leave(x)
      BY <1>0, <1>3, <2>2, SeenGoto DEF EngineThrows
    <2>4. Service!EngineRaises(x)
      BY <1>0, <2>3 DEF Service!EngineRaises, EngineEnd, Service!stores, stores, Service!flags, flags
    <2> QED BY <2>4 DEF Service!Next, Service!RunEngine, Proc, Service!Proc
  <1>4. CASE EngineHandsOver(x) /\ announced # "cancelled"
    <2>1. verdict \in {"completed", "failed"}
      BY <1>0, <1>4, VerdictFacts, Payload, Run!VerdictMeans DEF EngineHandsOver, SystemInv, Terminal
    <2>2. seen[x] = proc[x] /\ seen' = [seen EXCEPT ![x] = proc'[x]]
      BY <1>0, <1>1, <1>2, <1>4, SeenMove DEF Hidden
    <2>3. proc'[x] = [proc[x] EXCEPT !.at = "save", !.next = verdict]
      BY <1>0, <1>4 DEF EngineHandsOver
    <2>4. seen' = [seen EXCEPT ![x].at = "save", ![x].next = verdict]
      BY <1>0, <2>2, <2>3, SeenFacts
    <2>5. Service!At(x, "engine")
      BY <1>0, <2>2, SeenGoto
    <2>6. Service!EngineReturns(x)
      BY <1>0, <2>1, <2>4, <2>5 DEF Service!EngineReturns, EngineEnd, Service!stores, stores, Service!flags, flags, seen
    <2> QED BY <2>6 DEF Service!Next, Service!RunEngine, Proc, Service!Proc
  <1>5. CASE EngineHandsOver(x) /\ announced = "cancelled"
    <2>1. verdict = "cancelled"
      BY <1>0, <1>5, Payload, Run!VerdictMeans
    <2>2. seen[x] = [proc[x] EXCEPT !.at = "drain", !.next = "cancelled"]
      BY <1>0, <1>5, SeenFacts DEF Hidden
    <2>3. seen'[x] = [proc[x] EXCEPT !.at = "save", !.next = "cancelled"]
      BY <1>0, <1>2, <1>5, <2>1 DEF EngineHandsOver, seen, SeenByService, Hidden
    <2>4. seen'[x] = [seen[x] EXCEPT !.at = "save"]
      BY <1>0, <2>2, <2>3 DEF Call
    <2>5. \A y \in Proc \ {x} : seen'[y] = seen[y]
      BY <1>0, <1>1 DEF seen, SeenByService, At
    <2>6. seen = [y \in Proc |-> seen[y]] /\ seen' = [y \in Proc |-> seen'[y]]
      BY DEF seen
    <2>7. seen' = [seen EXCEPT ![x].at = "save"]
      BY <2>4, <2>5, <2>6
    <2>8. seen[x].at = "drain"
      BY <1>0, <2>2 DEF Call
    <2>9. Service!EngineDrained(x)
      BY <1>0, <2>7, <2>8 DEF Service!EngineDrained, Service!At, Service!Goto, Service!stores, stores,
         Service!flags, flags, seen
    <2> QED BY <2>9 DEF Service!Next, Service!Advance, Service!Execute, Proc, Service!Proc
  <1> QED BY <1>3, <1>4, <1>5

(* The system, engine and all, is a service as RunService describes it: in *)
(* particular no job is closed as cancelled without having been asked to.  *)
THEOREM SystemIsService ==
    ASSUME OneSteers, EngineEnds = EngineEnd
    PROVE  SystemSpec => ImplementsService
  <1>1. SystemInit => Service!Init
    <2> SUFFICES ASSUME SystemInit PROVE Service!Init
      OBVIOUS
    <2>1. \A x \in Proc : seen[x] = Idle
      BY DEF SystemInit, Init, seen, SeenByService, At, Idle
    <2>2. seen = [x \in Proc |-> seen[x]]
      BY DEF seen
    <2>3. seen = [x \in Proc |-> Idle]
      BY <2>1, <2>2
    <2> QED BY <2>3 DEF SystemInit, Init, Service!Init, Idle, Service!Idle, seen, Proc, Service!Proc
  <1>2. SystemInv /\ SystemInv' /\ [SystemNext]_systemVars => [Service!Next]_(Service!vars)
    <2> SUFFICES ASSUME SystemInv, SystemInv', [SystemNext]_systemVars PROVE [Service!Next]_(Service!vars)
      OBVIOUS
    <2>1. ASSUME NEW t \in Thread, Arrive(t), UNCHANGED engineVars PROVE Service!Next
      BY <2>1, SeenArrival DEF Service!Next
    <2>2. ASSUME NEW x \in Proc, Advance(x), UNCHANGED engineVars PROVE Service!Next
      <3>1. ~Hidden(x)
        BY <2>2 DEF Hidden, Advance, CreateSave, StartRun, RunControl, ClearFlags, Spawn, Reset,
           ResetJobs, ResetResults, ResetControls, ApplyEvent, LookupEvent, RefuseEvent, CommitEvent,
           SaveRecord, Execute, ExecuteBegin, EngineDrained, SaveSummary, ThreadExits, At
      <3>2. CASE x \in Thread /\ Spawn(x)
        <4>1. Service!Spawn(x)
          BY <2>2, <3>2, SeenSpawn
        <4> QED BY <3>2, <4>1 DEF Service!Next, Service!Advance, Service!StartRun, Proc, Service!Proc
      <3>3. CASE ~Spawn(x)
        <4>1. Service!Advance(x)
          BY <2>2, <3>1, <3>3, SeenAdvance
        <4> QED BY <4>1 DEF Service!Next, Proc, Service!Proc
      <3>4. CASE x \notin Thread
        <4>1. x = TheJob /\ CallInv
          BY <3>4, JobFacts DEF SystemInv, ServiceInv, IInv
        <4>2. ~Spawn(x)
          BY <3>4, <4>1 DEF CallInv, HandOK, Served, Spawn, At
        <4> QED BY <3>3, <4>2
      <3> QED BY <3>2, <3>3, <3>4
    <2>3. ASSUME NEW x \in Proc, EngineHandsOver(x) \/ EngineThrows(x) PROVE Service!Next
      BY <2>3, SeenHandOver
    <2>4. ASSUME (\E x \in Proc : EngineStep(x)) \/ PoolStep \/ UNCHANGED systemVars
          PROVE  [Service!Next]_(Service!vars)
      BY <2>4, SeenEngine DEF EngineStep, PoolStep, systemVars
    <2> QED BY <2>1, <2>2, <2>3, <2>4 DEF SystemNext, Handle, RunJob
  <1> QED BY <1>1, <1>2, SystemHolds, PTL DEF SystemSpec, ImplementsService, Service!Spec
=============================================================================
