----------------------------- MODULE RunService -----------------------------
(***************************************************************************)
(* The job and run handlers of the API over the in-memory stores.          *)
(*                                                                         *)
(* FastAPI serves every synchronous endpoint on a thread of a pool, and    *)
(* run/async adds one background thread per job, so handlers of several    *)
(* requests and the run threads interleave.  Each store locks every call   *)
(* of its own; nothing locks a handler.  A step is one store call together *)
(* with the thread-local work up to the next one.                          *)
(*                                                                         *)
(* A process is a request thread, or a job standing for its run thread in  *)
(* RunCoordinator.  proc[x].at names the next step of process x.  The      *)
(* engine is the environment here: RunSystem puts ExecutionEngine there.   *)
(*                                                                         *)
(* A job record is one object shared by everybody who fetched it: its      *)
(* status lives on when the store is cleared, and a late save puts the     *)
(* record back.  A client only names a job it was told of.                 *)
(***************************************************************************)
EXTENDS JobStateMachine, Integers, FiniteSets

CONSTANTS
    Job,         \* job ids that may be created; never reused
    Thread,      \* request threads: how many requests are served at once
    Requests,    \* endpoints the clients use
    EngineEnds   \* ways engine.run_job ends

Endpoints == {"create", "run", "run_async", "pause", "resume", "cancel",
              "event", "reset"}
EngineEnd == {"completed", "failed", "cancelled", "raised"}

ASSUME ProcessesDisjoint == Job \cap Thread = {}
ASSUME ThreadsAssumption == IsFiniteSet(Thread)
ASSUME RequestsAssumption == Requests \subseteq Endpoints
ASSUME EndsAssumption == EngineEnds \subseteq EngineEnd

VARIABLES
    status,     \* job -> status of its record, "unborn" before it is created
    stored,     \* jobs in InMemoryJobStore
    ctl,        \* jobs with an entry in InMemoryControlStore
    pause,      \* job -> control.pause_event
    cancel,     \* job -> control.cancel_event
    result,     \* job -> status of the summary in InMemoryRunStore, or "none"
    proc        \* process -> what it is doing

stores == <<status, stored, ctl, result>>
flags == <<pause, cancel>>
vars == <<stores, flags, proc>>

Proc == Thread \cup Job
Idle == [at |-> "idle", job |-> "none", kind |-> "none", event |-> "none", next |-> "none"]

\* proc' with x at label l, the rest of its state kept.
Goto(x, l) == proc' = [proc EXCEPT ![x].at = l]
Done(x) == proc' = [proc EXCEPT ![x] = Idle]

At(x, l) == proc[x].at = l
JobOf(x) == proc[x].job

\* Threads that hold a fresh id keep it from the others, as uuid4 does.
Reserved == {JobOf(x) : x \in {y \in Thread : proc[y].kind = "create"}}

Active(j) == status[j] \in ActiveStatus

Init ==
    /\ status = [j \in Job |-> "unborn"]
    /\ stored = {} /\ ctl = {}
    /\ pause = [j \in Job |-> FALSE] /\ cancel = [j \in Job |-> FALSE]
    /\ result = [j \in Job |-> "none"]
    /\ proc = [x \in Proc |-> Idle]

-----------------------------------------------------------------------------
(* POST /jobs: list the jobs, refuse if one is active, then save a new one. *)

BlocksCreate(j) == j \in stored /\ Active(j)

CreateCheck(t) ==
    /\ At(t, "idle") /\ "create" \in Requests
    /\ ~\E j \in Job : BlocksCreate(j)
    /\ \E j \in Job \ Reserved :
        /\ status[j] = "unborn"
        /\ proc' = [proc EXCEPT ![t] = [Idle EXCEPT !.at = "create", !.job = j, !.kind = "create"]]
    /\ UNCHANGED <<stores, flags>>

CreateSave(t) ==
    /\ At(t, "create")
    /\ status' = [status EXCEPT ![JobOf(t)] = "queued"]
    /\ stored' = stored \cup {JobOf(t)}
    /\ Done(t)
    /\ UNCHANGED <<ctl, result, flags>>

-----------------------------------------------------------------------------
(* JobService.apply_event, called by every handler below: fetch the record *)
(* and look the transition up, write the status, save the record.          *)

\* The run thread of a job is alive for a moment after its target is done.
Leave(x) == IF x \in Job THEN Goto(x, "exit") ELSE Done(x)

LookupEvent(x) ==
    /\ At(x, "lookup")
    /\ JobOf(x) \in stored
    /\ CanTransition(status[JobOf(x)], proc[x].event)
    /\ proc' = [proc EXCEPT ![x].at = "commit",
                            ![x].next = NextStatus(status[JobOf(x)], proc[x].event)]
    /\ UNCHANGED <<stores, flags>>

\* No such job, or no such transition: 404, 409 or 400 to a client; after a
\* run the ValueError is swallowed and the LookupError is not, the run thread
\* ends either way.
RefuseEvent(x) ==
    /\ At(x, "lookup")
    /\ JobOf(x) \notin stored \/ ~CanTransition(status[JobOf(x)], proc[x].event)
    /\ Leave(x)
    /\ UNCHANGED <<stores, flags>>

\* The record is shared: its new status is seen before it is saved.
CommitEvent(x) ==
    /\ At(x, "commit")
    /\ status' = [status EXCEPT ![JobOf(x)] = proc[x].next]
    /\ Goto(x, "record")
    /\ UNCHANGED <<stored, ctl, result, flags>>

SaveRecord(x) ==
    /\ At(x, "record")
    /\ stored' = stored \cup {JobOf(x)}
    /\ IF proc[x].kind \in {"run", "run_async"} /\ proc[x].event = "start"
       THEN Goto(x, "control") ELSE Leave(x)
    /\ UNCHANGED <<status, ctl, result, flags>>

Known(j) == status[j] # "unborn"

\* POST /jobs/{id}/events/{name}: the bare transition.
RawEvent(t) ==
    /\ At(t, "idle") /\ "event" \in Requests
    /\ \E j \in Job, e \in Event :
        /\ Known(j)
        /\ proc' = [proc EXCEPT ![t] = [Idle EXCEPT !.at = "lookup", !.job = j,
                                                    !.kind = "event", !.event = e]]
    /\ UNCHANGED <<stores, flags>>

-----------------------------------------------------------------------------
(* POST /jobs/{id}/pause, /resume, /cancel (and /terminate).               *)

\* Mutant: a cancel is a lifecycle event and nothing else.
CancelKeepsFlags(j, e) ==
    /\ pause' = [pause EXCEPT ![j] = IF e = "cancel" THEN @ ELSE e = "pause"]
    /\ UNCHANGED cancel

\* Mutant: request_pause flips the flag, so a second pause lets the run go on.
PauseFlips(j, e) ==
    /\ pause' = [pause EXCEPT ![j] = (e = "pause" /\ ~@)]
    /\ cancel' = [cancel EXCEPT ![j] = @ \/ e = "cancel"]

\* request_pause, request_resume, request_cancel
SetFlags(j, e) ==
    /\ pause' = [pause EXCEPT ![j] = (e = "pause")]
    /\ cancel' = [cancel EXCEPT ![j] = @ \/ e = "cancel"]

\* The job and its control are looked up and the flags changed; whether the
\* job may make the transition is found out afterwards.
ControlAction(t) ==
    /\ At(t, "idle")
    /\ \E e \in {"pause", "resume", "cancel"} \cap Requests :
        \E j \in stored \cap ctl :
            /\ SetFlags(j, e)
            /\ proc' = [proc EXCEPT ![t] = [Idle EXCEPT !.at = "lookup", !.job = j,
                                                        !.kind = "control", !.event = e]]
    /\ UNCHANGED stores

-----------------------------------------------------------------------------
(* POST /jobs/{id}/run and /run/async.                                     *)

\* Mutant: the run goes on without the "start" transition.
RunRequestUnguarded(t) ==
    /\ At(t, "idle")
    /\ \E k \in {"run", "run_async"} \cap Requests, j \in stored :
        proc' = [proc EXCEPT ![t] = [Idle EXCEPT !.at = "control", !.job = j,
                                                 !.kind = k, !.event = "start"]]
    /\ UNCHANGED <<stores, flags>>

\* prepare_run accepted the payload; reset_run_control begins with "start".
RunRequest(t) ==
    /\ At(t, "idle")
    /\ \E k \in {"run", "run_async"} \cap Requests, j \in stored :
        proc' = [proc EXCEPT ![t] = [Idle EXCEPT !.at = "lookup", !.job = j,
                                                 !.kind = k, !.event = "start"]]
    /\ UNCHANGED <<stores, flags>>

\* control_store.get_or_create: a new control has both flags clear.
GetOrCreate(j) ==
    /\ ctl' = ctl \cup {j}
    /\ IF j \in ctl THEN UNCHANGED flags
       ELSE /\ pause' = [pause EXCEPT ![j] = FALSE]
            /\ cancel' = [cancel EXCEPT ![j] = FALSE]

RunControl(t) ==
    /\ At(t, "control")
    /\ GetOrCreate(JobOf(t))
    /\ Goto(t, "clear")
    /\ UNCHANGED <<status, stored, result>>

\* The stale flags are cleared.
ClearFlags(t) ==
    /\ At(t, "clear")
    /\ pause' = [pause EXCEPT ![JobOf(t)] = FALSE]
    /\ cancel' = [cancel EXCEPT ![JobOf(t)] = FALSE]
    /\ Goto(t, IF proc[t].kind = "run" THEN "execute" ELSE "spawn")
    /\ UNCHANGED stores

\* RunCoordinator.start: a live thread of the job refuses another one (409).
Spawn(t) ==
    /\ At(t, "spawn")
    /\ LET j == JobOf(t) IN
        IF At(j, "idle")
        THEN proc' = [proc EXCEPT ![t] = Idle,
                                  ![j] = [Idle EXCEPT !.at = "execute", !.job = j, !.kind = "thread"]]
        ELSE Done(t)
    /\ UNCHANGED <<stores, flags>>

-----------------------------------------------------------------------------
(* execute_prepared_run: on the run thread of the job, or on the request    *)
(* thread of a synchronous run.                                            *)

ExecuteBegin(x) ==
    /\ At(x, "execute")
    /\ GetOrCreate(JobOf(x))
    /\ Goto(x, "engine")
    /\ UNCHANGED <<status, stored, result>>

\* run_job ends with a verdict on the devices.  The pause flag does not rule
\* this out (the canary and the devices in flight run to their end), nor does
\* a cancel flag set too late to be looked at.
EngineReturns(x) ==
    /\ At(x, "engine")
    /\ \E v \in EngineEnds \cap {"completed", "failed"} :
        proc' = [proc EXCEPT ![x].at = "save", ![x].next = v]
    /\ UNCHANGED <<stores, flags>>

\* run_job has looked at the cancel flag; devices in flight are waited for.
EngineCancelled(x) ==
    /\ At(x, "engine") /\ "cancelled" \in EngineEnds
    /\ cancel[JobOf(x)]
    /\ proc' = [proc EXCEPT ![x].at = "drain", ![x].next = "cancelled"]
    /\ UNCHANGED <<stores, flags>>

EngineDrained(x) ==
    /\ At(x, "drain")
    /\ Goto(x, "save")
    /\ UNCHANGED <<stores, flags>>

\* run_job raises: no summary, no event, the thread or the request ends.
EngineRaises(x) ==
    /\ At(x, "engine") /\ "raised" \in EngineEnds
    /\ Leave(x)
    /\ UNCHANGED <<stores, flags>>

\* Mutant: the status is taken for the name of the event.
EventOfSame(v) == v

\* SUMMARY_EVENT_BY_STATUS
EventOf(v) == CASE v = "completed" -> "complete" [] v = "failed" -> "fail" [] v = "cancelled" -> "cancel"

\* run_store.save, then the event that closes the job.
SaveSummary(x) ==
    /\ At(x, "save")
    /\ result' = [result EXCEPT ![JobOf(x)] = proc[x].next]
    /\ proc' = [proc EXCEPT ![x].at = "lookup", ![x].event = EventOf(proc[x].next)]
    /\ UNCHANGED <<status, stored, ctl, flags>>

\* The thread's target has returned, RunCoordinator sees it dead.
ThreadExits(j) ==
    /\ At(j, "exit")
    /\ Done(j)
    /\ UNCHANGED <<stores, flags>>

-----------------------------------------------------------------------------
(* POST /app/reset: refused while a job is active, then store by store.    *)

BlocksReset(j) == j \in stored /\ Active(j)

ResetCheck(t) ==
    /\ At(t, "idle") /\ "reset" \in Requests
    /\ ~\E j \in Job : BlocksReset(j)
    /\ proc' = [proc EXCEPT ![t] = [Idle EXCEPT !.at = "reset_jobs", !.kind = "reset"]]
    /\ UNCHANGED <<stores, flags>>

ResetJobs(t) ==
    /\ At(t, "reset_jobs")
    /\ stored' = {}
    /\ Goto(t, "reset_results")
    /\ UNCHANGED <<status, ctl, result, flags>>

ResetResults(t) ==
    /\ At(t, "reset_results")
    /\ result' = [j \in Job |-> "none"]
    /\ Goto(t, "reset_controls")
    /\ UNCHANGED <<status, stored, ctl, flags>>

ResetControls(t) ==
    /\ At(t, "reset_controls")
    /\ ctl' = {}
    /\ Done(t)
    /\ UNCHANGED <<status, stored, result, flags>>

-----------------------------------------------------------------------------
ApplyEvent(x) == LookupEvent(x) \/ RefuseEvent(x) \/ CommitEvent(x) \/ SaveRecord(x)
StartRun(t) == RunControl(t) \/ ClearFlags(t) \/ Spawn(t)
RunEngine(x) == EngineReturns(x) \/ EngineCancelled(x) \/ EngineRaises(x)
Execute(x) == ExecuteBegin(x) \/ EngineDrained(x) \/ SaveSummary(x)
Reset(t) == ResetJobs(t) \/ ResetResults(t) \/ ResetControls(t)

\* A request arrives; what does not change any state (a refused request, a
\* read) is left out.
Arrive(t) == CreateCheck(t) \/ RawEvent(t) \/ ControlAction(t) \/ RunRequest(t) \/ ResetCheck(t)

Advance(x) ==
    \/ x \in Thread /\ (CreateSave(x) \/ StartRun(x) \/ Reset(x))
    \/ ApplyEvent(x)
    \/ Execute(x)
    \/ x \in Job /\ ThreadExits(x)

Next ==
    \/ \E t \in Thread : Arrive(t)
    \/ \E x \in Proc : Advance(x) \/ RunEngine(x)

Spec == Init /\ [][Next]_vars

-----------------------------------------------------------------------------
WorksOn(x, j) == proc[x].at # "idle" /\ JobOf(x) = j
EngineOn(j) == {x \in Proc : proc[x].at \in {"engine", "drain"} /\ JobOf(x) = j}

Labels == {"idle", "create", "lookup", "commit", "record", "control", "clear", "spawn",
           "execute", "engine", "drain", "save", "exit", "reset_jobs",
           "reset_results", "reset_controls"}
Kinds == {"none", "create", "event", "control", "run", "run_async", "thread", "reset"}

(* Every variable stays in its domain, and a run thread works on the job    *)
(* it is registered for.                                                   *)
TypeOK ==
    /\ status \in [Job -> Status \cup {"unborn"}]
    /\ stored \subseteq Job /\ ctl \subseteq Job
    /\ pause \in [Job -> BOOLEAN] /\ cancel \in [Job -> BOOLEAN]
    /\ result \in [Job -> {"none", "completed", "failed", "cancelled"}]
    /\ proc \in [Proc -> [at : Labels, job : Job \cup {"none"}, kind : Kinds,
                          event : Event \cup {"none"}, next : Status \cup {"none"}]]
    /\ \A x \in Proc : proc[x].at \notin {"idle", "reset_jobs", "reset_results", "reset_controls"}
                        => JobOf(x) \in Job
    /\ \A j \in Job : proc[j].at # "idle" => JobOf(j) = j

(* The 409 of POST /jobs is for one active job at a time; requests served  *)
(* at once break that.  As long as nothing is reset, it still bounds the   *)
(* active jobs by the number of requests served at once: only a request    *)
(* that looked before the others saved adds one, and no stale transition   *)
(* of an ended job adds another.                                           *)
ActiveJobsBounded == Cardinality({j \in stored : Active(j)}) <= Cardinality(Thread)

(* The devices of a job are worked on by one engine run at a time, however *)
(* it is started.  Run requests served at once break it.                   *)
OneEnginePerJob == \A j \in Job : Cardinality(EngineOn(j)) <= 1

(* Every engine run on a job goes back to a request that found it queued,  *)
(* so no more run on it than requests are served at once: neither a late   *)
(* save nor a reset nor a control request makes a job that was started     *)
(* startable again, and run threads do not add to their requests.          *)
EnginesBounded == \A j \in Job : Cardinality(EngineOn(j)) <= Cardinality(Thread)

(* An engine run belongs to a job that was started and has not been handed *)
(* back: no queued or unknown job is ever executed.                        *)
EngineOnlyAfterStart == \A j \in Job : EngineOn(j) # {} => status[j] \notin {"unborn", "queued"}

(* A job shown as cancelled while its engine still runs has told it so: the *)
(* cancel flag is set.                                                     *)
CancelReachesEngine ==
    \A j \in Job : status[j] = "cancelled" /\ EngineOn(j) # {} => cancel[j]

(* execute_prepared_run updates the job state: a job shown as running or   *)
(* paused has somebody working on it.                                      *)
RunningMeansRun ==
    \A j \in stored : status[j] \in {"running", "paused"} => \E x \in Proc : WorksOn(x, j)
=============================================================================
