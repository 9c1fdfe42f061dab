------------------------------ MODULE RunSystem ------------------------------
(***************************************************************************)
(* RunService and ExecutionEngine together: execute_prepared_run calls     *)
(* run_job with the job's control, so the flags the handlers set are the   *)
(* flags the engine reads.                                                 *)
(*                                                                         *)
(* One job is followed from its creation to the end of its run.  What the  *)
(* service leaves to chance (how the engine ends, and when) is what        *)
(* run_job does here; Service shows that the choice left there was wide    *)
(* enough.                                                                 *)
(***************************************************************************)
EXTENDS RunService, Sequences

CONSTANTS Device, RunArgs, WorkerOutcomes

VARIABLES args, pc, pending, inFlight, batch, stage, attempts, outcome, late,
          results, verdict, shown, announced

engineVars == <<args, pc, pending, inFlight, batch, stage, attempts, outcome, late,
                results, verdict, shown, announced>>
systemVars == <<vars, engineVars>>

ASSUME OneJob == \E j \in Job : Job = {j}

TheJob == CHOOSE j \in Job : TRUE

Engine == INSTANCE ExecutionEngine WITH
    pause <- pause[TheJob], cancel <- cancel[TheJob]

ASSUME PayloadAssumption ==
    /\ RunArgs \subseteq Engine!Calls
    /\ WorkerOutcomes \subseteq {"success", "failed", "raised"}

\* The payload of the run request is chosen in advance.
SystemInit == Init /\ Engine!Init

\* run_job goes on, on the thread that called it.
EngineStep(x) ==
    /\ At(x, "engine")
    /\ UNCHANGED vars
    /\ Engine!Orchestrate

\* The threads of its pool.
PoolStep ==
    /\ UNCHANGED vars
    /\ Engine!Attempt

\* run_job returns its summary.
EngineHandsOver(x) ==
    /\ At(x, "engine") /\ pc = "returned"
    /\ proc' = [proc EXCEPT ![x].at = "save", ![x].next = verdict]
    /\ UNCHANGED <<stores, flags, engineVars>>

\* run_job raises: nothing catches it.
EngineThrows(x) ==
    /\ At(x, "engine") /\ pc = "raised"
    /\ Leave(x)
    /\ UNCHANGED <<stores, flags, engineVars>>

Handle(x) == Advance(x) /\ UNCHANGED engineVars

RunJob(x) == EngineStep(x) \/ EngineHandsOver(x) \/ EngineThrows(x)

SystemNext ==
    \/ \E t \in Thread : Arrive(t) /\ UNCHANGED engineVars
    \/ \E x \in Proc : Handle(x) \/ RunJob(x)
    \/ PoolStep

SystemSpec == SystemInit /\ [][SystemNext]_systemVars

\* Request threads, run threads and pool threads are scheduled, and a worker
\* call ends.  No request need come: a paused run may stay so.
SystemFairness ==
    /\ \A x \in Proc : WF_systemVars(Handle(x)) /\ WF_systemVars(RunJob(x))
    /\ WF_systemVars(PoolStep)

FairSystem == SystemSpec /\ SystemFairness

-----------------------------------------------------------------------------
(* The service sees of its engine whether it works, waits for its pool     *)
(* after a cancel, or has ended.                                           *)

SeenByService(x) ==
    IF At(x, "engine") /\ announced = "cancelled"
    THEN [proc[x] EXCEPT !.at = "drain", !.next = "cancelled"] ELSE proc[x]

Service == INSTANCE RunService WITH proc <- [x \in Proc |-> SeenByService(x)]

(* With the real engine in its place the service does only what RunService *)
(* says: in particular run_job gives the verdict "cancelled" only to a job *)
(* whose cancel flag is set.                                               *)
ImplementsService == Service!Spec

Slots == Engine!Slots
Clears(i) == stage[i] # "cleared" /\ stage'[i] = "cleared"

(* Once a job is shown as cancelled no attempt on a device of it, first or *)
(* retry, is cleared any more: the flag that run_job reads was set before  *)
(* the status that the client reads.  (Calls cleared before that, at most  *)
(* one for each device in flight, may still begin.)                        *)
CancelStopsDevices ==
    [][status[TheJob] = "cancelled" => \A i \in Slots : ~Clears(i)]_systemVars

(* While a job is shown as paused and no control request is being served,  *)
(* the scheduling loop begins no further round of submissions.  (The round *)
(* it is in, and a canary not begun yet, go on.)                           *)
PauseHolds ==
    [][status[TheJob] = "paused" /\ (\A t \in Thread : proc[t].kind # "control")
        => ~(pc = "gate" /\ pc' = "submit")]_systemVars

(* A job shown as completed or failed has that result to be fetched, it is *)
(* what the engine concluded, and it is what happened to the devices: all  *)
(* of them succeeded (unless the list repeats a key), or one did not.      *)
StatusTruthful ==
    LET succeeded(i) == outcome[i] = "success"
        called == Engine!Remaining \cup {0}
    IN  /\ result[TheJob] \in {"none", verdict}
        /\ status[TheJob] \in {"completed", "failed"} =>
              /\ result[TheJob] = status[TheJob]
              /\ status[TheJob] = "completed" /\ Engine!DistinctKeys => \A i \in called : succeeded(i)
              /\ status[TheJob] = "failed" => \E i \in called : ~succeeded(i)

\* The pause spin is what a run may be held in, for as long as it is not cancelled.
HeldForEver == []<>(EngineOn(TheJob) # {} /\ pause[TheJob] /\ ~cancel[TheJob])

(* A run that is not held by a pause for ever ends, whatever is requested  *)
(* meanwhile: its engine is done, and its summary is stored unless run_job *)
(* raised.                                                                 *)
RunEnds ==
    HeldForEver \/ (EngineOn(TheJob) # {} ~>
                       EngineOn(TheJob) = {} /\ (result[TheJob] # "none" \/ pc = "raised"))

\* A pause is shown, or on its way, while the run brings its closing event.
PauseMeetsEnd ==
    /\ \E x \in Proc : /\ proc[x].kind \in {"run", "thread"}
                       /\ proc[x].event \in {"complete", "fail", "cancel"}
    /\ status[TheJob] = "paused" \/ \E t \in Thread : proc[t].kind = "control" /\ proc[t].event = "pause"

(* Nor does its job stay open: it comes to a terminal status, and nobody   *)
(* works on it any more.  The one way to miss that, besides an exception   *)
(* of run_job, is a pause that meets the end of the run: the closing event *)
(* is refused and swallowed, or its status overwritten.  (The job is then  *)
(* left paused, and after a resume running, with nobody working on it.)    *)
RunCloses ==
    HeldForEver \/ <>PauseMeetsEnd \/
    (EngineOn(TheJob) # {} ~>
        \/ pc = "raised"
        \/ /\ status[TheJob] \in {"completed", "failed", "cancelled"}
           /\ \A x \in Proc : JobOf(x) # TheJob)
=============================================================================
