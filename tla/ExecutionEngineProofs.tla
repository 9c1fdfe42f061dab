------------------------ MODULE ExecutionEngineProofs ------------------------
(***************************************************************************)
(* Theorems about ExecutionEngine for every set of devices, every list of  *)
(* targets (repeated keys included), every limit and every interleaving.   *)
(*                                                                         *)
(* TypeOK and the safety invariants are not inductive: that a result can   *)
(* be recorded, or that run_job leaves nobody behind, depends on which     *)
(* slots may be busy at which point of the orchestrator.  IInv adds that.  *)
(***************************************************************************)
EXTENDS ExecutionEngine, FiniteSetTheorems, TLAPS

FanOut == {"gate", "submit", "await", "collect", "finish", "shutdown"}
PoolSlots == 1 .. Len(Targets)

\* A slot has an outcome once it is done, and has an attempt left until then.
SlotInv ==
    \A i \in Slots :
        /\ stage[i] = "done" <=> outcome[i] # "none"
        /\ stage[i] \in {"idle", "ready"} => attempts[i] < AttemptLimit(i)
        /\ outcome[i] = "cancelled" => cancel

\* Every busy slot but the canary's is the future of some in-flight entry.
PoolInv ==
    /\ pending \subseteq PoolSlots /\ \A i \in pending : stage[i] = "idle"
    /\ inFlight \subseteq PoolSlots
    /\ \A i \in PoolSlots : Executing(i) => i \in inFlight
    /\ batch # {} => pc = "collect"
    /\ \A i \in batch : i \in inFlight /\ stage[i] = "done"

\* What each point of the orchestrator stands for.
PhaseInv ==
    /\ pc \in FanOut => outcome[0] = "success"
    /\ pc = "begin" => stage[0] = "idle"
    /\ pc \in {"begin", "canary"} => inFlight = {} /\ \A i \in PoolSlots : stage[i] = "idle"
    /\ pc = "finish" => inFlight = {}
    /\ Over => \A i \in Slots : ~Executing(i)
    /\ CanaryFirst

\* A verdict is given when run_job is about to leave or has left.
VerdictInv ==
    /\ verdict # "running" => pc \in {"shutdown", "returned"}
    /\ pc = "shutdown" /\ verdict # "running" => cancel
    /\ announced \in {"completed", "failed"} => pc = "returned"

IInv == TypeOK /\ SlotInv /\ PoolInv /\ PhaseInv /\ VerdictInv

-----------------------------------------------------------------------------
(* What the typing says of slots: 0 and the positions of the target list.  *)
LEMMA SlotFacts ==
    ASSUME TypeOK
    PROVE  /\ Len(Targets) \in Nat
           /\ 0 \in Slots /\ PoolSlots \subseteq Slots
           /\ Slots = {0} \cup PoolSlots /\ 0 \notin PoolSlots
           /\ args.retry \in Nat /\ args.concurrency \in Int
  <1>1. args \in Calls
    BY RunArgsAssumption DEF TypeOK
  <1>2. Targets \in Seq(Device) /\ args.retry \in Nat /\ args.concurrency \in Int
    BY <1>1 DEF Calls, Targets
  <1>3. Len(Targets) \in Nat
    BY <1>2
  <1> QED BY <1>2, <1>3 DEF Slots, PoolSlots

(* A step that leaves args alone leaves slots, limits and keys alone.      *)
LEMMA SameArgs ==
    ASSUME args' = args
    PROVE  /\ Slots' = Slots /\ PoolSlots' = PoolSlots
           /\ Concurrency' = Concurrency
           /\ \A i : AttemptLimit(i)' = AttemptLimit(i)
  BY DEF Slots, PoolSlots, Targets, Concurrency, AttemptLimit

(* run_job starts with nothing submitted and every slot idle.              *)
LEMMA InitInv == Init => IInv
  <1> SUFFICES ASSUME Init PROVE IInv
    OBVIOUS
  <1>0. args \in Calls
    BY RunArgsAssumption DEF Init
  <1>1. Targets \in Seq(Device) /\ args.retry \in Nat
    BY <1>0 DEF Calls, Targets
  <1>2. Len(Targets) \in Nat
    BY <1>1
  <1>3. TypeOK
    <2>1. \A i \in Slots : attempts[i] = 0 /\ 0 <= (IF i = 0 THEN 1 ELSE args.retry + 1)
      BY <1>1 DEF Init
    <2>2. attempts \in [Slots -> Nat]
      BY DEF Init
    <2>3. stage \in [Slots -> {"idle", "ready", "cleared", "running", "done"}]
      BY DEF Init
    <2>4. outcome \in [Slots -> {"none"} \cup Outcome] /\ late \in [Slots -> Nat]
      BY DEF Init
    <2>5. results \in [Device -> {"none", "success", "failed", "cancelled"}]
      BY DEF Init
    <2>6. shown \in [Device -> DeviceStatus]
      BY DEF Init, DeviceStatus
    <2> QED BY <2>1, <2>2, <2>3, <2>4, <2>5, <2>6 DEF Init, TypeOK
  <1>4. SlotInv
    BY <1>1, <1>2 DEF Init, SlotInv, Slots, AttemptLimit
  <1>5. PoolInv /\ PhaseInv /\ VerdictInv
    BY SlotFacts, <1>3 DEF Init, PoolInv, PhaseInv, VerdictInv, FanOut, Over, Executing, CanaryFirst
  <1> QED BY <1>3, <1>4, <1>5 DEF IInv

(* An attempt starts only while the slot has one left.                     *)
LEMMA StartAttemptInv ==
    ASSUME IInv, NEW i \in Slots, StartAttempt(i)
    PROVE  IInv'
  <1> USE DEF IInv, StartAttempt, book, control, queue, CancelSeen
  <1>1. args' = args
    OBVIOUS
  <1>2. attempts[i] < AttemptLimit(i)
    BY DEF SlotInv
  <1>3. TypeOK'
    <2>1. attempts' \in [Slots -> Nat]
      BY DEF TypeOK
    <2>2. \A j \in Slots : attempts'[j] <= (IF j = 0 THEN 1 ELSE args.retry + 1)
      BY SlotFacts, <1>2 DEF TypeOK, AttemptLimit
    <2>3. stage' \in [Slots -> {"idle", "ready", "cleared", "running", "done"}]
      BY DEF TypeOK
    <2>4. outcome' \in [Slots -> {"none"} \cup Outcome] /\ late' \in [Slots -> Nat]
      BY DEF TypeOK, Outcome
    <2> QED BY SameArgs, <1>1, <2>1, <2>2, <2>3, <2>4 DEF TypeOK
  <1>a. /\ \A j \in Slots \ {i} : stage'[j] = stage[j] /\ attempts'[j] = attempts[j] /\ outcome'[j] = outcome[j]
        /\ stage[i] = "ready" /\ attempts'[i] = attempts[i] + 1
        /\ \/ stage'[i] = "done" /\ outcome'[i] = "cancelled" /\ cancel
           \/ stage'[i] = "cleared" /\ outcome'[i] = outcome[i]
    BY DEF TypeOK
  <1>b. UNCHANGED <<args, pc, pending, inFlight, batch, cancel>>
    OBVIOUS
  <1>c. /\ Slots' = Slots /\ PoolSlots' = PoolSlots
        /\ \A j : AttemptLimit(j)' = AttemptLimit(j)
    BY SameArgs, <1>1
  <1>4. SlotInv'
    <2> HIDE DEF StartAttempt
    <2> QED BY <1>a, <1>b, <1>c DEF SlotInv
  <1>5. PoolInv'
    <2> HIDE DEF StartAttempt
    <2> QED BY SlotFacts, <1>a, <1>b, <1>c DEF PoolInv, Executing
  <1>6. PhaseInv'
    <2> HIDE DEF StartAttempt
    <2>1. outcome[0] # "none" => outcome'[0] = outcome[0]
      BY SlotFacts, <1>a DEF SlotInv
    <2>2. ~Over /\ ~Over'
      BY <1>a, <1>b DEF PhaseInv, Over, Executing
    <2>3. CanaryFirst'
      BY SlotFacts, <1>a, <1>c, <2>1 DEF PhaseInv, CanaryFirst
    <2> QED BY SlotFacts, <1>a, <1>b, <1>c, <2>1, <2>2, <2>3 DEF PhaseInv, FanOut
  <1>7. VerdictInv'
    BY DEF VerdictInv
  <1> QED BY <1>3, <1>4, <1>5, <1>6, <1>7

(* Calling the worker changes nothing the invariant tells apart.           *)
LEMMA CallWorkerInv ==
    ASSUME IInv, NEW i \in Slots, CallWorker(i)
    PROVE  IInv'
  <1> USE DEF IInv, CallWorker, book, control, queue
  <1>1. args' = args
    OBVIOUS
  <1>2. /\ \A j \in Slots \ {i} : stage'[j] = stage[j]
        /\ stage[i] = "cleared" /\ stage'[i] = "running"
    BY DEF TypeOK
  <1>3. UNCHANGED <<args, pc, pending, inFlight, batch, attempts, outcome, cancel>>
    OBVIOUS
  <1>4. /\ Slots' = Slots /\ PoolSlots' = PoolSlots
        /\ \A j : AttemptLimit(j)' = AttemptLimit(j)
    BY SameArgs, <1>1
  <1>5. TypeOK'
    <2>1. stage' \in [Slots -> {"idle", "ready", "cleared", "running", "done"}] /\ late' \in [Slots -> Nat]
      BY DEF TypeOK
    <2> QED BY <1>1, <1>4, <2>1 DEF TypeOK
  <1>6. SlotInv'
    <2> HIDE DEF CallWorker
    <2> QED BY <1>2, <1>3, <1>4 DEF SlotInv
  <1>7. PoolInv'
    <2> HIDE DEF CallWorker
    <2> QED BY SlotFacts, <1>2, <1>3, <1>4 DEF PoolInv, Executing
  <1>8. PhaseInv'
    <2> HIDE DEF CallWorker
    <2>1. ~Over /\ ~Over'
      BY <1>2, <1>3 DEF PhaseInv, Over, Executing
    <2>2. CanaryFirst'
      BY SlotFacts, <1>2, <1>3, <1>4 DEF PhaseInv, CanaryFirst
    <2> QED BY SlotFacts, <1>2, <1>3, <1>4, <2>1, <2>2 DEF PhaseInv, FanOut
  <1>9. VerdictInv'
    BY DEF VerdictInv
  <1> QED BY <1>5, <1>6, <1>7, <1>8, <1>9

(* A worker call that ends leaves its slot ready only if a retry is left.  *)
LEMMA FinishAttemptInv ==
    ASSUME IInv, NEW i \in Slots, FinishAttempt(i)
    PROVE  IInv'
  <1> USE DEF IInv, FinishAttempt, book, control, queue
  <1>1. args' = args
    OBVIOUS
  <1>2. PICK o \in WorkerOutcomes :
          IF o = "failed" /\ attempts[i] < AttemptLimit(i)
          THEN stage' = [stage EXCEPT ![i] = "ready"] /\ outcome' = outcome
          ELSE stage' = [stage EXCEPT ![i] = "done"] /\ outcome' = [outcome EXCEPT ![i] = o]
    OBVIOUS
  <1>3. o \in {"success", "failed", "raised"}
    BY OutcomesAssumption
  <1>4. TypeOK'
    BY SlotFacts, SameArgs, <1>1, <1>2, <1>3 DEF TypeOK, Outcome
  <1>5. SlotInv'
    BY SlotFacts, SameArgs, <1>1, <1>2, <1>3 DEF SlotInv, TypeOK
  <1>6. PoolInv'
    BY SlotFacts, SameArgs, <1>1, <1>2 DEF PoolInv, TypeOK, Executing
  <1>7. PhaseInv'
    BY SlotFacts, SameArgs, <1>1, <1>2, <1>3 DEF PhaseInv, SlotInv, TypeOK, Executing, Over, FanOut, CanaryFirst
  <1>8. VerdictInv'
    BY DEF VerdictInv
  <1> QED BY <1>4, <1>5, <1>6, <1>7, <1>8

(* Setting a flag moves no slot; a cancel request is never taken back.     *)
LEMMA ControlInv ==
    ASSUME IInv, Control
    PROVE  IInv'
  <1> USE DEF IInv, Control, Pause, Resume, Cancel, book, pool, queue
  <1>1. args' = args /\ (cancel => cancel')
    OBVIOUS
  <1>2. TypeOK'
    BY SameArgs, <1>1 DEF TypeOK
  <1>3. SlotInv'
    BY SameArgs, <1>1 DEF SlotInv
  <1>4. PoolInv'
    BY SameArgs, <1>1 DEF PoolInv, Executing
  <1>5. PhaseInv' /\ VerdictInv'
    BY SameArgs, <1>1 DEF PhaseInv, VerdictInv, Executing, Over, CanaryFirst
  <1> QED BY <1>2, <1>3, <1>4, <1>5

(* Entered cancelled: run_job returns with every slot idle.                *)
LEMMA BeginCancelledInv ==
    ASSUME IInv, BeginCancelled
    PROVE  IInv'
  <1> USE DEF IInv, BeginCancelled, Conclude, queue, pool, control
  <1>1. args' = args /\ attempts' = attempts /\ outcome' = outcome /\ cancel' = cancel
    OBVIOUS
  <1>2. TypeOK'
    BY SlotFacts, SameArgs, <1>1 DEF TypeOK, SlotInv, Verdict, DeviceStatus, Outcome
  <1>3. SlotInv'
    BY SlotFacts, SameArgs, <1>1 DEF SlotInv, TypeOK
  <1>4. PoolInv'
    BY SlotFacts, SameArgs, <1>1 DEF PoolInv, PhaseInv, TypeOK, SlotInv, Executing
  <1>5. PhaseInv'
    BY SlotFacts, SameArgs, <1>1 DEF PhaseInv, PoolInv, SlotInv, TypeOK, Executing, Over, FanOut, CanaryFirst
  <1>6. VerdictInv'
    BY SlotFacts, <1>1 DEF VerdictInv, PoolInv, SlotInv, TypeOK
  <1> QED BY <1>2, <1>3, <1>4, <1>5, <1>6

(* No valid target: run_job returns with every slot idle.                  *)
LEMMA BeginRejectedInv ==
    ASSUME IInv, BeginRejected
    PROVE  IInv'
  <1> USE DEF IInv, BeginRejected, Conclude, Record, queue, pool, control
  <1>1. args' = args /\ attempts' = attempts /\ outcome' = outcome /\ cancel' = cancel
    OBVIOUS
  <1>2. TypeOK'
    BY SlotFacts, SameArgs, <1>1 DEF TypeOK, SlotInv, Verdict, DeviceStatus, Outcome
  <1>3. SlotInv'
    BY SlotFacts, SameArgs, <1>1 DEF SlotInv, TypeOK
  <1>4. PoolInv'
    BY SlotFacts, SameArgs, <1>1 DEF PoolInv, PhaseInv, TypeOK, SlotInv, Executing
  <1>5. PhaseInv'
    BY SlotFacts, SameArgs, <1>1 DEF PhaseInv, PoolInv, SlotInv, TypeOK, Executing, Over, FanOut, CanaryFirst
  <1>6. VerdictInv'
    BY SlotFacts, <1>1 DEF VerdictInv, PoolInv, SlotInv, TypeOK
  <1> QED BY <1>2, <1>3, <1>4, <1>5, <1>6

(* The canary's slot is the only one that becomes busy.                    *)
LEMMA BeginCanaryInv ==
    ASSUME IInv, BeginCanary
    PROVE  IInv'
  <1> USE DEF IInv, BeginCanary, queue, control
  <1>1. args' = args /\ attempts' = attempts /\ outcome' = outcome /\ cancel' = cancel
    OBVIOUS
  <1>2. TypeOK'
    BY SlotFacts, SameArgs, <1>1 DEF TypeOK, SlotInv, Verdict, DeviceStatus, Outcome
  <1>a. stage[0] = "idle" /\ 0 \in Slots
    BY SlotFacts DEF PhaseInv
  <1>b. \A i \in Slots : stage'[i] = IF i = 0 THEN "ready" ELSE stage[i]
    BY DEF TypeOK
  <1>c. /\ Slots' = Slots /\ PoolSlots' = PoolSlots
        /\ \A i : AttemptLimit(i)' = AttemptLimit(i)
    BY SameArgs, <1>1
  <1>3. SlotInv'
    <2> HIDE DEF BeginCanary
    <2> QED BY <1>1, <1>a, <1>b, <1>c DEF SlotInv
  <1>4. PoolInv'
    BY SlotFacts, SameArgs, <1>1 DEF PoolInv, PhaseInv, TypeOK, SlotInv, Executing
  <1>5. PhaseInv'
    <2>1. pc' = "canary" /\ inFlight' = {} /\ \A i \in PoolSlots : stage'[i] = "idle"
      BY SlotFacts, <1>b DEF PhaseInv
    <2> HIDE DEF BeginCanary
    <2> QED BY SlotFacts, <1>c, <2>1 DEF PhaseInv, FanOut, Over, CanaryFirst
  <1>6. VerdictInv'
    BY SlotFacts, <1>1 DEF VerdictInv, PoolInv, SlotInv, TypeOK
  <1> QED BY <1>2, <1>3, <1>4, <1>5, <1>6

(* Only a successful canary leads to the scheduling loop.                  *)
LEMMA CanaryResultInv ==
    ASSUME IInv, CanaryResult
    PROVE  IInv'
  <1> USE DEF IInv, CanaryResult, CanaryPassed, Conclude, Record, pool, control
  <1>1. args' = args /\ attempts' = attempts /\ outcome' = outcome /\ cancel' = cancel
    OBVIOUS
  <1>a. outcome[0] \in {"success", "failed", "cancelled"}
    BY SlotFacts DEF TypeOK, SlotInv, Outcome
  <1>b. Remaining \subseteq PoolSlots
    BY DEF Remaining, PoolSlots
  <1>2. TypeOK'
    BY SlotFacts, SameArgs, <1>1, <1>a, <1>b DEF TypeOK, SlotInv, Verdict, DeviceStatus, Outcome
  <1>3. SlotInv'
    BY SlotFacts, SameArgs, <1>1, <1>a, <1>b DEF SlotInv, TypeOK
  <1>4. PoolInv'
    BY SlotFacts, SameArgs, <1>1, <1>a, <1>b DEF PoolInv, PhaseInv, TypeOK, SlotInv, Executing
  <1>5. PhaseInv'
    BY SlotFacts, SameArgs, <1>1, <1>a, <1>b DEF PhaseInv, PoolInv, SlotInv, TypeOK, Executing, Over, FanOut, CanaryFirst
  <1>6. VerdictInv'
    BY SlotFacts, <1>1, <1>a, <1>b DEF VerdictInv, PoolInv, SlotInv, TypeOK
  <1> QED BY <1>2, <1>3, <1>4, <1>5, <1>6

(* The canary's exception leaves run_job before the pool exists.           *)
LEMMA CanaryRaisesInv ==
    ASSUME IInv, CanaryRaises
    PROVE  IInv'
  <1> USE DEF IInv, CanaryRaises, queue, pool, book, control
  <1>1. args' = args /\ attempts' = attempts /\ outcome' = outcome /\ cancel' = cancel
    OBVIOUS
  <1>2. TypeOK'
    BY SlotFacts, SameArgs, <1>1 DEF TypeOK, SlotInv, Verdict, DeviceStatus, Outcome
  <1>3. SlotInv'
    BY SlotFacts, SameArgs, <1>1 DEF SlotInv, TypeOK
  <1>4. PoolInv'
    BY SlotFacts, SameArgs, <1>1 DEF PoolInv, PhaseInv, TypeOK, SlotInv, Executing
  <1>5. PhaseInv'
    BY SlotFacts, SameArgs, <1>1 DEF PhaseInv, PoolInv, SlotInv, TypeOK, Executing, Over, FanOut, CanaryFirst
  <1>6. VerdictInv'
    BY SlotFacts, <1>1 DEF VerdictInv, PoolInv, SlotInv, TypeOK
  <1> QED BY <1>2, <1>3, <1>4, <1>5, <1>6

(* A verdict of the gate is given on the way to the shutdown.              *)
LEMMA GateInv ==
    ASSUME IInv, Gate
    PROVE  IInv'
  <1> USE DEF IInv, Gate, Conclude, queue, pool, control
  <1>1. args' = args /\ attempts' = attempts /\ outcome' = outcome /\ cancel' = cancel
    OBVIOUS
  <1>2. TypeOK'
    BY SlotFacts, SameArgs, <1>1 DEF TypeOK, SlotInv, Verdict, DeviceStatus, Outcome
  <1>3. SlotInv'
    BY SlotFacts, SameArgs, <1>1 DEF SlotInv, TypeOK
  <1>4. PoolInv'
    BY SlotFacts, SameArgs, <1>1 DEF PoolInv, PhaseInv, TypeOK, SlotInv, Executing
  <1>5. PhaseInv'
    BY SlotFacts, SameArgs, <1>1 DEF PhaseInv, PoolInv, SlotInv, TypeOK, Executing, Over, FanOut, CanaryFirst
  <1>6. VerdictInv'
    BY SlotFacts, <1>1 DEF VerdictInv, PoolInv, SlotInv, TypeOK
  <1> QED BY <1>2, <1>3, <1>4, <1>5, <1>6

(* A submitted slot moves from pending to in flight.                       *)
LEMMA SubmitInv ==
    ASSUME IInv, NEW i \in Slots, Submit(i)
    PROVE  IInv'
  <1> USE DEF IInv, Submit, control
  <1>1. args' = args /\ attempts' = attempts /\ outcome' = outcome /\ cancel' = cancel
    OBVIOUS
  <1>a. i \in PoolSlots /\ i # 0
    BY SlotFacts DEF PoolInv
  <1>2. TypeOK'
    BY SlotFacts, SameArgs, <1>1, <1>a DEF TypeOK, SlotInv, Verdict, DeviceStatus, Outcome
  <1>3. SlotInv'
    BY SlotFacts, SameArgs, <1>1, <1>a DEF SlotInv, PoolInv, TypeOK
  <1>4. PoolInv'
    BY SlotFacts, SameArgs, <1>1, <1>a DEF PoolInv, PhaseInv, TypeOK, SlotInv, Executing
  <1>5. PhaseInv'
    BY SlotFacts, SameArgs, <1>1, <1>a DEF PhaseInv, PoolInv, SlotInv, TypeOK, Executing, Over, FanOut, CanaryFirst
  <1>6. VerdictInv'
    BY SlotFacts, <1>1, <1>a DEF VerdictInv, PoolInv, SlotInv, TypeOK
  <1> QED BY <1>2, <1>3, <1>4, <1>5, <1>6

(* The loop goes straight to the end only with nothing in flight.          *)
LEMMA SubmitEndsInv ==
    ASSUME IInv, SubmitEnds
    PROVE  IInv'
  <1> USE DEF IInv, SubmitEnds, AfterSubmit, pool, book, control
  <1>1. args' = args /\ attempts' = attempts /\ outcome' = outcome /\ cancel' = cancel
    OBVIOUS
  <1>2. TypeOK'
    BY SlotFacts, SameArgs, <1>1 DEF TypeOK, SlotInv, Verdict, DeviceStatus, Outcome
  <1>3. SlotInv'
    BY SlotFacts, SameArgs, <1>1 DEF SlotInv, TypeOK
  <1>4. PoolInv'
    BY SlotFacts, SameArgs, <1>1 DEF PoolInv, PhaseInv, TypeOK, SlotInv, Executing
  <1>5. PhaseInv'
    BY SlotFacts, SameArgs, <1>1 DEF PhaseInv, PoolInv, SlotInv, TypeOK, Executing, Over, FanOut, CanaryFirst
  <1>6. VerdictInv'
    BY SlotFacts, <1>1 DEF VerdictInv, PoolInv, SlotInv, TypeOK
  <1> QED BY <1>2, <1>3, <1>4, <1>5, <1>6

(* wait() returns futures in flight that are done.                         *)
LEMMA AwaitInv ==
    ASSUME IInv, Await
    PROVE  IInv'
  <1> USE DEF IInv, Await, pool, book, control
  <1>1. args' = args /\ attempts' = attempts /\ outcome' = outcome /\ cancel' = cancel
    OBVIOUS
  <1>2. TypeOK'
    BY SlotFacts, SameArgs, <1>1 DEF TypeOK, SlotInv, Verdict, DeviceStatus, Outcome
  <1>3. SlotInv'
    BY SlotFacts, SameArgs, <1>1 DEF SlotInv, TypeOK
  <1>4. PoolInv'
    BY SlotFacts, SameArgs, <1>1 DEF PoolInv, PhaseInv, TypeOK, SlotInv, Executing
  <1>5. PhaseInv'
    BY SlotFacts, SameArgs, <1>1 DEF PhaseInv, PoolInv, SlotInv, TypeOK, Executing, Over, FanOut, CanaryFirst
  <1>6. VerdictInv'
    BY SlotFacts, <1>1 DEF VerdictInv, PoolInv, SlotInv, TypeOK
  <1> QED BY <1>2, <1>3, <1>4, <1>5, <1>6

(* A collected future is done, so what leaves in_flight is not busy.       *)
LEMMA CollectInv ==
    ASSUME IInv, NEW i \in Slots, Collect(i)
    PROVE  IInv'
  <1> USE DEF IInv, Collect, Conclude, Record, pool, book, control
  <1>1. args' = args /\ attempts' = attempts /\ outcome' = outcome /\ cancel' = cancel
    OBVIOUS
  <1>a. i \in inFlight /\ outcome[i] # "none"
    BY DEF PoolInv, SlotInv
  <1>b. outcome[i] \in {"success", "failed", "cancelled", "raised"}
    BY <1>a DEF TypeOK, Outcome
  <1>2. TypeOK'
    <2>1. UNCHANGED <<pending, stage, late, pause>> /\ inFlight' \subseteq inFlight /\ batch' \subseteq batch
      OBVIOUS
    <2>2. pc' \in {"shutdown", "collect", "finish", "gate"}
      OBVIOUS
    <2>3. results' \in [Device -> {"none", "success", "failed", "cancelled"}] /\ shown' \in [Device -> DeviceStatus]
      BY <1>b DEF TypeOK, DeviceStatus
    <2>4. verdict' \in {"running"} \cup Verdict /\ announced' \in {"none"} \cup Verdict
      BY DEF TypeOK, Verdict
    <2> HIDE DEF Collect
    <2> QED BY SameArgs, <1>1, <2>1, <2>2, <2>3, <2>4 DEF TypeOK
  <1>3. SlotInv'
    BY SlotFacts, SameArgs, <1>1, <1>a, <1>b DEF SlotInv, TypeOK
  <1>4. PoolInv'
    BY SlotFacts, SameArgs, <1>1, <1>a, <1>b DEF PoolInv, PhaseInv, TypeOK, SlotInv, Executing
  <1>5. PhaseInv'
    BY SlotFacts, SameArgs, <1>1, <1>a, <1>b DEF PhaseInv, PoolInv, SlotInv, TypeOK, Executing, Over, FanOut, CanaryFirst
  <1>6. VerdictInv'
    BY SlotFacts, <1>1, <1>a, <1>b DEF VerdictInv, PoolInv, SlotInv, TypeOK
  <1> QED BY <1>2, <1>3, <1>4, <1>5, <1>6

(* The pool is left only when no slot in flight is busy.                   *)
LEMMA ShutdownInv ==
    ASSUME IInv, Shutdown
    PROVE  IInv'
  <1> USE DEF IInv, Shutdown, PoolDrained, queue, pool, book, control
  <1>1. args' = args /\ attempts' = attempts /\ outcome' = outcome /\ cancel' = cancel
    OBVIOUS
  <1>2. TypeOK'
    BY SlotFacts, SameArgs, <1>1 DEF TypeOK, SlotInv, Verdict, DeviceStatus, Outcome
  <1>3. SlotInv'
    BY SlotFacts, SameArgs, <1>1 DEF SlotInv, TypeOK
  <1>4. PoolInv'
    BY SlotFacts, SameArgs, <1>1 DEF PoolInv, PhaseInv, TypeOK, SlotInv, Executing
  <1>5. PhaseInv'
    BY SlotFacts, SameArgs, <1>1 DEF PhaseInv, PoolInv, SlotInv, TypeOK, Executing, Over, FanOut, CanaryFirst
  <1>6. VerdictInv'
    BY SlotFacts, <1>1 DEF VerdictInv, PoolInv, SlotInv, TypeOK
  <1> QED BY <1>2, <1>3, <1>4, <1>5, <1>6

(* The end of the loop is reached with nothing in flight.                  *)
LEMMA FinishInv ==
    ASSUME IInv, Finish
    PROVE  IInv'
  <1> USE DEF IInv, Finish, Conclude, queue, pool, control
  <1>1. args' = args /\ attempts' = attempts /\ outcome' = outcome /\ cancel' = cancel
    OBVIOUS
  <1>2. TypeOK'
    BY SlotFacts, SameArgs, <1>1 DEF TypeOK, SlotInv, Verdict, DeviceStatus, Outcome
  <1>3. SlotInv'
    BY SlotFacts, SameArgs, <1>1 DEF SlotInv, TypeOK
  <1>4. PoolInv'
    BY SlotFacts, SameArgs, <1>1 DEF PoolInv, PhaseInv, TypeOK, SlotInv, Executing
  <1>5. PhaseInv'
    BY SlotFacts, SameArgs, <1>1 DEF PhaseInv, PoolInv, SlotInv, TypeOK, Executing, Over, FanOut, CanaryFirst
  <1>6. VerdictInv'
    BY SlotFacts, <1>1 DEF VerdictInv, PoolInv, SlotInv, TypeOK
  <1> QED BY <1>2, <1>3, <1>4, <1>5, <1>6

(* Every step of the engine preserves the inductive invariant.             *)
LEMMA StepInv == IInv /\ [Next]_vars => IInv'
  <1> SUFFICES ASSUME IInv, [Next]_vars PROVE IInv'
    OBVIOUS
  <1>1. CASE Orchestrate
    BY <1>1, BeginCancelledInv, BeginRejectedInv, BeginCanaryInv, CanaryResultInv,
       CanaryRaisesInv, GateInv, SubmitInv, SubmitEndsInv, AwaitInv, CollectInv,
       ShutdownInv, FinishInv DEF Orchestrate, Begin
  <1>2. CASE Attempt
    BY <1>2, StartAttemptInv, CallWorkerInv, FinishAttemptInv DEF Attempt
  <1>3. CASE Control
    BY <1>3, ControlInv
  <1>4. CASE UNCHANGED vars
    <2> USE <1>4 DEF vars, queue, pool, book, control, IInv
    <2>1. TypeOK' /\ SlotInv'
      BY SameArgs DEF TypeOK, SlotInv
    <2>2. PoolInv' /\ PhaseInv' /\ VerdictInv'
      BY SameArgs DEF PoolInv, PhaseInv, VerdictInv, Executing, Over, CanaryFirst
    <2> QED BY <2>1, <2>2
  <1> QED BY <1>1, <1>2, <1>3, <1>4 DEF Next

(* The inductive invariant holds throughout every run.                     *)
LEMMA InvHolds == Spec => []IInv
  BY InitInv, StepInv, PTL DEF Spec

-----------------------------------------------------------------------------
(* Every variable of run_job stays in its domain, and the canary is tried  *)
(* once, any other device at most retry_limit + 1 times (_run_with_retry). *)
THEOREM TypeCorrect == Spec => []TypeOK
  <1>1. IInv => TypeOK
    BY DEF IInv
  <1> QED BY <1>1, InvHolds, PTL

(* run_job hands no device to the pool before the canary has succeeded.    *)
THEOREM CanaryGate == Spec => []CanaryFirst
  <1>1. IInv => CanaryFirst
    BY DEF IInv, PhaseInv
  <1> QED BY <1>1, InvHolds, PTL

(* When run_job has returned or raised, no thread is left at work on a     *)
(* device: every path out of the with block waits for the pool.            *)
THEOREM NobodyLeftBehind == Spec => []NothingLeftRunning
  <1>1. IInv => NothingLeftRunning
    BY DEF IInv, PhaseInv, VerdictInv, Over, NothingLeftRunning
  <1> QED BY <1>1, InvHolds, PTL

(* An attempt cleared in this step saw no cancel request: the flag is read *)
(* at the top of every attempt.                                            *)
LEMMA ClearedSawNoCancel ==
    ASSUME IInv, [Next]_vars, NEW i \in Slots,
           stage[i] # "cleared", stage'[i] = "cleared"
    PROVE  stage[i] = "ready" /\ ~cancel
  <1> USE DEF IInv, TypeOK
  <1>1. CASE Orchestrate
    BY <1>1, SlotFacts DEF Orchestrate, Begin, BeginCancelled, BeginRejected, BeginCanary, CanaryResult,
       CanaryRaises, Gate, Submit, SubmitEnds, Await, Collect, Shutdown, Finish, pool
  <1>2. CASE Attempt
    <2>1. PICK k \in Slots : StartAttempt(k) \/ CallWorker(k) \/ FinishAttempt(k)
      BY <1>2 DEF Attempt
    <2>2. CASE StartAttempt(k)
      BY <2>2 DEF StartAttempt, CancelSeen
    <2>3. CASE CallWorker(k)
      BY <2>3 DEF CallWorker
    <2>4. CASE FinishAttempt(k)
      BY <2>4 DEF FinishAttempt
    <2> QED BY <2>1, <2>2, <2>3, <2>4
  <1>3. CASE Control \/ UNCHANGED vars
    BY <1>3 DEF Control, pool, vars
  <1> QED BY <1>1, <1>2, <1>3 DEF Next

(* run_job is on its way out once it has concluded.                        *)
LEMMA VerdictStays ==
    ASSUME IInv, [Next]_vars, verdict # "running"
    PROVE  verdict' = verdict /\ announced' = announced
  <1>1. pc \in {"shutdown", "returned"}
    BY DEF IInv, VerdictInv
  <1> QED BY <1>1 DEF Next, Orchestrate, Begin, BeginCancelled, BeginRejected, BeginCanary,
        CanaryResult, CanaryRaises, Gate, Submit, SubmitEnds, Await, Collect, Shutdown, Finish,
        Attempt, StartAttempt, CallWorker, FinishAttempt, Control, vars, book

(* The verdict and the job_complete event are given once, and no attempt   *)
(* is cleared after them although the pool may still be draining.          *)
THEOREM VerdictGivenOnce == Spec => VerdictIsFinal
  <1>1. ASSUME IInv, [Next]_vars, verdict # "running"
        PROVE  verdict' = verdict /\ announced' = announced
    BY <1>1, VerdictStays
  <1>2. ASSUME IInv, [Next]_vars, verdict # "running", NEW i \in Slots,
               stage[i] # "cleared", stage'[i] = "cleared"
        PROVE  FALSE
    <2>1. stage[i] = "ready" /\ ~cancel
      BY <1>2, ClearedSawNoCancel
    <2>2. pc = "returned"
      BY <1>2, <2>1 DEF IInv, VerdictInv
    <2>3. ~Executing(i)
      BY <1>2, <2>2 DEF IInv, PhaseInv, Over
    <2> QED BY <2>1, <2>3 DEF Executing
  <1>3. IInv /\ [Next]_vars =>
          [verdict # "running" =>
             /\ verdict' = verdict /\ announced' = announced
             /\ \A i \in Slots : stage[i] # "cleared" => stage'[i] # "cleared"]_vars
    BY <1>1, <1>2
  <1> QED BY <1>3, InvHolds, PTL DEF Spec, VerdictIsFinal

-----------------------------------------------------------------------------
\* max_workers bounds the futures the orchestrator holds.
PoolBound == Cardinality(inFlight) <= Concurrency

(* The futures in flight are finitely many, and the limit is at least one. *)
LEMMA PoolFinite ==
    ASSUME TypeOK, PoolInv
    PROVE  /\ IsFiniteSet(inFlight) /\ Cardinality(inFlight) \in Nat
           /\ Concurrency \in Nat /\ Concurrency >= 1
  <1>1. IsFiniteSet(PoolSlots)
    BY SlotFacts, FS_Interval DEF PoolSlots
  <1>2. IsFiniteSet(inFlight)
    BY <1>1, FS_Subset DEF PoolInv
  <1>3. Cardinality(inFlight) \in Nat
    BY <1>2, FS_CardinalityType
  <1> QED BY <1>2, <1>3, SlotFacts DEF Concurrency

(* The inner loop submits only while there is room, and no other step of   *)
(* the engine adds a future.                                               *)
LEMMA PoolBoundStep == IInv /\ PoolBound /\ [Next]_vars => PoolBound'
  <1> SUFFICES ASSUME IInv, PoolBound, [Next]_vars
               PROVE  PoolBound'
    OBVIOUS
  <1>0. IsFiniteSet(inFlight) /\ Cardinality(inFlight) \in Nat /\ Concurrency \in Nat
    BY PoolFinite DEF IInv
  <1>1. args' = args
    BY DEF Next, Orchestrate, Begin, BeginCancelled, BeginRejected, BeginCanary, CanaryResult,
       CanaryRaises, Gate, Submit, SubmitEnds, Await, Collect, Shutdown, Finish, Attempt,
       StartAttempt, CallWorker, FinishAttempt, Control, vars
  <1>2. Concurrency' = Concurrency
    BY <1>1, SameArgs
  <1>3. CASE \E i \in Slots : Submit(i)
    <2>1. PICK i \in Slots : Submit(i)
      BY <1>3
    <2>2. inFlight' = inFlight \cup {i} /\ Cardinality(inFlight) < Concurrency
      BY <2>1 DEF Submit, PoolHasRoom
    <2>3. Cardinality(inFlight \cup {i}) <= Cardinality(inFlight) + 1
      <3>1. Cardinality(inFlight \cup {i}) =
              IF i \in inFlight THEN Cardinality(inFlight) ELSE Cardinality(inFlight) + 1
        BY <1>0, FS_AddElement, Zenon
      <3> QED BY <1>0, <3>1
    <2>4. Cardinality(inFlight \cup {i}) \in Nat
      BY <1>0, FS_AddElement, FS_CardinalityType
    <2> QED BY <1>0, <1>2, <2>2, <2>3, <2>4 DEF PoolBound
  <1>4. CASE \E i \in Slots : Collect(i)
    <2>1. PICK i \in Slots : Collect(i)
      BY <1>4
    <2>2. inFlight' = inFlight \ {i}
      BY <2>1 DEF Collect
    <2>3. Cardinality(inFlight \ {i}) <= Cardinality(inFlight)
      BY <1>0, FS_RemoveElement
    <2>4. Cardinality(inFlight \ {i}) \in Nat
      BY <1>0, FS_RemoveElement, FS_CardinalityType
    <2> QED BY <1>0, <1>2, <2>2, <2>3, <2>4 DEF PoolBound
  <1>5. CASE inFlight' = inFlight
    BY <1>2, <1>5 DEF PoolBound
  <1>6. \/ \E i \in Slots : Submit(i)
        \/ \E i \in Slots : Collect(i)
        \/ inFlight' = inFlight
    BY DEF Next, Orchestrate, Begin, BeginCancelled, BeginRejected, BeginCanary, CanaryResult,
       CanaryRaises, Gate, SubmitEnds, Await, Shutdown, Finish, Attempt,
       StartAttempt, CallWorker, FinishAttempt, Control, vars, queue
  <1> QED BY <1>3, <1>4, <1>5, <1>6

(* The bound holds throughout every run.                                   *)
LEMMA PoolBoundHolds == Spec => []PoolBound
  <1>1. Init => PoolBound
    <2> SUFFICES ASSUME Init PROVE PoolBound
      OBVIOUS
    <2>1. IInv
      BY InitInv
    <2>2. inFlight = {}
      BY DEF Init
    <2> QED BY <2>1, <2>2, PoolFinite, FS_EmptySet DEF IInv, PoolBound
  <1> QED BY <1>1, InvHolds, PoolBoundStep, PTL DEF Spec

(* However pool threads, retries and the shutdown interleave, no more      *)
(* devices are worked on at once than concurrency_limit, or one.           *)
THEOREM AtMostConcurrency == Spec => []ConcurrencyBound
  <1>1. IInv /\ PoolBound => ConcurrencyBound
    <2> SUFFICES ASSUME IInv, PoolBound PROVE ConcurrencyBound
      OBVIOUS
    <2> DEFINE Busy == {i \in Slots : Executing(i)}
    <2>0. /\ IsFiniteSet(inFlight) /\ Cardinality(inFlight) \in Nat
          /\ Concurrency \in Nat /\ Concurrency >= 1
      BY PoolFinite DEF IInv
    <2>1. CASE Executing(0)
      <3>1. pc \in {"begin", "canary"}
        BY <2>1, SlotFacts DEF IInv, TypeOK, PhaseInv, SlotInv, FanOut, Executing, Over
      <3>2. Busy \subseteq {0}
        BY <3>1, SlotFacts DEF IInv, PhaseInv, Executing
      <3>3. IsFiniteSet({0}) /\ Cardinality({0}) = 1
        BY FS_EmptySet, FS_AddElement
      <3>4. Cardinality(Busy) <= 1
        BY <3>2, <3>3, FS_Subset
      <3>5. Cardinality(Busy) \in Nat
        BY <3>2, <3>3, FS_Subset, FS_CardinalityType
      <3> QED BY <2>0, <3>4, <3>5 DEF ConcurrencyBound
    <2>2. CASE ~Executing(0)
      <3>1. Busy \subseteq inFlight
        BY <2>2, SlotFacts DEF IInv, PoolInv
      <3>2. Cardinality(Busy) <= Cardinality(inFlight)
        BY <2>0, <3>1, FS_Subset
      <3>3. Cardinality(Busy) \in Nat
        BY <2>0, <3>1, FS_Subset, FS_CardinalityType
      <3> QED BY <2>0, <3>2, <3>3 DEF ConcurrencyBound, PoolBound
    <2> QED BY <2>1, <2>2
  <1> QED BY <1>1, InvHolds, PoolBoundHolds, PTL

-----------------------------------------------------------------------------
\* A call begun after the cancel request is one cleared before it: the slot is
\* never cleared again.
LateInv ==
    \A i \in Slots :
        /\ late[i] <= 1
        /\ late[i] > 0 => cancel /\ stage[i] # "cleared"

\* Slots that made a late call or may still make one.
Lagging == {i \in Slots : late[i] > 0 \/ stage[i] = "cleared"}

LagBound == Cardinality(Lagging) <= Concurrency

(* What a step does to the count of late calls and to the cancel flag.     *)
LEMMA LateSteps ==
    ASSUME IInv, [Next]_vars
    PROVE  /\ args' = args /\ (cancel => cancel')
           /\ \A i \in Slots :
                 \/ late'[i] = late[i]
                 \/ cancel /\ stage[i] = "cleared" /\ stage'[i] = "running" /\ late'[i] = late[i] + 1
  <1>1. args' = args /\ (cancel => cancel')
    BY DEF Next, Orchestrate, Begin, BeginCancelled, BeginRejected, BeginCanary, CanaryResult,
       CanaryRaises, Gate, Submit, SubmitEnds, Await, Collect, Shutdown, Finish, Attempt,
       StartAttempt, CallWorker, FinishAttempt, Control, Pause, Resume, Cancel, control, vars
  <1>2. CASE \E k \in Slots : CallWorker(k)
    BY <1>1, <1>2 DEF CallWorker, IInv, TypeOK
  <1>3. CASE late' = late
    BY <1>1, <1>3
  <1>4. late' = late \/ \E k \in Slots : CallWorker(k)
    BY DEF Next, Orchestrate, Begin, BeginCancelled, BeginRejected, BeginCanary, CanaryResult,
       CanaryRaises, Gate, Submit, SubmitEnds, Await, Collect, Shutdown, Finish, Attempt,
       StartAttempt, FinishAttempt, Control, pool, vars
  <1> QED BY <1>2, <1>3, <1>4

(* A slot cleared before the request calls late once, then looks again.    *)
LEMMA LateStep == IInv /\ LateInv /\ [Next]_vars => LateInv'
  <1> SUFFICES ASSUME IInv, LateInv, [Next]_vars PROVE LateInv'
    OBVIOUS
  <1>1. Slots' = Slots
    BY LateSteps, SameArgs
  <1> SUFFICES ASSUME NEW i \in Slots
               PROVE  late'[i] <= 1 /\ (late'[i] > 0 => cancel' /\ stage'[i] # "cleared")
    BY <1>1 DEF LateInv
  <1>2. late[i] \in Nat /\ late[i] <= 1 /\ (late[i] > 0 => cancel /\ stage[i] # "cleared")
    BY DEF IInv, TypeOK, LateInv
  <1>3. CASE late'[i] = late[i]
    BY <1>2, <1>3, LateSteps, ClearedSawNoCancel
  <1>4. CASE cancel /\ stage[i] = "cleared" /\ stage'[i] = "running" /\ late'[i] = late[i] + 1
    BY <1>2, <1>4, LateSteps
  <1> QED BY <1>3, <1>4, LateSteps

(* Until the request the slots that may still call late are busy ones, and *)
(* after it none joins them.                                               *)
LEMMA LagStep ==
    IInv /\ LateInv /\ LagBound /\ ConcurrencyBound' /\ IInv' /\ [Next]_vars => LagBound'
  <1> SUFFICES ASSUME IInv, LateInv, LagBound, ConcurrencyBound', IInv', [Next]_vars
               PROVE  LagBound'
    OBVIOUS
  <1>0. Slots' = Slots /\ Concurrency' = Concurrency /\ Concurrency \in Nat
    BY LateSteps, SameArgs, SlotFacts DEF IInv, Concurrency
  <1>1. IsFiniteSet(Slots)
    BY SlotFacts, FS_Interval DEF IInv, Slots
  <1> DEFINE Busy == {i \in Slots : Executing(i)}
  <1>2. IsFiniteSet(Busy') /\ IsFiniteSet(Lagging)
    BY <1>0, <1>1, FS_Subset DEF Lagging
  <1>3. CASE cancel
    <2>1. Lagging' \subseteq Lagging
      BY <1>0, <1>3, LateSteps, ClearedSawNoCancel DEF Lagging
    <2>2. Cardinality(Lagging') <= Cardinality(Lagging)
      BY <1>2, <2>1, FS_Subset
    <2>3. Cardinality(Lagging) \in Nat /\ Cardinality(Lagging') \in Nat
      BY <1>2, <2>1, FS_Subset, FS_CardinalityType
    <2> QED BY <1>0, <2>2, <2>3 DEF LagBound
  <1>4. CASE ~cancel
    <2>1. Lagging' \subseteq Busy'
      BY <1>0, <1>4, LateSteps DEF Lagging, LateInv, Executing, IInv, TypeOK
    <2>2. Cardinality(Lagging') <= Cardinality(Busy')
      BY <1>2, <2>1, FS_Subset
    <2>3. Cardinality(Busy') \in Nat /\ Cardinality(Lagging') \in Nat
      BY <1>2, <2>1, FS_Subset, FS_CardinalityType
    <2> QED BY <1>0, <2>2, <2>3 DEF LagBound, ConcurrencyBound
  <1> QED BY <1>3, <1>4

(* After a cancel request the worker is still called on at most            *)
(* max(1, concurrency_limit) devices, and once on each: the price of       *)
(* looking at the flag at the top of the attempt only.                     *)
THEOREM CancelIsSoonFelt == Spec => []CancelLag
  <1>1. Init => LateInv /\ LagBound
    <2> SUFFICES ASSUME Init PROVE LateInv /\ LagBound
      OBVIOUS
    <2>1. Lagging = {} /\ LateInv
      BY DEF Init, Lagging, LateInv
    <2>2. Concurrency \in Nat
      BY InitInv, SlotFacts DEF IInv, Concurrency
    <2> QED BY <2>1, <2>2, FS_EmptySet DEF LagBound
  <1>2. IInv /\ LagBound /\ LateInv => CancelLag
    <2> SUFFICES ASSUME IInv, LagBound, LateInv PROVE CancelLag
      OBVIOUS
    <2> DEFINE Called == {i \in Slots : late[i] > 0}
    <2>1. Called \subseteq Lagging
      BY DEF Lagging
    <2>2. IsFiniteSet(Lagging)
      <3>1. IsFiniteSet(Slots)
        BY SlotFacts, FS_Interval DEF IInv, Slots
      <3> QED BY <3>1, FS_Subset DEF Lagging
    <2>3. /\ Cardinality(Called) <= Cardinality(Lagging)
          /\ Cardinality(Called) \in Nat /\ Cardinality(Lagging) \in Nat
      BY <2>1, <2>2, FS_Subset, FS_CardinalityType
    <2>4. Concurrency \in Nat
      BY SlotFacts DEF IInv, Concurrency
    <2> QED BY <2>3, <2>4 DEF CancelLag, LagBound, LateInv
  <1> QED BY <1>1, <1>2, LateStep, LagStep, InvHolds, AtMostConcurrency, PTL DEF Spec
=============================================================================
