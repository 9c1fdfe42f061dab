------------------------ MODULE ExecutionContractProofs ------------------------
(***************************************************************************)
(* More theorems about ExecutionEngine: what a verdict says of the         *)
(* devices, what the event stream says, how far a bad change can reach,    *)
(* and that run_job keeps RunContract.                                     *)
(*                                                                         *)
(* IInv of ExecutionEngineProofs says who may be busy when.  OInv adds how *)
(* results, events and verdicts come from slots.  Where it speaks of one   *)
(* result per device it is about target lists without repeated keys.       *)
(***************************************************************************)
EXTENDS ExecutionEngineProofs

\* The points at which every future collected so far has left its result.
Loop == {"gate", "submit", "await", "collect", "finish"}

\* An attempt was begun for whatever runs or has been answered by a worker.
AttemptInv ==
    \A i \in Slots :
        /\ stage[i] = "idle" => attempts[i] = 0
        /\ stage[i] \in {"cleared", "running"} => attempts[i] >= 1
        /\ outcome[i] \in {"success", "failed", "raised"} => attempts[i] >= 1

\* Only devices that are not the canary go to the pool, and each once.
ListInv ==
    /\ pending \subseteq Remaining /\ inFlight \subseteq Remaining
    /\ \A i \in PoolSlots : stage[i] # "idle" => i \in Remaining
    /\ \A i \in inFlight : stage[i] # "idle"
    /\ pc \notin {"begin", "returned"} => args.canary \in TargetKeys

\* A result comes from a slot of its device, or from the rejection of the call.
ResultInv ==
    /\ pc \in {"begin", "canary"} => \A d \in Device : results[d] = "none"
    /\ pc \in FanOut => results[args.canary] = "success"
    /\ \A d \in Device : results[d] # "none" =>
          \/ pc = "returned" /\ args.canary \notin TargetKeys
          \/ \E i \in Slots : KeyOf(i) = d /\ outcome[i] = results[d]

\* Without repeated keys the slots that are collected and the results recorded are the same.
RecordInv ==
    DistinctKeys => \A i \in Remaining :
        /\ results[KeyOf(i)] # "none" =>
              stage[i] = "done" /\ i \notin inFlight /\ outcome[i] = results[KeyOf(i)]
        /\ pc \in Loop /\ stage[i] = "done" /\ i \notin inFlight =>
              outcome[i] = results[KeyOf(i)]

\* No device is forgotten, unless an error or a cancel request has dropped what was pending.
CoverInv ==
    /\ pc = "finish" => pending = {}
    /\ DistinctKeys /\ pc \in Loop /\ ~cancel /\ ~SomeResultNotSuccess =>
          \A i \in Remaining : i \in pending \cup inFlight \/ results[KeyOf(i)] = "success"

\* What is shown as running is in flight, or is the canary.
ShownInv ==
    /\ pc \notin {"shutdown", "returned", "raised"} =>
          \A d \in Device : shown[d] = "running" =>
              (pc = "canary" /\ d = args.canary) \/ \E i \in inFlight : KeyOf(i) = d
    /\ pc = "returned" /\ verdict # "cancelled" => \A d \in Device : shown[d] # "running"
    /\ DistinctKeys => \A d \in Device : results[d] # "none" => shown[d] = results[d]

\* The verdict is announced when it is set.
AnnounceInv ==
    /\ announced = IF verdict = "running" THEN "none" ELSE verdict
    /\ VerdictTruthful

\* Slots of the pool that did not end well.
BadSlots == {i \in PoolSlots : outcome[i] \notin {"none", "success"}}

\* Once a bad result is recorded, nothing is submitted any more.
BlastInv ==
    args.stopOnError /\ DistinctKeys => Cardinality(inFlight \cup BadSlots) <= Concurrency

OInv == AttemptInv /\ ListInv /\ ResultInv /\ RecordInv /\ CoverInv /\ ShownInv /\ AnnounceInv /\ BlastInv

-----------------------------------------------------------------------------
(* Slots and keys: slot 0 is the canary's, the others are named by the     *)
(* target list.                                                            *)
LEMMA KeyFacts ==
    ASSUME TypeOK
    PROVE  /\ Remaining \subseteq PoolSlots /\ 0 \notin Remaining /\ Remaining \subseteq Slots
           /\ args.canary \in Device /\ KeyOf(0) = args.canary
           /\ \A i \in Slots : KeyOf(i) \in Device
           /\ \A i \in Remaining : KeyOf(i) # args.canary /\ KeyOf(i) \in TargetKeys
           /\ TargetKeys \subseteq Device
           /\ \A k \in TargetKeys : k = args.canary \/ \E i \in Remaining : KeyOf(i) = k
           /\ args.stopOnError \in BOOLEAN
  <1>1. args \in Calls
    BY RunArgsAssumption DEF TypeOK
  <1>2. Targets \in Seq(Device) /\ args.canary \in Device /\ args.stopOnError \in BOOLEAN
    BY <1>1 DEF Calls, Targets
  <1>3. \A i \in PoolSlots : Targets[i] \in Device
    BY <1>2 DEF PoolSlots
  <1> QED BY <1>2, <1>3, SlotFacts DEF Remaining, PoolSlots, KeyOf, TargetKeys

(* The call of run_job does not change, nor does what it names.            *)
LEMMA ArgsStay == 
    ASSUME [Next]_vars
    PROVE  /\ args' = args
           /\ Remaining' = Remaining /\ TargetKeys' = TargetKeys
           /\ (\A i : KeyOf(i)' = KeyOf(i)) /\ (DistinctKeys' <=> DistinctKeys)
           /\ Slots' = Slots /\ PoolSlots' = PoolSlots /\ Concurrency' = Concurrency
  <1>1. args' = args
    BY DEF Next, Orchestrate, Begin, BeginCancelled, BeginRejected, BeginCanary, CanaryResult,
       CanaryRaises, Gate, Submit, SubmitEnds, Await, Collect, Shutdown, Finish, Attempt,
       StartAttempt, CallWorker, FinishAttempt, Control, vars
  <1> QED BY <1>1, SameArgs DEF Remaining, TargetKeys, KeyOf, DistinctKeys, Targets

(* An attempt is counted when it begins.                                   *)
LEMMA AttemptStep ==
    ASSUME IInv, OInv, [Next]_vars
    PROVE  AttemptInv'
  <1>1. CASE BeginCancelled \/ BeginRejected \/ BeginCanary
    BY <1>1, KeyFacts, SlotFacts, ArgsStay DEF IInv, OInv, BeginCancelled, BeginRejected,
       BeginCanary, queue, pool, book, control, Conclude, Record, AttemptInv, TypeOK, SlotInv,
       PoolInv, PhaseInv, FanOut
  <1>2. CASE CanaryResult \/ CanaryRaises
    BY <1>2, KeyFacts, SlotFacts, ArgsStay DEF IInv, OInv, CanaryResult, CanaryRaises, queue, pool,
       book, control, Conclude, Record, CanaryPassed, AttemptInv, TypeOK, SlotInv, PoolInv,
       PhaseInv, FanOut
  <1>3. CASE Gate \/ SubmitEnds \/ Await
    BY <1>3, KeyFacts, SlotFacts, ArgsStay DEF IInv, OInv, Gate, SubmitEnds, Await, queue, pool,
       book, control, Conclude, AfterSubmit, AttemptInv, TypeOK, SlotInv, PoolInv, PhaseInv, FanOut
  <1>4. ASSUME NEW i \in Slots, Submit(i) PROVE AttemptInv'
    BY <1>4, KeyFacts, SlotFacts, ArgsStay DEF IInv, OInv, Submit, queue, pool, book, control,
       AttemptInv, TypeOK, SlotInv, PoolInv, PhaseInv, FanOut
  <1>5. ASSUME NEW i \in Slots, Collect(i) PROVE AttemptInv'
    BY <1>5, KeyFacts, SlotFacts, ArgsStay DEF IInv, OInv, Collect, queue, pool, book, control,
       Conclude, Record, AttemptInv, TypeOK, SlotInv, PoolInv, PhaseInv, FanOut
  <1>6. CASE Shutdown \/ Finish
    BY <1>6, KeyFacts, SlotFacts, ArgsStay DEF IInv, OInv, Shutdown, Finish, queue, pool, book,
       control, PoolDrained, Conclude, AttemptInv, TypeOK, SlotInv, PoolInv, PhaseInv, FanOut
  <1>7. ASSUME NEW i \in Slots, StartAttempt(i) \/ CallWorker(i) \/ FinishAttempt(i) PROVE AttemptInv'
    BY <1>7, KeyFacts, SlotFacts, ArgsStay DEF IInv, OInv, StartAttempt, CallWorker, FinishAttempt, queue, pool,
       book, control, CancelSeen, AttemptInv, TypeOK, SlotInv, PoolInv, PhaseInv, FanOut
  <1>8. CASE Control \/ UNCHANGED vars
    BY <1>8, KeyFacts, SlotFacts, ArgsStay DEF IInv, OInv, Control, vars, queue, pool, book,
       control, Pause, Resume, Cancel, AttemptInv, TypeOK, SlotInv, PoolInv, PhaseInv, FanOut
  <1> QED BY <1>1, <1>2, <1>3, <1>4, <1>5, <1>6, <1>7, <1>8 DEF Next, Orchestrate, Begin, Attempt

(* The pool is given what CanaryResult made pending.                       *)
LEMMA ListStep ==
    ASSUME IInv, OInv, [Next]_vars
    PROVE  ListInv'
  <1>1. CASE BeginCancelled \/ BeginRejected \/ BeginCanary
    BY <1>1, KeyFacts, SlotFacts, ArgsStay DEF IInv, OInv, BeginCancelled, BeginRejected,
       BeginCanary, queue, pool, book, control, Conclude, Record, ListInv, Executing, TypeOK,
       SlotInv, PoolInv, PhaseInv, FanOut
  <1>2. CASE CanaryResult \/ CanaryRaises
    BY <1>2, KeyFacts, SlotFacts, ArgsStay DEF IInv, OInv, CanaryResult, CanaryRaises, queue, pool,
       book, control, Conclude, Record, CanaryPassed, ListInv, Executing, TypeOK, SlotInv, PoolInv,
       PhaseInv, FanOut
  <1>3. CASE Gate \/ SubmitEnds \/ Await
    BY <1>3, KeyFacts, SlotFacts, ArgsStay DEF IInv, OInv, Gate, SubmitEnds, Await, queue, pool,
       book, control, Conclude, AfterSubmit, ListInv, Executing, TypeOK, SlotInv, PoolInv, PhaseInv,
       FanOut
  <1>4. ASSUME NEW i \in Slots, Submit(i) PROVE ListInv'
    BY <1>4, KeyFacts, SlotFacts, ArgsStay DEF IInv, OInv, Submit, queue, pool, book, control,
       ListInv, Executing, TypeOK, SlotInv, PoolInv, PhaseInv, FanOut
  <1>5. ASSUME NEW i \in Slots, Collect(i) PROVE ListInv'
    BY <1>5, KeyFacts, SlotFacts, ArgsStay DEF IInv, OInv, Collect, queue, pool, book, control,
       Conclude, Record, ListInv, Executing, TypeOK, SlotInv, PoolInv, PhaseInv, FanOut
  <1>6. CASE Shutdown \/ Finish
    BY <1>6, KeyFacts, SlotFacts, ArgsStay DEF IInv, OInv, Shutdown, Finish, queue, pool, book,
       control, PoolDrained, Conclude, ListInv, Executing, TypeOK, SlotInv, PoolInv, PhaseInv,
       FanOut
  <1>7. ASSUME NEW i \in Slots, StartAttempt(i) \/ CallWorker(i) \/ FinishAttempt(i) PROVE ListInv'
    BY <1>7, KeyFacts, SlotFacts, ArgsStay DEF IInv, OInv, StartAttempt, CallWorker, FinishAttempt, queue, pool,
       book, control, CancelSeen, ListInv, Executing, TypeOK, SlotInv, PoolInv, PhaseInv, FanOut
  <1>8. CASE Control \/ UNCHANGED vars
    BY <1>8, KeyFacts, SlotFacts, ArgsStay DEF IInv, OInv, Control, vars, queue, pool, book,
       control, Pause, Resume, Cancel, ListInv, Executing, TypeOK, SlotInv, PoolInv, PhaseInv,
       FanOut
  <1> QED BY <1>1, <1>2, <1>3, <1>4, <1>5, <1>6, <1>7, <1>8 DEF Next, Orchestrate, Begin, Attempt

(* What collecting one future does: its slot is done, and its outcome is   *)
(* recorded and shown unless the worker raised.                            *)
LEMMA CollectFacts ==
    ASSUME IInv, OInv, NEW i \in Slots, Collect(i)
    PROVE  /\ i \in Remaining /\ i \in inFlight /\ stage[i] = "done"
           /\ outcome[i] \in {"success", "failed", "cancelled", "raised"}
           /\ inFlight' = inFlight \ {i} /\ pc = "collect"
           /\ UNCHANGED <<args, pending, pool, control>>
           /\ outcome[i] = "raised" =>
                 pc' = "shutdown" /\ UNCHANGED book
           /\ outcome[i] # "raised" =>
                 \A d \in Device : /\ results'[d] = IF d = KeyOf(i) THEN outcome[i] ELSE results[d]
                                  /\ shown'[d] = IF d = KeyOf(i) THEN outcome[i] ELSE shown[d]
           /\ outcome[i] = "cancelled" => pc' = "shutdown" /\ verdict' = "cancelled" /\ announced' = "cancelled"
           /\ outcome[i] \in {"success", "failed"} =>
                 /\ pc' \in {"collect", "finish", "gate"} /\ UNCHANGED <<verdict, announced>>
                 /\ pc' = "finish" => pending = {} /\ inFlight' = {}
  BY SlotFacts DEF IInv, OInv, Collect, Conclude, Record, TypeOK, SlotInv, PoolInv, ListInv, Outcome

(* Results are recorded from the slot of their device.                     *)
LEMMA ResultStep ==
    ASSUME IInv, OInv, [Next]_vars
    PROVE  ResultInv'
  <1>1. CASE BeginCancelled \/ BeginRejected \/ BeginCanary
    BY <1>1, KeyFacts, SlotFacts, ArgsStay DEF IInv, OInv, BeginCancelled, BeginRejected,
       BeginCanary, queue, pool, book, control, Conclude, Record, ResultInv, ListInv, Outcome,
       TypeOK, SlotInv, PoolInv, PhaseInv, FanOut
  <1>2. CASE CanaryResult \/ CanaryRaises
    BY <1>2, KeyFacts, SlotFacts, ArgsStay DEF IInv, OInv, CanaryResult, CanaryRaises, queue, pool,
       book, control, Conclude, Record, CanaryPassed, ResultInv, ListInv, Outcome, TypeOK, SlotInv,
       PoolInv, PhaseInv, FanOut
  <1>3. CASE Gate \/ SubmitEnds \/ Await
    BY <1>3, KeyFacts, SlotFacts, ArgsStay DEF IInv, OInv, Gate, SubmitEnds, Await, queue, pool,
       book, control, Conclude, AfterSubmit, ResultInv, ListInv, Outcome, TypeOK, SlotInv, PoolInv,
       PhaseInv, FanOut
  <1>4. ASSUME NEW i \in Slots, Submit(i) PROVE ResultInv'
    BY <1>4, KeyFacts, SlotFacts, ArgsStay DEF IInv, OInv, Submit, queue, pool, book, control,
       ResultInv, ListInv, Outcome, TypeOK, SlotInv, PoolInv, PhaseInv, FanOut
  <1>5. ASSUME NEW i \in Slots, Collect(i) PROVE ResultInv'
    <2>1. CASE outcome[i] = "raised"
      BY <1>5, <2>1, CollectFacts, ArgsStay DEF OInv, ResultInv, FanOut, book, pool
    <2>2. CASE outcome[i] # "raised"
      <3>1. /\ outcome' = outcome /\ pc = "collect" /\ pc' \in {"shutdown", "collect", "finish", "gate"}
            /\ \A d \in Device : results'[d] = IF d = KeyOf(i) THEN outcome[i] ELSE results[d]
        BY <1>5, <2>2, CollectFacts DEF pool
      <3>2. KeyOf(i) # args.canary /\ args.canary \in Device
        BY <1>5, CollectFacts, KeyFacts DEF IInv
      <3>3. results'[args.canary] = "success"
        BY <3>1, <3>2 DEF OInv, ResultInv, FanOut
      <3>4. \A d \in Device : results'[d] # "none" => \E k \in Slots : KeyOf(k) = d /\ outcome[k] = results'[d]
        BY <1>5, <3>1 DEF OInv, ResultInv
      <3> QED BY <3>1, <3>3, <3>4, ArgsStay DEF ResultInv
    <2> QED BY <2>1, <2>2
  <1>6. CASE Shutdown \/ Finish
    BY <1>6, KeyFacts, SlotFacts, ArgsStay DEF IInv, OInv, Shutdown, Finish, queue, pool, book,
       control, PoolDrained, Conclude, ResultInv, ListInv, Outcome, TypeOK, SlotInv, PoolInv,
       PhaseInv, FanOut
  <1>7. ASSUME NEW i \in Slots, StartAttempt(i) \/ CallWorker(i) \/ FinishAttempt(i) PROVE ResultInv'
    BY <1>7, KeyFacts, SlotFacts, ArgsStay DEF IInv, OInv, StartAttempt, CallWorker, FinishAttempt, queue, pool,
       book, control, CancelSeen, ResultInv, ListInv, Outcome, TypeOK, SlotInv, PoolInv, PhaseInv,
       FanOut
  <1>8. CASE Control \/ UNCHANGED vars
    BY <1>8, KeyFacts, SlotFacts, ArgsStay DEF IInv, OInv, Control, vars, queue, pool, book,
       control, Pause, Resume, Cancel, ResultInv, ListInv, Outcome, TypeOK, SlotInv, PoolInv,
       PhaseInv, FanOut
  <1> QED BY <1>1, <1>2, <1>3, <1>4, <1>5, <1>6, <1>7, <1>8 DEF Next, Orchestrate, Begin, Attempt

(* Only a future that is collected leaves a result, for its own device.    *)
LEMMA RecordStep ==
    ASSUME IInv, OInv, [Next]_vars
    PROVE  RecordInv'
  <1>1. CASE BeginCancelled \/ BeginRejected \/ BeginCanary
    BY <1>1, KeyFacts, SlotFacts, ArgsStay DEF IInv, OInv, BeginCancelled, BeginRejected,
       BeginCanary, queue, pool, book, control, Conclude, Record, RecordInv, Loop, Executing,
       ListInv, ResultInv, Outcome, TypeOK, SlotInv, PoolInv, PhaseInv, FanOut
  <1>2. CASE CanaryResult \/ CanaryRaises
    BY <1>2, KeyFacts, SlotFacts, ArgsStay DEF IInv, OInv, CanaryResult, CanaryRaises, queue, pool,
       book, control, Conclude, Record, CanaryPassed, RecordInv, Loop, Executing, ListInv,
       ResultInv, Outcome, TypeOK, SlotInv, PoolInv, PhaseInv, FanOut
  <1>3. CASE Gate \/ SubmitEnds \/ Await
    BY <1>3, KeyFacts, SlotFacts, ArgsStay DEF IInv, OInv, Gate, SubmitEnds, Await, queue, pool,
       book, control, Conclude, AfterSubmit, RecordInv, Loop, Executing, ListInv, ResultInv,
       Outcome, TypeOK, SlotInv, PoolInv, PhaseInv, FanOut
  <1>4. ASSUME NEW i \in Slots, Submit(i) PROVE RecordInv'
    BY <1>4, KeyFacts, SlotFacts, ArgsStay DEF IInv, OInv, Submit, queue, pool, book, control,
       RecordInv, Loop, Executing, ListInv, ResultInv, Outcome, TypeOK, SlotInv, PoolInv, PhaseInv,
       FanOut
  <1>5. ASSUME NEW i \in Slots, Collect(i) PROVE RecordInv'
    <2>1. \A j \in Remaining \ {i} : KeyOf(j) = KeyOf(i) => ~DistinctKeys
      BY <1>5, CollectFacts DEF DistinctKeys
    <2>2. SUFFICES ASSUME DistinctKeys, NEW j \in Remaining
                   PROVE  /\ results'[KeyOf(j)] # "none" =>
                               stage[j] = "done" /\ j \notin inFlight' /\ outcome[j] = results'[KeyOf(j)]
                          /\ pc' \in Loop /\ stage[j] = "done" /\ j \notin inFlight' =>
                               outcome[j] = results'[KeyOf(j)]
      BY <1>5, ArgsStay, CollectFacts DEF RecordInv, pool
    <2>3. KeyOf(j) \in Device /\ (j # i => KeyOf(j) # KeyOf(i))
      BY <2>1, <2>2, KeyFacts DEF IInv
    <2>4. CASE outcome[i] = "raised"
      BY <1>5, <2>2, <2>3, <2>4, CollectFacts DEF OInv, RecordInv, Loop, book
    <2>5. CASE outcome[i] # "raised"
      BY <1>5, <2>2, <2>3, <2>5, CollectFacts DEF OInv, RecordInv, Loop
    <2> QED BY <2>4, <2>5
  <1>6. CASE Shutdown \/ Finish
    BY <1>6, KeyFacts, SlotFacts, ArgsStay DEF IInv, OInv, Shutdown, Finish, queue, pool, book,
       control, PoolDrained, Conclude, RecordInv, Loop, Executing, ListInv, ResultInv, Outcome,
       TypeOK, SlotInv, PoolInv, PhaseInv, FanOut
  <1>7. ASSUME NEW i \in Slots, StartAttempt(i) \/ CallWorker(i) \/ FinishAttempt(i) PROVE RecordInv'
    BY <1>7, KeyFacts, SlotFacts, ArgsStay DEF IInv, OInv, StartAttempt, CallWorker, FinishAttempt, queue, pool,
       book, control, CancelSeen, RecordInv, Loop, Executing, ListInv, ResultInv, Outcome, TypeOK,
       SlotInv, PoolInv, PhaseInv, FanOut
  <1>8. CASE Control \/ UNCHANGED vars
    BY <1>8, KeyFacts, SlotFacts, ArgsStay DEF IInv, OInv, Control, vars, queue, pool, book,
       control, Pause, Resume, Cancel, RecordInv, Loop, Executing, ListInv, ResultInv, Outcome,
       TypeOK, SlotInv, PoolInv, PhaseInv, FanOut
  <1> QED BY <1>1, <1>2, <1>3, <1>4, <1>5, <1>6, <1>7, <1>8 DEF Next, Orchestrate, Begin, Attempt

(* What is pending is dropped only after a bad result or a cancel request. *)
LEMMA CoverStep ==
    ASSUME IInv, OInv, [Next]_vars
    PROVE  CoverInv'
  <1>1. CASE BeginCancelled \/ BeginRejected \/ BeginCanary
    BY <1>1, KeyFacts, SlotFacts, ArgsStay, PoolFinite, FS_EmptySet DEF IInv, OInv, BeginCancelled,
       BeginRejected, BeginCanary, queue, pool, book, control, Conclude, Record, CoverInv, Loop,
       RecordInv, SomeResultNotSuccess, ErrorStops, PoolHasRoom, ListInv, ResultInv, TypeOK,
       SlotInv, PoolInv, PhaseInv, FanOut
  <1>2. CASE CanaryResult \/ CanaryRaises
    BY <1>2, KeyFacts, SlotFacts, ArgsStay, PoolFinite, FS_EmptySet DEF IInv, OInv, CanaryResult,
       CanaryRaises, queue, pool, book, control, Conclude, Record, CanaryPassed, CoverInv, Loop,
       RecordInv, SomeResultNotSuccess, ErrorStops, PoolHasRoom, ListInv, ResultInv, TypeOK,
       SlotInv, PoolInv, PhaseInv, FanOut
  <1>3. CASE Gate \/ SubmitEnds \/ Await
    BY <1>3, KeyFacts, SlotFacts, ArgsStay, PoolFinite, FS_EmptySet DEF IInv, OInv, Gate,
       SubmitEnds, Await, queue, pool, book, control, Conclude, AfterSubmit, CoverInv, Loop,
       RecordInv, SomeResultNotSuccess, ErrorStops, PoolHasRoom, ListInv, ResultInv, TypeOK,
       SlotInv, PoolInv, PhaseInv, FanOut
  <1>4. ASSUME NEW i \in Slots, Submit(i) PROVE CoverInv'
    BY <1>4, KeyFacts, SlotFacts, ArgsStay, PoolFinite, FS_EmptySet DEF IInv, OInv, Submit, queue,
       pool, book, control, CoverInv, Loop, RecordInv, SomeResultNotSuccess, ErrorStops,
       PoolHasRoom, ListInv, ResultInv, TypeOK, SlotInv, PoolInv, PhaseInv, FanOut
  <1>5. ASSUME NEW i \in Slots, Collect(i) PROVE CoverInv'
    <2>1. pc' = "finish" => pending' = {}
      BY <1>5, CollectFacts
    <2>2. SUFFICES ASSUME DistinctKeys, pc' \in Loop, ~cancel', ~SomeResultNotSuccess', NEW j \in Remaining
                   PROVE  j \in pending' \cup inFlight' \/ results'[KeyOf(j)] = "success"
      BY <1>5, <2>1, ArgsStay DEF CoverInv
    <2>3. KeyOf(i) \in Device /\ KeyOf(j) \in Device
      BY <1>5, <2>2, KeyFacts, CollectFacts DEF IInv
    <2>4. outcome[i] = "success"
      BY <1>5, <2>2, <2>3, CollectFacts DEF Loop, SomeResultNotSuccess
    <2>5. ~cancel /\ ~SomeResultNotSuccess
      <3>1. results[KeyOf(i)] = "none"
        BY <1>5, <2>2, CollectFacts DEF OInv, RecordInv
      <3> QED BY <1>5, <2>2, <2>4, <3>1, CollectFacts DEF SomeResultNotSuccess, control
    <2> QED BY <1>5, <2>2, <2>3, <2>4, <2>5, CollectFacts DEF OInv, CoverInv, Loop
  <1>6. CASE Shutdown \/ Finish
    BY <1>6, KeyFacts, SlotFacts, ArgsStay, PoolFinite, FS_EmptySet DEF IInv, OInv, Shutdown,
       Finish, queue, pool, book, control, PoolDrained, Conclude, CoverInv, Loop, RecordInv,
       SomeResultNotSuccess, ErrorStops, PoolHasRoom, ListInv, ResultInv, TypeOK, SlotInv, PoolInv,
       PhaseInv, FanOut
  <1>7. ASSUME NEW i \in Slots, StartAttempt(i) \/ CallWorker(i) \/ FinishAttempt(i) PROVE CoverInv'
    BY <1>7, KeyFacts, SlotFacts, ArgsStay, PoolFinite, FS_EmptySet DEF IInv, OInv, StartAttempt,
       CallWorker, FinishAttempt, queue, pool, book, control, CancelSeen, CoverInv, Loop, RecordInv,
       SomeResultNotSuccess, ErrorStops, PoolHasRoom, ListInv, ResultInv, TypeOK, SlotInv, PoolInv,
       PhaseInv, FanOut
  <1>8. CASE Control \/ UNCHANGED vars
    BY <1>8, KeyFacts, SlotFacts, ArgsStay, PoolFinite, FS_EmptySet DEF IInv, OInv, Control, vars,
       queue, pool, book, control, Pause, Resume, Cancel, CoverInv, Loop, RecordInv,
       SomeResultNotSuccess, ErrorStops, PoolHasRoom, ListInv, ResultInv, TypeOK, SlotInv, PoolInv,
       PhaseInv, FanOut
  <1> QED BY <1>1, <1>2, <1>3, <1>4, <1>5, <1>6, <1>7, <1>8 DEF Next, Orchestrate, Begin, Attempt

(* Whoever is shown as running is in flight until its result is shown.     *)
LEMMA ShownStep ==
    ASSUME IInv, OInv, [Next]_vars
    PROVE  ShownInv'
  <1>1. CASE BeginCancelled \/ BeginRejected \/ BeginCanary
    BY <1>1, KeyFacts, SlotFacts, ArgsStay DEF IInv, OInv, BeginCancelled, BeginRejected,
       BeginCanary, queue, pool, book, control, Conclude, Record, ShownInv, Loop, VerdictInv,
       Verdict, Outcome, RecordInv, ResultInv, ListInv, AnnounceInv, TypeOK, SlotInv, PoolInv,
       PhaseInv, FanOut
  <1>2. CASE CanaryResult \/ CanaryRaises
    <2>1. CASE CanaryRaises
      BY <1>2, <2>1, ArgsStay DEF OInv, CanaryRaises, ShownInv, book
    <2>2. CASE CanaryResult
      <3>1. /\ pc = "canary" /\ pc' \in {"returned", "gate"} /\ inFlight' = inFlight
            /\ outcome[0] \in {"success", "failed", "cancelled"}
        BY <2>2, SlotFacts DEF CanaryResult, IInv, TypeOK, SlotInv, Outcome
      <3>2. args.canary \in Device /\ inFlight = {} /\ \A d \in Device : results[d] = "none"
        BY <3>1, KeyFacts DEF IInv, OInv, PhaseInv, ResultInv
      <3>3. \A d \in Device :
              /\ results'[d] = IF d = args.canary THEN outcome[0] ELSE results[d]
              /\ shown'[d] = IF d = args.canary THEN outcome[0] ELSE shown[d]
        BY <2>2 DEF CanaryResult, Record, IInv, TypeOK
      <3>4. \A d \in Device : shown'[d] # "running"
        BY <3>1, <3>2, <3>3 DEF OInv, ShownInv
      <3>5. \A d \in Device : results'[d] # "none" => shown'[d] = results'[d]
        BY <3>2, <3>3
      <3> QED BY <3>1, <3>4, <3>5 DEF ShownInv
    <2> QED BY <1>2, <2>1, <2>2
  <1>3. CASE Gate \/ SubmitEnds \/ Await
    BY <1>3, KeyFacts, SlotFacts, ArgsStay DEF IInv, OInv, Gate, SubmitEnds, Await, queue, pool,
       book, control, Conclude, AfterSubmit, ShownInv, Loop, VerdictInv, Verdict, Outcome,
       RecordInv, ResultInv, ListInv, AnnounceInv, TypeOK, SlotInv, PoolInv, PhaseInv, FanOut
  <1>4. ASSUME NEW i \in Slots, Submit(i) PROVE ShownInv'
    BY <1>4, KeyFacts, SlotFacts, ArgsStay DEF IInv, OInv, Submit, queue, pool, book, control,
       ShownInv, Loop, VerdictInv, Verdict, Outcome, RecordInv, ResultInv, ListInv, AnnounceInv,
       TypeOK, SlotInv, PoolInv, PhaseInv, FanOut
  <1>5. ASSUME NEW i \in Slots, Collect(i) PROVE ShownInv'
    <2>1. KeyOf(i) \in Device
      BY <1>5, KeyFacts, CollectFacts DEF IInv
    <2>2. CASE outcome[i] = "raised"
      BY <1>5, <2>2, ArgsStay, CollectFacts DEF OInv, ShownInv, book
    <2>3. CASE outcome[i] # "raised"
      <3>1. pc' \notin {"shutdown", "returned", "raised"} =>
              \A d \in Device : shown'[d] = "running" => \E j \in inFlight' : KeyOf(j) = d
        BY <1>5, <2>1, <2>3, CollectFacts DEF OInv, ShownInv
      <3>2. pc' # "returned"
        BY <1>5, <2>3, CollectFacts
      <3>3. DistinctKeys => \A d \in Device : results'[d] # "none" => shown'[d] = results'[d]
        BY <1>5, <2>1, <2>3, CollectFacts DEF OInv, ShownInv
      <3> QED BY <3>1, <3>2, <3>3, ArgsStay DEF ShownInv
    <2> QED BY <2>2, <2>3
  <1>6. CASE Shutdown \/ Finish
    BY <1>6, KeyFacts, SlotFacts, ArgsStay DEF IInv, OInv, Shutdown, Finish, queue, pool, book,
       control, PoolDrained, Conclude, ShownInv, Loop, VerdictInv, Verdict, Outcome, RecordInv,
       ResultInv, ListInv, AnnounceInv, TypeOK, SlotInv, PoolInv, PhaseInv, FanOut
  <1>7. ASSUME NEW i \in Slots, StartAttempt(i) \/ CallWorker(i) \/ FinishAttempt(i) PROVE ShownInv'
    BY <1>7, KeyFacts, SlotFacts, ArgsStay DEF IInv, OInv, StartAttempt, CallWorker, FinishAttempt, queue, pool,
       book, control, CancelSeen, ShownInv, Loop, VerdictInv, Verdict, Outcome, RecordInv,
       ResultInv, ListInv, AnnounceInv, TypeOK, SlotInv, PoolInv, PhaseInv, FanOut
  <1>8. CASE Control \/ UNCHANGED vars
    BY <1>8, KeyFacts, SlotFacts, ArgsStay DEF IInv, OInv, Control, vars, queue, pool, book,
       control, Pause, Resume, Cancel, ShownInv, Loop, VerdictInv, Verdict, Outcome, RecordInv,
       ResultInv, ListInv, AnnounceInv, TypeOK, SlotInv, PoolInv, PhaseInv, FanOut
  <1> QED BY <1>1, <1>2, <1>3, <1>4, <1>5, <1>6, <1>7, <1>8 DEF Next, Orchestrate, Begin, Attempt

(* A verdict is announced with its reason, and the reason stays.           *)
LEMMA AnnounceStep ==
    ASSUME IInv, OInv, [Next]_vars
    PROVE  AnnounceInv'
  <1>1. CASE BeginCancelled \/ BeginRejected \/ BeginCanary
    BY <1>1, KeyFacts, SlotFacts, ArgsStay DEF IInv, OInv, BeginCancelled, BeginRejected,
       BeginCanary, queue, pool, book, control, Conclude, Record, AnnounceInv, Loop, Outcome,
       VerdictTruthful, VerdictInv, CoverInv, SomeResultNotSuccess, RecordInv, ResultInv, ListInv,
       Executing, Over, TypeOK, SlotInv, PoolInv, PhaseInv, FanOut
  <1>2. CASE CanaryResult \/ CanaryRaises
    BY <1>2, KeyFacts, SlotFacts, ArgsStay DEF IInv, OInv, CanaryResult, CanaryRaises, queue, pool,
       book, control, Conclude, Record, CanaryPassed, AnnounceInv, Loop, Outcome, VerdictTruthful,
       VerdictInv, CoverInv, SomeResultNotSuccess, RecordInv, ResultInv, ListInv, Executing, Over,
       TypeOK, SlotInv, PoolInv, PhaseInv, FanOut
  <1>3. CASE Gate \/ SubmitEnds \/ Await
    BY <1>3, KeyFacts, SlotFacts, ArgsStay DEF IInv, OInv, Gate, SubmitEnds, Await, queue, pool,
       book, control, Conclude, AfterSubmit, AnnounceInv, Loop, Outcome, VerdictTruthful,
       VerdictInv, CoverInv, SomeResultNotSuccess, RecordInv, ResultInv, ListInv, Executing, Over,
       TypeOK, SlotInv, PoolInv, PhaseInv, FanOut
  <1>4. ASSUME NEW i \in Slots, Submit(i) PROVE AnnounceInv'
    BY <1>4, KeyFacts, SlotFacts, ArgsStay DEF IInv, OInv, Submit, queue, pool, book, control,
       AnnounceInv, Loop, Outcome, VerdictTruthful, VerdictInv, CoverInv, SomeResultNotSuccess,
       RecordInv, ResultInv, ListInv, Executing, Over, TypeOK, SlotInv, PoolInv, PhaseInv, FanOut
  <1>5. ASSUME NEW i \in Slots, Collect(i) PROVE AnnounceInv'
    BY <1>5, KeyFacts, SlotFacts, ArgsStay DEF IInv, OInv, Collect, queue, pool, book, control,
       Conclude, Record, AnnounceInv, Loop, Outcome, VerdictTruthful, VerdictInv, CoverInv,
       SomeResultNotSuccess, RecordInv, ResultInv, ListInv, Executing, Over, TypeOK, SlotInv,
       PoolInv, PhaseInv, FanOut
  <1>6. CASE Shutdown \/ Finish
    BY SMTT(30), <1>6, KeyFacts, SlotFacts, ArgsStay DEF IInv, OInv, Shutdown, Finish, queue, pool, book,
       control, PoolDrained, Conclude, AnnounceInv, Loop, Outcome, VerdictTruthful, VerdictInv,
       CoverInv, SomeResultNotSuccess, RecordInv, ResultInv, ListInv, Executing, Over, TypeOK,
       SlotInv, PoolInv, PhaseInv, FanOut
  <1>7. ASSUME NEW i \in Slots, StartAttempt(i) \/ CallWorker(i) \/ FinishAttempt(i) PROVE AnnounceInv'
    BY <1>7, KeyFacts, SlotFacts, ArgsStay DEF IInv, OInv, StartAttempt, CallWorker, FinishAttempt, queue, pool,
       book, control, CancelSeen, AnnounceInv, Loop, Outcome, VerdictTruthful, VerdictInv, CoverInv,
       SomeResultNotSuccess, RecordInv, ResultInv, ListInv, Executing, Over, TypeOK, SlotInv,
       PoolInv, PhaseInv, FanOut
  <1>8. CASE Control \/ UNCHANGED vars
    BY <1>8, KeyFacts, SlotFacts, ArgsStay DEF IInv, OInv, Control, vars, queue, pool, book,
       control, Pause, Resume, Cancel, AnnounceInv, Loop, Outcome, VerdictTruthful, VerdictInv,
       CoverInv, SomeResultNotSuccess, RecordInv, ResultInv, ListInv, Executing, Over, TypeOK,
       SlotInv, PoolInv, PhaseInv, FanOut
  <1> QED BY <1>1, <1>2, <1>3, <1>4, <1>5, <1>6, <1>7, <1>8 DEF Next, Orchestrate, Begin, Attempt

(* A device is submitted only if all bad slots are still in flight, so     *)
(* that it takes the place that PoolHasRoom has found.                     *)
LEMMA BadInFlight ==
    ASSUME IInv, OInv, DistinctKeys, args.stopOnError, NEW i \in Slots, Submit(i)
    PROVE  BadSlots \subseteq inFlight
  <1> SUFFICES ASSUME NEW j \in BadSlots, j \notin inFlight
               PROVE  FALSE
    OBVIOUS
  <1>1. pc = "submit" /\ ~ErrorStops
    BY DEF Submit
  <1>2. stage[j] = "done" /\ j \in Remaining
    BY SlotFacts DEF IInv, OInv, BadSlots, SlotInv, ListInv, TypeOK
  <1>3. outcome[j] = results[KeyOf(j)] /\ KeyOf(j) \in Device
    BY <1>1, <1>2, KeyFacts DEF IInv, OInv, RecordInv, Loop
  <1> QED BY <1>1, <1>3 DEF BadSlots, ErrorStops, SomeResultNotSuccess

(* The slots in flight and the bad ones are finitely many.                 *)
LEMMA BadFinite ==
    ASSUME TypeOK, PoolInv
    PROVE  /\ IsFiniteSet(inFlight \cup BadSlots) /\ Cardinality(inFlight \cup BadSlots) \in Nat
           /\ Concurrency \in Nat /\ Concurrency >= 1
  <1>1. IsFiniteSet(PoolSlots)
    BY SlotFacts, FS_Interval DEF PoolSlots
  <1>2. inFlight \cup BadSlots \subseteq PoolSlots
    BY DEF PoolInv, BadSlots
  <1>3. IsFiniteSet(inFlight \cup BadSlots)
    BY <1>1, <1>2, FS_Subset
  <1> QED BY <1>3, FS_CardinalityType, PoolFinite

(* No step but a submission lets more slots be bad or in flight.           *)
LEMMA BlastStep ==
    ASSUME IInv, OInv, [Next]_vars
    PROVE  BlastInv'
  <1> SUFFICES ASSUME args.stopOnError, DistinctKeys
               PROVE  Cardinality(inFlight' \cup BadSlots') <= Concurrency
    BY ArgsStay DEF BlastInv
  <1>0. /\ IsFiniteSet(inFlight \cup BadSlots) /\ Cardinality(inFlight \cup BadSlots) \in Nat
        /\ Concurrency \in Nat
    BY BadFinite DEF IInv
  <1>1. Cardinality(inFlight \cup BadSlots) <= Concurrency
    BY DEF OInv, BlastInv
  <1>2. ASSUME NEW i \in Slots, Submit(i)
        PROVE  Cardinality(inFlight' \cup BadSlots') <= Concurrency
    <2>1. inFlight' = inFlight \cup {i} /\ BadSlots' = BadSlots /\ Cardinality(inFlight) < Concurrency
      BY <1>2, ArgsStay DEF Submit, PoolHasRoom, BadSlots
    <2>2. inFlight' \cup BadSlots' = inFlight \cup {i}
      BY <1>2, <2>1, BadInFlight
    <2>3. Cardinality(inFlight \cup {i}) =
            IF i \in inFlight THEN Cardinality(inFlight) ELSE Cardinality(inFlight) + 1
      BY PoolFinite, FS_AddElement, Zenon DEF IInv
    <2>4. Cardinality(inFlight) \in Nat
      BY PoolFinite DEF IInv
    <2> QED BY <1>0, <2>1, <2>2, <2>3, <2>4
  <1>3. CASE inFlight' \cup BadSlots' \subseteq inFlight \cup BadSlots
    <2>1. Cardinality(inFlight' \cup BadSlots') <= Cardinality(inFlight \cup BadSlots)
      BY <1>0, <1>3, FS_Subset
    <2>2. IsFiniteSet(inFlight' \cup BadSlots')
      BY <1>0, <1>3, FS_Subset
    <2>3. Cardinality(inFlight' \cup BadSlots') \in Nat
      BY <2>2, FS_CardinalityType
    <2> QED BY <1>0, <1>1, <2>1, <2>3
  <1>4. ASSUME NEW i \in Slots, StartAttempt(i) \/ CallWorker(i) \/ FinishAttempt(i)
        PROVE  inFlight' \cup BadSlots' \subseteq inFlight \cup BadSlots
    <2>1. inFlight' = inFlight /\ i \in PoolSlots => i \in inFlight
      BY <1>4 DEF IInv, PoolInv, Executing, StartAttempt, CallWorker, FinishAttempt, queue
    <2>2. \A j \in PoolSlots : j # i => outcome'[j] = outcome[j]
      BY <1>4, SlotFacts DEF IInv, TypeOK, StartAttempt, CallWorker, FinishAttempt
    <2>3. inFlight' = inFlight /\ PoolSlots' = PoolSlots
      BY <1>4, ArgsStay DEF StartAttempt, CallWorker, FinishAttempt, queue
    <2> QED BY <2>1, <2>2, <2>3 DEF BadSlots
  <1>5. \/ \E i \in Slots : Submit(i)
        \/ \E i \in Slots : StartAttempt(i) \/ CallWorker(i) \/ FinishAttempt(i)
        \/ inFlight' \subseteq inFlight /\ outcome' = outcome
    BY DEF Next, Orchestrate, Begin, BeginCancelled, BeginRejected, BeginCanary, CanaryResult,
       CanaryRaises, Gate, SubmitEnds, Await, Collect, Shutdown, Finish, Attempt, Control,
       vars, queue, pool
  <1>6. CASE inFlight' \subseteq inFlight /\ outcome' = outcome
    BY <1>3, <1>6, ArgsStay DEF BadSlots
  <1> QED BY <1>2, <1>3, <1>4, <1>5, <1>6

(* run_job starts with no result, no verdict and nothing shown.            *)
LEMMA InitOInv == Init => OInv
  <1> SUFFICES ASSUME Init PROVE OInv
    OBVIOUS
  <1>0. IInv
    BY InitInv
  <1>1. AttemptInv /\ ListInv
    BY SlotFacts, KeyFacts, <1>0 DEF Init, IInv, AttemptInv, ListInv
  <1>2. ResultInv /\ RecordInv /\ CoverInv
    BY KeyFacts, <1>0 DEF Init, IInv, ResultInv, RecordInv, CoverInv, FanOut, Loop
  <1>3. ShownInv /\ AnnounceInv
    BY DEF Init, ShownInv, AnnounceInv, VerdictTruthful
  <1>4. BlastInv
    <2>1. inFlight \cup BadSlots = {}
      BY SlotFacts, <1>0 DEF Init, IInv, BadSlots
    <2> QED BY <1>0, <2>1, BadFinite, FS_EmptySet DEF IInv, BlastInv
  <1> QED BY <1>1, <1>2, <1>3, <1>4 DEF OInv

(* Both invariants hold throughout every run.                              *)
LEMMA OutcomeInv == Spec => [](IInv /\ OInv)
  <1>1. Init => IInv /\ OInv
    BY InitInv, InitOInv
  <1>2. IInv /\ OInv /\ [Next]_vars => (IInv /\ OInv)'
    BY StepInv, AttemptStep, ListStep, ResultStep, RecordStep, CoverStep, ShownStep, AnnounceStep,
       BlastStep DEF OInv
  <1> QED BY <1>1, <1>2, PTL DEF Spec

-----------------------------------------------------------------------------
(* A verdict is the truth: completed, failed and cancelled have their      *)
(* reason in what the workers returned and in the cancel flag, whatever    *)
(* order the futures are collected in (run_job, its seven exits).          *)
THEOREM VerdictIsTrue == Spec => []VerdictTruthful
  <1>1. OInv => VerdictTruthful
    BY DEF OInv, AnnounceInv
  <1> QED BY <1>1, OutcomeInv, PTL

(* The last device_status event of a device agrees with the summary that   *)
(* run_job returns, and shows nobody as still running.                     *)
THEOREM StreamIsTrue == Spec => []StreamMatchesSummary
  <1>1. OInv => StreamMatchesSummary
    BY DEF OInv, ShownInv, StreamMatchesSummary
  <1> QED BY <1>1, OutcomeInv, PTL

(* With stop_on_error a bad change goes no further than the devices that   *)
(* were in flight together when its first failure was recorded.            *)
THEOREM BlastIsBounded == Spec => []BlastRadius
  <1>1. IInv /\ OInv => BlastRadius
    <2> SUFFICES ASSUME IInv, OInv, args.stopOnError, DistinctKeys
                 PROVE  Cardinality({i \in Slots \ {0} : outcome[i] = "failed"}) <= Concurrency
      BY DEF BlastRadius
    <2> DEFINE Failed == {i \in Slots \ {0} : outcome[i] = "failed"}
    <2>1. Failed \subseteq inFlight \cup BadSlots
      BY SlotFacts DEF IInv, BadSlots
    <2>2. /\ IsFiniteSet(inFlight \cup BadSlots) /\ Cardinality(inFlight \cup BadSlots) \in Nat
          /\ Concurrency \in Nat
      BY BadFinite DEF IInv
    <2>3. Cardinality(Failed) <= Cardinality(inFlight \cup BadSlots) /\ IsFiniteSet(Failed)
      BY <2>1, <2>2, FS_Subset
    <2>4. Cardinality(Failed) \in Nat
      BY <2>3, FS_CardinalityType
    <2>5. Cardinality(inFlight \cup BadSlots) <= Concurrency
      BY DEF OInv, BlastInv
    <2> QED BY <2>2, <2>3, <2>4, <2>5
  <1> QED BY <1>1, OutcomeInv, PTL

-----------------------------------------------------------------------------
(* The contract speaks of devices where the engine has slots.              *)

(* A target has the slot that is named after it, and only that one.        *)
LEMMA SlotOfFacts ==
    ASSUME TypeOK
    PROVE  /\ SlotOf(args.canary) = 0
           /\ \A d \in TargetKeys \ {args.canary} : SlotOf(d) \in Remaining
           /\ \A d \in TargetKeys : SlotOf(d) \in Slots /\ KeyOf(SlotOf(d)) = d
           /\ DistinctKeys => \A i \in Remaining : SlotOf(KeyOf(i)) = i
  <1>1. SlotOf(args.canary) = 0
    BY DEF SlotOf
  <1>2. ASSUME NEW d \in TargetKeys \ {args.canary}
        PROVE  SlotOf(d) \in Remaining /\ KeyOf(SlotOf(d)) = d
    <2>1. \E i \in Slots : i > 0 /\ Targets[i] = d
      BY SlotFacts DEF TargetKeys, PoolSlots
    <2>2. SlotOf(d) \in Slots /\ SlotOf(d) > 0 /\ Targets[SlotOf(d)] = d
      BY <2>1 DEF SlotOf
    <2> QED BY <2>2, SlotFacts DEF Remaining, PoolSlots, KeyOf
  <1>3. \A d \in TargetKeys : SlotOf(d) \in Slots /\ KeyOf(SlotOf(d)) = d
    BY <1>1, <1>2, KeyFacts, SlotFacts
  <1>4. DistinctKeys => \A i \in Remaining : SlotOf(KeyOf(i)) = i
    BY <1>2, KeyFacts DEF DistinctKeys
  <1> QED BY <1>1, <1>2, <1>3, <1>4

(* The orders and the slots of devices are those of the call.              *)
LEMMA OrderStays ==
    ASSUME [Next]_vars
    PROVE  /\ Ordered' = Ordered
           /\ \A d \in Device : SlotOf(d)' = SlotOf(d)
  <1>1. args' = args /\ Slots' = Slots /\ Targets' = Targets
    BY ArgsStay DEF Targets
  <1> QED BY <1>1, ArgsStay DEF Ordered, SlotOf

(* The fate of a device changes only with that of its slot.                *)
LEMMA FateMoves ==
    ASSUME TypeOK, DistinctKeys, [Next]_vars, NEW i \in Remaining \cup {0},
           args.canary \in TargetKeys,
           \A j \in Slots \ {i} : SlotFate(j)' = SlotFate(j)
    PROVE  /\ KeyOf(i) \in TargetKeys /\ Fate[KeyOf(i)] = SlotFate(i)
           /\ Fate' = [Fate EXCEPT ![KeyOf(i)] = SlotFate(i)']
  <1>1. KeyOf(i) \in TargetKeys /\ SlotOf(KeyOf(i)) = i
    BY KeyFacts, SlotOfFacts
  <1>2. TargetKeys' = TargetKeys /\ \A d \in Device : SlotOf(d)' = SlotOf(d)
    BY ArgsStay, OrderStays
  <1>3. \A d \in TargetKeys \ {KeyOf(i)} : SlotOf(d) \in Slots \ {i}
    BY SlotOfFacts
  <1>4. \A d \in TargetKeys : d \in Device
    BY KeyFacts
  <1>5. SlotFate(SlotOf(KeyOf(i)))' = SlotFate(i)'
    BY <1>1, <1>2, <1>4, ArgsStay
  <1>6. \A d \in TargetKeys \ {KeyOf(i)} : SlotFate(SlotOf(d))' = SlotFate(SlotOf(d))
    BY <1>2, <1>3, <1>4
  <1> QED BY <1>1, <1>2, <1>4, <1>5, <1>6 DEF Fate

(* A step that leaves all slots as they are leaves all devices as they are. *)
LEMMA FateStays ==
    ASSUME TypeOK, [Next]_vars, \A j \in Slots : SlotFate(j)' = SlotFate(j)
    PROVE  Fate' = Fate
  <1>1. TargetKeys' = TargetKeys /\ \A d \in Device : SlotOf(d)' = SlotOf(d)
    BY ArgsStay, OrderStays
  <1>2. \A d \in TargetKeys : d \in Device /\ SlotOf(d) \in Slots
    BY KeyFacts, SlotOfFacts
  <1>3. \A d \in TargetKeys : SlotFate(SlotOf(d))' = SlotFate(SlotOf(d))
    BY <1>1, <1>2
  <1> QED BY <1>1, <1>3 DEF Fate

(* An attempt concerns its own slot, which is that of a target.            *)
LEMMA AttemptFacts ==
    ASSUME IInv, OInv, NEW i \in Slots, StartAttempt(i) \/ CallWorker(i) \/ FinishAttempt(i)
    PROVE  /\ i \in Remaining \cup {0} /\ args.canary \in TargetKeys
           /\ \A j \in Slots \ {i} : SlotFate(j)' = SlotFate(j)
           /\ announced' = announced
           /\ announced = "none" \/ cancel
           /\ outcome[i] = "none"
           /\ i # 0 => i \in inFlight /\ outcome[0] = "success"
           /\ i = 0 => inFlight = {} /\ \A j \in PoolSlots : stage[j] = "idle"
  <1>1. Executing(i) /\ stage[i] # "done"
    BY DEF StartAttempt, CallWorker, FinishAttempt, Executing
  <1>2. pc \notin {"begin", "returned"}
    BY <1>1, SlotFacts DEF IInv, PhaseInv, Over, Executing
  <1>3. i \in Remaining \cup {0} /\ args.canary \in TargetKeys
    BY <1>1, <1>2, SlotFacts DEF IInv, OInv, ListInv, Executing
  <1>4. \A j \in Slots \ {i} : attempts'[j] = attempts[j] /\ stage'[j] = stage[j] /\ outcome'[j] = outcome[j]
    BY DEF StartAttempt, CallWorker, FinishAttempt, IInv, TypeOK
  <1>5. \A j \in Slots \ {i} : SlotFate(j)' = SlotFate(j)
    BY <1>4 DEF SlotFate, Touched
  <1>6. announced' = announced
    BY DEF StartAttempt, CallWorker, FinishAttempt, book
  <1>7. announced = "none" \/ cancel
    BY <1>2 DEF IInv, OInv, TypeOK, Verdict, VerdictInv, AnnounceInv, VerdictTruthful
  <1>8. outcome[i] = "none"
    BY <1>1 DEF IInv, SlotInv
  <1>9. i # 0 => i \in inFlight /\ outcome[0] = "success"
    BY <1>1, SlotFacts DEF IInv, PoolInv, PhaseInv, CanaryFirst, Executing
  <1>10. i = 0 => inFlight = {} /\ \A j \in PoolSlots : stage[j] = "idle"
    <2> SUFFICES ASSUME i = 0 PROVE inFlight = {} /\ \A j \in PoolSlots : stage[j] = "idle"
      OBVIOUS
    <2>1. outcome[0] = "none"
      BY <1>8
    <2>2. pc \notin FanOut /\ \A j \in PoolSlots : stage[j] = "idle"
      BY <2>1, SlotFacts DEF IInv, PhaseInv, CanaryFirst
    <2>3. inFlight = {}
      BY <2>2, SlotFacts DEF IInv, OInv, PoolInv, ListInv
    <2> QED BY <2>2, <2>3
  <1> QED BY <1>3, <1>5, <1>6, <1>7, <1>8, <1>9, <1>10

(* Devices stand for distinct slots, so that a limit on slots is one on    *)
(* devices.                                                                *)
LEMMA FewerDevices ==
    ASSUME TypeOK, NEW F, NEW S, IsFiniteSet(S),
           \A d \in Device : Fate[d] = F => d \in TargetKeys /\ SlotOf(d) \in S
    PROVE  /\ IsFiniteSet(Contract!With(F)) /\ IsFiniteSet(S)
           /\ Cardinality(Contract!With(F)) <= Cardinality(S)
           /\ Cardinality(Contract!With(F)) \in Nat /\ Cardinality(S) \in Nat
  <1> DEFINE D == Contract!With(F)
             f == [d \in D |-> SlotOf(d)]
  <1>1. \A d \in D : d \in TargetKeys /\ SlotOf(d) \in S
    BY DEF Contract!With
  <1>2. \A d, e \in D : SlotOf(d) = SlotOf(e) => d = e
    BY <1>1, SlotOfFacts
  <1> HIDE DEF D
  <1>3. f \in [D -> S]
    BY <1>1
  <1>4. \A d, e \in D : f[d] = f[e] => d = e
    BY <1>2
  <1> HIDE DEF f
  <1>5. f \in Injection(D, S)
    BY <1>3, <1>4 DEF Injection, IsInjective
  <1>6. IsFiniteSet(D) /\ Cardinality(D) <= Cardinality(S)
    BY <1>5, FS_Injection
  <1>7. Cardinality(D) \in Nat /\ Cardinality(S) \in Nat
    BY <1>6, FS_CardinalityType
  <1> QED BY <1>6, <1>7 DEF D

(* The contract counts as the engine does.                                 *)
LEMMA SameCount == \A S : Contract!Cardinality(S) = Cardinality(S)
  BY DEF Contract!Cardinality, Cardinality

(* The first attempt on a device is the moment at which it is touched: the *)
(* pool has room for it, and with stop_on_error too few devices went bad   *)
(* to forbid it.                                                           *)
LEMMA TouchStep ==
    ASSUME IInv, OInv, PoolBound, DistinctKeys, [Next]_vars, NEW i \in Slots,
           StartAttempt(i), ~cancel, attempts[i] = 0
    PROVE  Contract!Touch(KeyOf(i))
  <1>4. TypeOK /\ PoolInv /\ args.canary \in Device
    BY KeyFacts DEF IInv
  <1>1. /\ KeyOf(i) \in TargetKeys /\ Fate[KeyOf(i)] = SlotFate(i)
        /\ Fate' = [Fate EXCEPT ![KeyOf(i)] = SlotFate(i)']
    BY AttemptFacts, FateMoves DEF IInv
  <1>2. SlotFate(i) = "untouched" /\ SlotFate(i)' = "busy"
    <2>1. attempts'[i] = 1 /\ stage'[i] = "cleared" /\ outcome'[i] = "none"
      <3>1. attempts[i] = 0 /\ outcome[i] = "none" /\ ~CancelSeen(i)
        BY AttemptFacts DEF CancelSeen
      <3> QED BY <1>4, <3>1 DEF StartAttempt, TypeOK
    <2> QED BY <1>4, <2>1 DEF SlotFate, Touched
  <1>3. announced = "none" /\ UNCHANGED <<Ordered, announced>>
    BY AttemptFacts, OrderStays
  <1>5. KeyOf(i) = args.canary \/ Fate[args.canary] = "good"
    <2>1. CASE i = 0
      BY <2>1, <1>4, KeyFacts
    <2>2. CASE i # 0
      <3>1. outcome[0] = "success" /\ args.canary \in TargetKeys /\ 0 \in Slots
        BY <2>2, AttemptFacts, SlotFacts DEF IInv
      <3>2. stage[0] = "done" /\ attempts[0] >= 1 /\ attempts[0] \in Nat
        BY <3>1 DEF IInv, OInv, SlotInv, AttemptInv, TypeOK
      <3>3. SlotFate(0) = "good"
        BY <3>1, <3>2 DEF SlotFate, Touched
      <3> QED BY <3>1, <3>3, SlotOfFacts, KeyFacts, <1>4 DEF Fate
    <2> QED BY <2>1, <2>2
  <1>6. \A d \in Device : Fate[d] = "busy" => d \in TargetKeys /\ SlotOf(d) \in inFlight \ {i}
    <2> SUFFICES ASSUME NEW d \in Device, Fate[d] = "busy"
                 PROVE  d \in TargetKeys /\ SlotOf(d) \in inFlight \ {i}
      OBVIOUS
    <2> DEFINE j == SlotOf(d)
    <2>1. d \in TargetKeys /\ SlotFate(j) = "busy"
      BY DEF Fate, SlotFate
    <2>2. j \in Slots /\ j # i
      BY <1>2, <1>4, <2>1, SlotOfFacts
    <2> HIDE DEF j
    <2>3. stage[j] # "done" /\ stage[j] # "idle" /\ stage[j] \in {"idle", "ready", "cleared", "running", "done"}
      BY <2>1, <2>2 DEF SlotFate, Touched, IInv, OInv, TypeOK, AttemptInv
    <2>4. j # 0
      BY <2>2, <2>3, AttemptFacts DEF IInv, SlotInv
    <2>5. j \in inFlight
      BY <1>4, <2>2, <2>3, <2>4, SlotFacts DEF PoolInv, Executing
    <2> QED BY <2>1, <2>2, <2>5 DEF j
  <1>7. \A d \in Device : Fate[d] = "bad" => d \in TargetKeys /\ SlotOf(d) \in BadSlots
    <2> SUFFICES ASSUME NEW d \in Device, Fate[d] = "bad"
                 PROVE  d \in TargetKeys /\ SlotOf(d) \in BadSlots
      OBVIOUS
    <2> DEFINE j == SlotOf(d)
    <2>1. d \in TargetKeys /\ SlotFate(j) = "bad"
      BY DEF Fate, SlotFate
    <2>2. j \in Slots /\ j # i
      BY <1>2, <1>4, <2>1, SlotOfFacts
    <2> HIDE DEF j
    <2>3. stage[j] = "done" /\ outcome[j] \notin {"none", "success"}
      BY <2>1, <2>2 DEF SlotFate, IInv, SlotInv
    <2>4. j \in PoolSlots
      BY <1>4, <2>2, <2>3, AttemptFacts, SlotFacts
    <2> QED BY <2>1, <2>3, <2>4 DEF j, BadSlots
  <1>8. Cardinality(Contract!With("busy")) < Concurrency
    <2>1. /\ IsFiniteSet(inFlight) /\ Cardinality(inFlight) \in Nat
          /\ Concurrency \in Nat /\ Concurrency >= 1
      BY <1>4, PoolFinite
    <2>2. Cardinality(inFlight \ {i}) < Concurrency /\ IsFiniteSet(inFlight \ {i})
      <3>1. CASE i \in inFlight
        <4>1. IsFiniteSet(inFlight \ {i}) /\ Cardinality(inFlight \ {i}) = Cardinality(inFlight) - 1
          BY <2>1, <3>1, FS_RemoveElement
        <4> QED BY <2>1, <4>1 DEF PoolBound
      <3>2. CASE inFlight = {}
        <4>1. inFlight \ {i} = {} /\ IsFiniteSet({}) /\ Cardinality({}) = 0
          BY <3>2, FS_EmptySet
        <4> QED BY <2>1, <4>1
      <3>3. i \in inFlight \/ inFlight = {}
        BY AttemptFacts
      <3> QED BY <3>1, <3>2, <3>3
    <2> QED BY <1>4, <1>6, <2>1, <2>2, FewerDevices
  <1>9. args.stopOnError => Cardinality(Contract!With("bad")) < Concurrency
    <2> SUFFICES ASSUME args.stopOnError PROVE Cardinality(Contract!With("bad")) < Concurrency
      OBVIOUS
    <2> DEFINE Held == inFlight \cup BadSlots
    <2>1. /\ IsFiniteSet(Held) /\ Cardinality(Held) \in Nat
          /\ Concurrency \in Nat /\ Concurrency >= 1 /\ Cardinality(Held) <= Concurrency
      BY <1>4, BadFinite DEF OInv, BlastInv
    <2>2. IsFiniteSet(BadSlots) /\ Cardinality(BadSlots) < Concurrency
      <3>1. CASE i = 0
        <4>1. BadSlots = {}
          BY <1>4, <3>1, AttemptFacts, SlotFacts DEF BadSlots, IInv, SlotInv
        <4> QED BY <2>1, <4>1, FS_EmptySet
      <3>2. CASE i # 0
        <4>1. BadSlots \subseteq Held \ {i} /\ i \in Held
          BY <3>2, AttemptFacts DEF BadSlots
        <4>2. IsFiniteSet(Held \ {i}) /\ Cardinality(Held \ {i}) = Cardinality(Held) - 1
          BY <2>1, <4>1, FS_RemoveElement
        <4>3. IsFiniteSet(BadSlots) /\ Cardinality(BadSlots) <= Cardinality(Held \ {i})
          BY <4>1, <4>2, FS_Subset
        <4>4. Cardinality(BadSlots) \in Nat
          BY <4>3, FS_CardinalityType
        <4> QED BY <2>1, <4>2, <4>3, <4>4
      <3> QED BY <3>1, <3>2
    <2> QED BY <1>4, <1>7, <2>1, <2>2, FewerDevices
  <1> QED BY <1>1, <1>2, <1>3, <1>5, <1>8, <1>9, SameCount DEF Contract!Touch, Ordered

(* Every other step of a slot settles its device or is not visible: a      *)
(* retry keeps the device busy, and a cancel before the first attempt      *)
(* leaves it untouched.                                                    *)
LEMMA AttemptStepContract ==
    ASSUME IInv, OInv, PoolBound, DistinctKeys, [Next]_vars, NEW i \in Slots,
           StartAttempt(i) \/ CallWorker(i) \/ FinishAttempt(i)
    PROVE  Contract!Next \/ UNCHANGED Contract!vars
  <1>0. TypeOK /\ outcome[i] = "none" /\ attempts[i] \in Nat
    BY AttemptFacts DEF IInv, TypeOK
  <1>1. /\ KeyOf(i) \in TargetKeys /\ Fate[KeyOf(i)] = SlotFate(i)
        /\ Fate' = [Fate EXCEPT ![KeyOf(i)] = SlotFate(i)']
        /\ KeyOf(i) \in Device
    BY AttemptFacts, FateMoves, KeyFacts DEF IInv
  <1>2. UNCHANGED <<Ordered, announced>>
    BY AttemptFacts, OrderStays
  <1>3. Fate \in [Device -> {"untouched", "busy", "good", "bad"}]
    BY DEF Fate, SlotFate
  <1>4. CASE SlotFate(i)' = SlotFate(i)
    <2>1. Fate' = Fate
      BY <1>1, <1>3, <1>4
    <2> QED BY <1>2, <2>1 DEF Contract!vars
  <1>5. CASE SlotFate(i) = "busy" /\ SlotFate(i)' \in {"good", "bad"}
    <2>1. Contract!Settle(KeyOf(i))
      BY <1>1, <1>2, <1>5 DEF Contract!Settle
    <2> QED BY <1>1, <2>1 DEF Contract!Next
  <1>6. CASE StartAttempt(i)
    <2>1. attempts'[i] = attempts[i] + 1
      BY <1>0, <1>6 DEF StartAttempt, TypeOK
    <2>2. CASE ~cancel /\ attempts[i] = 0
      <3>1. Contract!Touch(KeyOf(i))
        BY <1>6, <2>2, TouchStep
      <3> QED BY <1>1, <3>1 DEF Contract!Next
    <2>3. CASE ~cancel /\ attempts[i] # 0
      <3>1. stage'[i] = "cleared" /\ outcome'[i] = "none" /\ stage[i] = "ready"
        BY <1>0, <1>6, <2>3 DEF StartAttempt, CancelSeen, TypeOK
      <3> QED BY <1>0, <1>4, <2>1, <2>3, <3>1 DEF SlotFate, Touched
    <2>4. CASE cancel
      <3>1. stage'[i] = "done" /\ outcome'[i] = "cancelled" /\ stage[i] = "ready"
        BY <1>0, <1>6, <2>4 DEF StartAttempt, CancelSeen, TypeOK
      <3> QED BY <1>0, <1>4, <1>5, <2>1, <3>1 DEF SlotFate, Touched
    <2> QED BY <2>2, <2>3, <2>4
  <1>7. CASE FinishAttempt(i)
    <2>1. attempts'[i] = attempts[i] /\ attempts[i] >= 1 /\ stage[i] = "running"
      BY <1>0, <1>7 DEF FinishAttempt, OInv, AttemptInv
    <2>2. \/ stage'[i] = "ready" /\ outcome'[i] = "none"
          \/ stage'[i] = "done" /\ outcome'[i] \in {"success", "failed", "raised"}
      BY <1>0, <1>7, OutcomesAssumption DEF FinishAttempt, TypeOK
    <2> QED BY <1>0, <1>4, <1>5, <2>1, <2>2 DEF SlotFate, Touched
  <1>8. CASE CallWorker(i)
    <2>1. /\ attempts'[i] = attempts[i] /\ outcome'[i] = outcome[i]
          /\ stage[i] = "cleared" /\ stage'[i] = "running"
      BY <1>0, <1>8 DEF CallWorker, TypeOK
    <2> QED BY <1>0, <1>4, <2>1 DEF SlotFate, Touched
  <1> QED BY <1>6, <1>7, <1>8

(* The orchestrator touches no device itself.                              *)
LEMMA OrchestrateLeavesFate ==
    ASSUME IInv, OInv, [Next]_vars, Orchestrate \/ Control \/ UNCHANGED vars
    PROVE  UNCHANGED <<Ordered, Fate>>
  <1>1. TypeOK
    BY DEF IInv
  <1>2. CASE UNCHANGED pool
    <2>1. \A j \in Slots : SlotFate(j)' = SlotFate(j)
      BY <1>2 DEF SlotFate, Touched, pool
    <2> QED BY <1>1, <2>1, FateStays, OrderStays
  <1>3. ASSUME NEW i \in Slots, stage[i] = "idle", stage' = [stage EXCEPT ![i] = "ready"],
               UNCHANGED <<attempts, outcome>>
        PROVE  UNCHANGED <<Ordered, Fate>>
    <2>1. attempts[i] = 0
      BY <1>3 DEF OInv, AttemptInv
    <2>2. \A j \in Slots : SlotFate(j)' = SlotFate(j)
      BY <1>1, <1>3, <2>1 DEF SlotFate, Touched, TypeOK
    <2> QED BY <1>1, <2>2, FateStays, OrderStays
  <1>4. CASE BeginCanary
    BY <1>3, <1>4, SlotFacts DEF BeginCanary, IInv, PhaseInv
  <1>5. CASE \E i \in Slots : Submit(i)
    BY <1>3, <1>5 DEF Submit, IInv, PoolInv
  <1>6. CASE ~BeginCanary /\ ~(\E i \in Slots : Submit(i))
    BY <1>2, <1>6 DEF Orchestrate, Begin, BeginCancelled, BeginRejected, CanaryResult,
       CanaryRaises, Gate, SubmitEnds, Await, Collect, Shutdown, Finish, Control, vars
  <1> QED BY <1>4, <1>5, <1>6

(* A device whose worker call returned is good or bad.                     *)
LEMMA Settled ==
    ASSUME IInv, OInv, DistinctKeys, args.canary \in TargetKeys,
           NEW i \in Remaining \cup {0}, outcome[i] \in {"success", "failed"}
    PROVE  /\ KeyOf(i) \in TargetKeys /\ KeyOf(i) \in Device
           /\ Fate[KeyOf(i)] = IF outcome[i] = "success" THEN "good" ELSE "bad"
  <1>1. TypeOK /\ i \in Slots
    BY KeyFacts, SlotFacts DEF IInv
  <1>2. stage[i] = "done" /\ attempts[i] >= 1 /\ attempts[i] \in Nat
    BY <1>1 DEF IInv, OInv, SlotInv, AttemptInv, TypeOK
  <1>3. KeyOf(i) \in TargetKeys /\ KeyOf(i) \in Device /\ SlotOf(KeyOf(i)) = i
    BY <1>1, KeyFacts, SlotOfFacts
  <1> QED BY <1>2, <1>3 DEF Fate, SlotFate, Touched

(* Where no slot is being executed, no device is busy.                     *)
LEMMA NobodyBusy ==
    ASSUME IInv, OInv, \A i \in Slots : ~Executing(i)
    PROVE  Contract!With("busy") = {}
  <1> SUFFICES ASSUME NEW d \in Device, Fate[d] = "busy" PROVE FALSE
    BY DEF Contract!With
  <1>1. d \in TargetKeys /\ SlotFate(SlotOf(d)) = "busy"
    BY DEF Fate, SlotFate
  <1>2. SlotOf(d) \in Slots
    BY <1>1, SlotOfFacts DEF IInv
  <1>3. stage[SlotOf(d)] \in {"idle", "done"}
    BY <1>2 DEF IInv, TypeOK, Executing
  <1> QED BY <1>1, <1>2, <1>3 DEF OInv, AttemptInv, SlotFate, Touched

(* The orchestrator's verdicts are verdicts of the contract.               *)
LEMMA VerdictStepContract ==
    ASSUME IInv, OInv, DistinctKeys, [Next]_vars, Orchestrate \/ Control \/ UNCHANGED vars
    PROVE  Contract!Next \/ UNCHANGED Contract!vars
  <1>0. UNCHANGED <<Ordered, Fate>> /\ TypeOK
    BY OrchestrateLeavesFate DEF IInv
  <1>1. CASE announced' = announced
    BY <1>0, <1>1 DEF Contract!vars
  <1>2. ASSUME announced = "none", announced' = "cancelled"
        PROVE  Contract!Next
    BY <1>0, <1>2 DEF Contract!Next, Contract!Cancel
  <1>3. ASSUME announced = "none", announced' = "failed", \A i \in Slots : ~Executing(i),
               args.canary \in TargetKeys =>
                  \E i \in Remaining \cup {0} : outcome[i] = "failed"
        PROVE  Contract!Next
    <2>1. Contract!With("busy") = {}
      BY <1>3, NobodyBusy
    <2>2. args.canary \in TargetKeys => Contract!With("bad") # {}
      BY <1>3, Settled DEF Contract!With
    <2> QED BY <1>0, <1>3, <2>1, <2>2 DEF Contract!Next, Contract!Fail, Ordered
  <1>4. ASSUME announced = "none", announced' = "completed", args.canary \in TargetKeys,
               \A i \in Remaining \cup {0} : outcome[i] = "success"
        PROVE  Contract!Next
    <2>1. \A d \in TargetKeys : \E i \in Remaining \cup {0} : KeyOf(i) = d
      BY <1>0, KeyFacts
    <2>2. \A d \in TargetKeys : Fate[d] = "good"
      BY <1>4, <2>1, Settled
    <2> QED BY <1>0, <1>4, <2>2 DEF Contract!Next, Contract!Complete, Ordered
  <1>5. ASSUME pc \in {"begin", "canary", "gate", "collect", "finish"}
        PROVE  announced = "none"
    BY <1>5 DEF IInv, OInv, VerdictInv, AnnounceInv
  <1>6. CASE BeginCancelled \/ Gate \/ \E i \in Slots : Collect(i)
    <2>1. announced' = announced \/ announced' = "cancelled"
      BY <1>6 DEF BeginCancelled, Gate, Collect, Conclude, book
    <2>2. announced = "none"
      BY <1>5, <1>6 DEF BeginCancelled, Gate, Collect
    <2> QED BY <1>1, <1>2, <2>1, <2>2
  <1>7. CASE BeginRejected
    <2>1. \A i \in Slots : ~Executing(i)
      BY <1>0, <1>7, SlotFacts DEF BeginRejected, IInv, PhaseInv, Executing
    <2>2. announced = "none" /\ announced' = "failed" /\ args.canary \notin TargetKeys
      BY <1>5, <1>7 DEF BeginRejected, Conclude
    <2> QED BY <1>3, <2>1, <2>2
  <1>8. CASE CanaryResult
    <2>1. /\ pc = "canary" /\ stage[0] = "done" /\ outcome[0] \in {"success", "failed", "cancelled"}
          /\ announced = "none" /\ args.canary \in TargetKeys
      BY <1>0, <1>5, <1>8, SlotFacts DEF CanaryResult, IInv, OInv, TypeOK, SlotInv, ListInv, Outcome
    <2>2. \A i \in Slots : ~Executing(i)
      BY <1>0, <2>1, SlotFacts DEF IInv, PhaseInv, Executing
    <2>3. \/ announced' = announced
          \/ announced' = "cancelled"
          \/ announced' = "failed" /\ outcome[0] = "failed"
          \/ announced' = "completed" /\ outcome[0] = "success" /\ Remaining = {}
      BY <1>8, <2>1 DEF CanaryResult, CanaryPassed, Conclude
    <2> QED BY <1>1, <1>2, <1>3, <1>4, <2>1, <2>2, <2>3
  <1>9. CASE Finish
    <2>1. pc = "finish" /\ announced = "none" /\ args.canary \in TargetKeys /\ outcome[0] = "success"
      BY <1>5, <1>9 DEF Finish, IInv, OInv, ListInv, PhaseInv, FanOut
    <2>2. inFlight = {} /\ pending = {}
      BY <2>1 DEF IInv, OInv, PhaseInv, CoverInv
    <2>3. \A i \in Slots : ~Executing(i)
      BY <1>0, <2>1, <2>2, SlotFacts DEF IInv, PoolInv, SlotInv, Executing
    <2>4. CASE cancel
      BY <1>2, <1>9, <2>1, <2>4 DEF Finish, Conclude
    <2>5. CASE ~cancel /\ SomeResultNotSuccess
      <3>1. PICK d \in Device : results[d] \notin {"none", "success"}
        BY <2>5 DEF SomeResultNotSuccess
      <3>2. PICK i \in Slots : KeyOf(i) = d /\ outcome[i] = results[d]
        BY <2>1, <3>1 DEF OInv, ResultInv
      <3>3. outcome[i] = "failed" /\ stage[i] = "done"
        BY <1>0, <2>5, <3>1, <3>2 DEF TypeOK, IInv, SlotInv
      <3>4. i \in Remaining \cup {0}
        BY <1>0, <3>3, SlotFacts DEF OInv, ListInv
      <3> QED BY <1>3, <1>9, <2>1, <2>3, <2>5, <3>3, <3>4 DEF Finish, Conclude
    <2>6. CASE ~cancel /\ ~SomeResultNotSuccess
      <3>1. \A i \in Remaining : outcome[i] = "success"
        BY <2>1, <2>2, <2>6 DEF OInv, CoverInv, RecordInv, Loop
      <3> QED BY <1>4, <1>9, <2>1, <2>6, <3>1 DEF Finish, Conclude
    <2> QED BY <2>4, <2>5, <2>6
  <1>10. \/ announced' = announced
         \/ BeginCancelled \/ Gate \/ (\E i \in Slots : Collect(i))
         \/ BeginRejected \/ CanaryResult \/ Finish
    BY DEF Orchestrate, Begin, BeginCanary, CanaryRaises, Submit, SubmitEnds, Await, Shutdown,
       Control, vars, book
  <1> QED BY <1>1, <1>6, <1>7, <1>8, <1>9, <1>10

(* A call without repeated keys starts as an order of the contract.        *)
LEMMA InitContract == Init => Contract!Init
  <1> SUFFICES ASSUME Init PROVE Contract!Init
    OBVIOUS
  <1>1. TypeOK /\ attempts = [i \in Slots |-> 0] /\ announced = "none"
    BY InitInv DEF Init, IInv
  <1>2. TargetKeys \subseteq Device /\ args.canary \in Device /\ args.stopOnError \in BOOLEAN
    BY <1>1, KeyFacts
  <1>3. Concurrency \in Nat \ {0}
    BY <1>1, SlotFacts DEF Concurrency
  <1>4. Ordered \in Contract!Orders
    BY <1>2, <1>3 DEF Contract!Orders, Ordered
  <1>5. \A d \in TargetKeys : SlotFate(SlotOf(d)) = "untouched"
    BY <1>1, SlotOfFacts DEF SlotFate, Touched
  <1>6. Fate = [d \in Device |-> "untouched"]
    BY <1>5 DEF Fate
  <1> QED BY <1>1, <1>4, <1>6 DEF Contract!Init

(* run_job keeps the contract: on any target list without repeated keys,   *)
(* each step of its threads is a step that the contract allows, or changes *)
(* nothing the contract speaks of.                                         *)
THEOREM EngineKeepsContract == Spec => ImplementsContract
  <1>1. Init => (DistinctKeys => Contract!Init)
    BY InitContract
  <1>2. IInv /\ OInv /\ PoolBound /\ [Next]_vars => [DistinctKeys => Contract!Next]_(Contract!vars)
    <2> SUFFICES ASSUME IInv, OInv, PoolBound, [Next]_vars, DistinctKeys
                 PROVE  Contract!Next \/ UNCHANGED Contract!vars
      OBVIOUS
    <2> QED BY AttemptStepContract, VerdictStepContract DEF Next, Attempt
  <1> QED BY <1>1, <1>2, OutcomeInv, PoolBoundHolds, PTL DEF Spec, ImplementsContract

-----------------------------------------------------------------------------
(* What the caller of run_job relies on.                                   *)

\* A return has a verdict, and a canary that is no target is never called.
ExitInv ==
    /\ pc = "returned" => verdict # "running"
    /\ args.canary \notin TargetKeys => outcome[0] = "none"

EngineInv == IInv /\ OInv /\ ExitInv

(* run_job has not returned when it starts.                                *)
LEMMA InitEngineInv == Init => EngineInv
  BY InitInv, InitOInv, SlotFacts DEF Init, IInv, EngineInv, ExitInv

(* Every return of run_job comes after the verdict.                        *)
LEMMA EngineInvStep == EngineInv /\ [Next]_vars => EngineInv'
  <1> SUFFICES ASSUME EngineInv, [Next]_vars PROVE EngineInv'
    OBVIOUS
  <1>0. IInv /\ OInv /\ ExitInv
    BY DEF EngineInv
  <1>1. IInv' /\ OInv'
    BY <1>0, StepInv, AttemptStep, ListStep, ResultStep, RecordStep, CoverStep, ShownStep,
       AnnounceStep, BlastStep DEF OInv
  <1>2. args' = args /\ TargetKeys' = TargetKeys
    BY <1>0, ArgsStay
  <1>3. pc' = "returned" => verdict' # "running"
    <2>1. CASE Orchestrate
      BY <1>0, <2>1 DEF ExitInv, Orchestrate, Begin, BeginCancelled, BeginRejected, BeginCanary,
         CanaryResult, CanaryRaises, Gate, Submit, SubmitEnds, AfterSubmit, Await, Collect,
         Shutdown, Finish, Conclude, book
    <2>2. CASE Attempt \/ Control \/ UNCHANGED vars
      BY <1>0, <2>2 DEF ExitInv, Attempt, StartAttempt, CallWorker, FinishAttempt, Control, book, vars
    <2> QED BY <2>1, <2>2 DEF Next
  <1>4. args.canary \notin TargetKeys => outcome'[0] = outcome[0]
    <2>1. CASE Orchestrate \/ Control \/ UNCHANGED vars
      BY <2>1 DEF Orchestrate, Begin, BeginCancelled, BeginRejected, BeginCanary, CanaryResult,
         CanaryRaises, Gate, Submit, SubmitEnds, Await, Collect, Shutdown, Finish, Control, pool, vars
    <2>2. CASE Attempt
      BY <1>0, <2>2, AttemptFacts DEF Attempt
    <2> QED BY <2>1, <2>2 DEF Next
  <1> QED BY <1>0, <1>1, <1>2, <1>3, <1>4 DEF EngineInv, ExitInv

(* Before its first look at them the flags may be anything: a control that *)
(* is made or cleared for run_job does not disturb it.                     *)
LEMMA FreshControl ==
    ASSUME EngineInv, pc = "begin", UNCHANGED <<args, pc, queue, pool, book>>,
           pause' \in BOOLEAN, cancel' \in BOOLEAN
    PROVE  EngineInv'
  <1>0. IInv /\ OInv /\ ExitInv
    BY DEF EngineInv
  <1>1. verdict = "running" /\ \A i \in Slots : outcome[i] # "cancelled"
    <2>1. verdict = "running"
      BY <1>0 DEF IInv, VerdictInv
    <2>2. \A i \in Slots : stage[i] = "idle"
      BY <1>0, SlotFacts DEF IInv, PhaseInv
    <2> QED BY <1>0, <2>1, <2>2 DEF IInv, SlotInv
  <1>2. UNCHANGED <<args, pc, pending, inFlight, batch, stage, attempts, outcome, late, results,
                    verdict, shown, announced>>
    BY DEF queue, pool, book
  <1>3. IInv'
    <2>1. TypeOK' /\ SlotInv'
      BY <1>0, <1>1, <1>2, SameArgs DEF IInv, TypeOK, SlotInv
    <2>2. PoolInv' /\ PhaseInv' /\ VerdictInv'
      BY <1>0, <1>2, SameArgs DEF IInv, PoolInv, PhaseInv, VerdictInv, Executing, Over, CanaryFirst
    <2> QED BY <2>1, <2>2 DEF IInv
  <1>4. OInv'
    <2>1. /\ Slots' = Slots /\ PoolSlots' = PoolSlots /\ Remaining' = Remaining
          /\ TargetKeys' = TargetKeys /\ Concurrency' = Concurrency /\ BadSlots' = BadSlots
          /\ DistinctKeys' = DistinctKeys /\ SomeResultNotSuccess' = SomeResultNotSuccess
          /\ \A i : KeyOf(i)' = KeyOf(i)
      BY <1>2 DEF Slots, PoolSlots, Remaining, TargetKeys, Targets, Concurrency, BadSlots,
         DistinctKeys, KeyOf, SomeResultNotSuccess
    <2>2. AttemptInv' /\ ListInv' /\ ResultInv'
      BY <1>0, <1>2, <2>1 DEF OInv, AttemptInv, ListInv, ResultInv
    <2>3. RecordInv' /\ ShownInv' /\ BlastInv'
      BY <1>0, <1>2, <2>1 DEF OInv, RecordInv, ShownInv, BlastInv
    <2>4. CoverInv' /\ AnnounceInv'
      BY <1>0, <1>1, <1>2, <2>1 DEF OInv, CoverInv, AnnounceInv, VerdictTruthful, Loop
    <2> QED BY <2>2, <2>3, <2>4 DEF OInv
  <1>5. ExitInv'
    BY <1>0, <1>2 DEF ExitInv, TargetKeys, Targets
  <1> QED BY <1>3, <1>4, <1>5 DEF EngineInv

(* What has returned stays as it is, and its verdict is the truth.         *)
LEMMA ReturnStays ==
    ASSUME [Next]_vars, pc = "returned"
    PROVE  pc' = "returned" /\ verdict' = verdict
  BY DEF Next, Orchestrate, Begin, BeginCancelled, BeginRejected, BeginCanary, CanaryResult,
     CanaryRaises, Gate, Submit, SubmitEnds, Await, Collect, Shutdown, Finish, Attempt,
     StartAttempt, CallWorker, FinishAttempt, Control, book, vars

LEMMA VerdictMeans ==
    ASSUME EngineInv
    PROVE  /\ pc = "returned" => verdict \in Verdict
           /\ verdict = "completed" => outcome[0] = "success"
           /\ verdict = "completed" /\ DistinctKeys => \A i \in Remaining : outcome[i] = "success"
           /\ verdict = "failed" => \E i \in Remaining \cup {0} : outcome[i] # "success"
           /\ verdict = "cancelled" => cancel
           /\ pc = "begin" => announced = "none"
           /\ announced = "cancelled" <=> verdict = "cancelled"
  <1>0. IInv /\ OInv /\ ExitInv /\ VerdictTruthful
    BY DEF EngineInv, OInv, AnnounceInv
  <1>1. verdict = "failed" => \E i \in Remaining \cup {0} : outcome[i] # "success"
    <2> SUFFICES ASSUME verdict = "failed" PROVE \E i \in Remaining \cup {0} : outcome[i] # "success"
      OBVIOUS
    <2>1. CASE args.canary \notin TargetKeys
      BY <1>0, <2>1 DEF ExitInv
    <2>2. CASE \E i \in Slots : outcome[i] = "failed"
      <3>1. PICK i \in Slots : outcome[i] = "failed"
        BY <2>2
      <3>2. i = 0 \/ (i \in PoolSlots /\ stage[i] # "idle")
        BY <1>0, <3>1, SlotFacts DEF IInv, SlotInv
      <3> QED BY <1>0, <3>1, <3>2 DEF OInv, ListInv
    <2> QED BY <1>0, <2>1, <2>2 DEF VerdictTruthful
  <1>2. pc = "returned" => verdict \in Verdict
    BY <1>0 DEF IInv, TypeOK, ExitInv
  <1>3. announced = IF verdict = "running" THEN "none" ELSE verdict
    BY <1>0 DEF OInv, AnnounceInv
  <1>4. pc = "begin" => verdict = "running"
    BY <1>0 DEF IInv, VerdictInv
  <1> QED BY <1>0, <1>1, <1>2, <1>3, <1>4 DEF VerdictTruthful
=============================================================================
