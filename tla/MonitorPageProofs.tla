--------------------------- MODULE MonitorPageProofs ---------------------------
(***************************************************************************)
(* Theorems about MonitorPage for any number of polls under way and of     *)
(* control requests: the stream is complete and in order, and a final      *)
(* status on the page is never wrong.                                      *)
(*                                                                         *)
(* The page believes whatever comes last, so every statement under way     *)
(* must be true already: Told says it of one status, IInv of all of them,  *)
(* and of the order in which the server makes them true.  A cancelled run  *)
(* may be announced before the job is cancelled; OrderInv says why the     *)
(* closing event of the run still finds it open, or cancelled.             *)
(***************************************************************************)
EXTENDS MonitorPage, SequenceTheorems, TLAPS

Messages == [type : {"job_status", "job_complete"}, status : Status]

\* Statuses that are true of a job with these events, this status and this
\* run, if they say it has ended.
TrueOf(published, st, r, s) ==
    LET announced == \E n \in DOMAIN published : published[n] = Message("job_complete", s)
    IN  /\ s \in {"completed", "failed"} => announced
        /\ s = "cancelled" => st = "cancelled" \/ (announced /\ r # "done")

Told(s) == TrueOf(events, status, run, s)

DomainInv ==
    /\ events \in Seq(Messages) /\ wire \in Seq(Messages) /\ handled \in Seq(Messages)
    /\ cursor \in 0 .. Len(events)
    /\ status \in Status /\ saved \in {"none"} \cup Verdict
    /\ say \in [HandlerStatus -> Nat]
    /\ run \in {"idle", "begin", "engine", "save", "close", "done"}
    /\ socket \in {"open", "closed", "cut"}
    /\ fetch \in [job : {"none", "asked"} \cup Status,
                  result : {"none", "asked", "missing"} \cup Verdict]

\* job_complete is published once, by the engine, and is the verdict that is stored.
EventInv ==
    /\ \A n \in 1 .. Len(events) : events[n].type = "job_complete" =>
          events[n].status \in Verdict /\ run \notin {"idle", "begin", "engine"}
    /\ \A n, k \in 1 .. Len(events) :
          events[n].type = "job_complete" /\ events[k].type = "job_complete" => n = k
    /\ run \in {"save", "close", "done"} => \E n \in 1 .. Len(events) : events[n].type = "job_complete"
    /\ run \in {"close", "done"} =>
          saved \in Verdict /\ \E n \in 1 .. Len(events) : events[n] = Message("job_complete", saved)

\* The job is started before its run begins, and ends otherwise than by a
\* cancel with the run only.
OrderInv ==
    /\ run # "idle" => status # "queued"
    /\ run # "done" => status \notin {"completed", "failed"}

\* The handler is at its cursor, and past job_complete only when it has closed the socket.
CursorInv ==
    /\ socket = "cut" => wire = <<>> /\ handled = <<>>
    /\ socket # "cut" =>
          /\ cursor = Len(handled) + Len(wire)
          /\ \A n \in 1 .. Len(handled) : handled[n] = events[n]
          /\ \A n \in 1 .. Len(wire) : wire[n] = events[Len(handled) + n]
    /\ socket = "open" => \A n \in 1 .. cursor : events[n].type # "job_complete"
    /\ socket = "closed" => cursor >= 1 /\ events[cursor].type = "job_complete"

\* Whatever the page may still be told is true already.
TruthInv ==
    /\ \A n \in 1 .. Len(events) : Told(events[n].status)
    /\ \A s \in HandlerStatus : say[s] > 0 => Told(s)
    /\ Told(status) /\ Told(saved)
    /\ Told(shown) /\ Told(fetch.job) /\ Told(detail)

IInv == DomainInv /\ EventInv /\ OrderInv /\ CursorInv /\ TruthInv

-----------------------------------------------------------------------------
(* What the transition table allows: a job that has ended stays as it is.  *)
LEMMA MachineFacts ==
    ASSUME NEW s, NEW e, CanTransition(s, e)
    PROVE  /\ NextStatus(s, e) \in Status /\ s \in ActiveStatus
           /\ e = "start" => NextStatus(s, e) = "running"
           /\ e \in {"pause", "resume"} => NextStatus(s, e) \in {"running", "paused"}
           /\ e = "cancel" => NextStatus(s, e) = "cancelled"
           /\ e = "complete" => NextStatus(s, e) = "completed"
           /\ e = "fail" => NextStatus(s, e) = "failed"
  <1> DEFINE t == CHOOSE u \in Transitions : u[1] = s /\ u[2] = e
  <1>1. t \in Transitions /\ t[1] = s /\ t[2] = e
    BY DEF CanTransition
  <1>2. NextStatus(s, e) = t[3]
    BY DEF NextStatus
  <1> HIDE DEF t
  <1> QED BY <1>1, <1>2 DEF Transitions, ActiveStatus, Status

(* Nothing has been published or asked for at first.                       *)
LEMMA InitInv == Init => IInv
  BY DEF Init, IInv, DomainInv, EventInv, OrderInv, CursorInv, HandlerStatus, TruthInv, Told, TrueOf, NoFetch, Status, Verdict, Messages

(* Publishing an event keeps those before it.                              *)
LEMMA EmitFacts ==
    ASSUME DomainInv, NEW m \in Messages, Emit(m)
    PROVE  /\ events' \in Seq(Messages) /\ Len(events') = Len(events) + 1 /\ Len(events) \in Nat
           /\ \A n \in 1 .. Len(events) : events'[n] = events[n]
           /\ events'[Len(events')] = m
           /\ DOMAIN events' = 1 .. Len(events') /\ DOMAIN events = 1 .. Len(events)
  BY DEF DomainInv, Emit

(* Which steps publish, and which move the status or the run.              *)
LEMMA WhoPublishes ==
    ASSUME DomainInv, [Next]_vars
    PROVE  (\E m \in Messages : Emit(m)) \/ events' = events
  <1>1. EngineBegins \/ EngineDone => \E m \in Messages : Emit(m)
    BY DEF EngineBegins, EngineDone, Message, Messages, Verdict, Status
  <1>2. ASSUME NEW s \in HandlerStatus, Publish(s) PROVE \E m \in Messages : Emit(m)
    BY <1>2 DEF Publish, Message, Messages, HandlerStatus, Status
  <1>3. ASSUME NEW e \in Control, AskControl(e) \/ ApplyControl(e) PROVE events' = events
    BY <1>3 DEF AskControl, ApplyControl
  <1>4. StartRun \/ SaveSummary \/ CloseJob => events' = events
    BY DEF StartRun, SaveSummary, CloseJob
  <1> QED BY <1>1, <1>2, <1>3, <1>4 DEF Next, RunStep, HandlerStep, Send, Cut, Handle,
         ServePoll, EndPoll, ServeFetch, EndFetch, ServeDetail, EndDetail, server, vars

(* Only StartRun, CloseJob and ApplyControl touch the status.              *)
LEMMA StatusSteps ==
    ASSUME [Next]_vars
    PROVE  StartRun \/ CloseJob \/ (\E e \in Control : ApplyControl(e)) \/ status' = status
  BY DEF Next, RunStep, HandlerStep, EngineBegins, EngineDone, SaveSummary, AskControl, Publish,
     Send, Cut, Handle, ServePoll, EndPoll, ServeFetch, EndFetch, ServeDetail, EndDetail, server, vars

(* Only CloseJob ends the run.                                             *)
LEMMA RunDone ==
    ASSUME [Next]_vars, run # "done", run' = "done"
    PROVE  CloseJob
  BY DEF Next, RunStep, HandlerStep, StartRun, EngineBegins, EngineDone, SaveSummary, AskControl, ApplyControl,
     Publish, Send, Cut, Handle, ServePoll, EndPoll, ServeFetch, EndFetch, ServeDetail, EndDetail, server, vars

(* What is true of the job stays true: a cancelled job stays cancelled, a  *)
(* published verdict stays published, and the run that was announced as    *)
(* cancelled leaves its job cancelled.                                     *)
LEMMA ToldStays ==
    ASSUME DomainInv, EventInv, OrderInv, [Next]_vars
    PROVE  \A s : Told(s) => TrueOf(events', status', run', s)
  <1>1. \A n \in DOMAIN events : n \in DOMAIN events' /\ events'[n] = events[n]
    <2>1. CASE events' = events
      BY <2>1
    <2>2. ASSUME NEW m \in Messages, Emit(m)
          PROVE  \A n \in DOMAIN events : n \in DOMAIN events' /\ events'[n] = events[n]
      BY <2>2, EmitFacts
    <2> QED BY <2>1, <2>2, WhoPublishes
  <1>2. status = "cancelled" => status' = "cancelled"
    BY StatusSteps, MachineFacts DEF StartRun, CloseJob, ApplyControl, ActiveStatus
  <1>3. ASSUME NEW n \in DOMAIN events, events[n] = Message("job_complete", "cancelled"),
               run # "done", run' = "done"
        PROVE  status' = "cancelled"
    <2>1. CloseJob /\ run = "close"
      BY <1>3, RunDone DEF CloseJob
    <2>2. saved = "cancelled"
      <3>1. PICK k \in 1 .. Len(events) : events[k] = Message("job_complete", saved)
        BY <2>1 DEF EventInv
      <3>2. DOMAIN events = 1 .. Len(events)
        BY DEF DomainInv
      <3>3. events[n].type = "job_complete" /\ events[k].type = "job_complete"
        BY <1>3, <3>1 DEF Message
      <3>4. n = k
        BY <3>1, <3>2, <3>3 DEF EventInv
      <3> QED BY <1>3, <3>1, <3>4 DEF Message
    <2>3. EventOf = "cancel"
      BY <2>2 DEF EventOf
    <2>4. status \in {"running", "paused", "cancelled"}
      BY <2>1 DEF OrderInv, DomainInv, Status
    <2>5. status \in {"running", "paused"} => CanTransition(status, "cancel")
      BY DEF CanTransition, Transitions
    <2> QED BY <1>2, <2>1, <2>3, <2>4, <2>5, MachineFacts DEF CloseJob
  <1> QED BY <1>1, <1>2, <1>3 DEF Told, TrueOf

(* An event about to be published is added to the others, or taken away.   *)
LEMMA SayFacts ==
    ASSUME DomainInv, NEW t \in HandlerStatus,
           Say(t) \/ (say[t] > 0 /\ say' = [say EXCEPT ![t] = @ - 1])
    PROVE  say' \in [HandlerStatus -> Nat] /\ \A u \in HandlerStatus : say'[u] > 0 => say[u] > 0 \/ u = t
  <1>1. say' \in [HandlerStatus -> Nat]
    <2>1. say \in [HandlerStatus -> Nat] /\ say[t] \in Nat
      BY DEF DomainInv
    <2>2. CASE Say(t)
      BY <2>1, <2>2 DEF Say
    <2>3. CASE say[t] > 0 /\ say' = [say EXCEPT ![t] = @ - 1]
      <3>1. say[t] - 1 \in Nat
        BY <2>1, <2>3
      <3> QED BY <2>1, <2>3, <3>1
    <2> QED BY <2>2, <2>3
  <1>2. \A u \in HandlerStatus : u # t => say'[u] = say[u]
    BY DEF DomainInv, Say
  <1> QED BY <1>1, <1>2

(* A control request that is granted moves the status and says so.         *)
LEMMA ControlFacts ==
    ASSUME DomainInv, NEW e \in Control, ApplyControl(e)
    PROVE  /\ \/ status' = status /\ say' = say
              \/ status' \in HandlerStatus /\ Say(status')
           /\ UNCHANGED <<run, saved, events, stream, shown, page>>
  <1>1. CASE CanTransition(status, e)
    BY <1>1, MachineFacts DEF ApplyControl, Control, HandlerStatus, ActiveStatus
  <1>2. CASE ~CanTransition(status, e)
    BY <1>2 DEF ApplyControl
  <1> QED BY <1>1, <1>2 DEF ApplyControl

(* The run is started from queued, and shown as running.                   *)
LEMMA StartFacts ==
    ASSUME StartRun
    PROVE  run = "idle" /\ run' = "begin" /\ status' = "running" /\ Say(status')
  <1>1. status' = "running"
    BY MachineFacts DEF StartRun
  <1> QED BY <1>1 DEF StartRun

(* The summary repeats the verdict the engine announced.                   *)
LEMMA LastVerdictFacts ==
    ASSUME DomainInv, EventInv, run = "save"
    PROVE  /\ LastVerdict \in Verdict
           /\ \E n \in 1 .. Len(events) : events[n] = Message("job_complete", LastVerdict)
  <1> DEFINE at == CHOOSE n \in DOMAIN events : events[n].type = "job_complete"
  <1>1. DOMAIN events = 1 .. Len(events)
    BY DEF DomainInv
  <1>2. \E n \in DOMAIN events : events[n].type = "job_complete"
    BY <1>1 DEF EventInv
  <1>3. at \in DOMAIN events /\ events[at].type = "job_complete"
    BY <1>2
  <1>4. LastVerdict = events[at].status
    BY DEF LastVerdict
  <1> HIDE DEF at
  <1>5. events[at] \in Messages
    BY <1>1, <1>3 DEF DomainInv
  <1>6. events[at] = Message(events[at].type, events[at].status)
    BY <1>5 DEF Messages, Message
  <1> QED BY <1>1, <1>3, <1>4, <1>6 DEF EventInv

(* Every record, buffer and answer stays in its domain.                    *)
LEMMA DomainStep ==
    ASSUME IInv, [Next]_vars
    PROVE  DomainInv'
  <1>1. CASE EngineBegins \/ EngineDone \/ \E s \in HandlerStatus : Publish(s)
    <2>1. (\E m \in Messages : Emit(m)) \/ events' = events
      BY WhoPublishes DEF IInv
    <2>2. events' \in Seq(Messages) /\ cursor \in 0 .. Len(events')
      <3>1. CASE events' = events
        BY <3>1 DEF IInv, DomainInv
      <3>2. ASSUME NEW m \in Messages, Emit(m) PROVE events' \in Seq(Messages) /\ cursor \in 0 .. Len(events')
        BY <3>2, EmitFacts DEF IInv, DomainInv
      <3> QED BY <2>1, <3>1, <3>2
    <2>3. say' \in [HandlerStatus -> Nat]
      <3>1. ASSUME NEW s \in HandlerStatus, Publish(s) PROVE say' \in [HandlerStatus -> Nat]
        BY <3>1, SayFacts DEF Publish, IInv
      <3>2. EngineBegins \/ EngineDone => say' = say
        BY DEF EngineBegins, EngineDone
      <3> QED BY <1>1, <3>1, <3>2 DEF IInv, DomainInv
    <2>4. UNCHANGED <<status, saved, stream, fetch>> /\ run' \in {run, "engine", "save"}
      BY <1>1 DEF EngineBegins, EngineDone, Publish, page
    <2> QED BY <2>2, <2>3, <2>4 DEF IInv, DomainInv, stream
  <1>2. CASE StartRun \/ CloseJob \/ \E e \in Control : AskControl(e) \/ ApplyControl(e)
    <2>1. UNCHANGED <<events, wire, handled, cursor, saved, socket, fetch>>
      BY <1>2 DEF StartRun, CloseJob, AskControl, ApplyControl, stream, page
    <2>2. status' \in Status /\ say' \in [HandlerStatus -> Nat] /\ run' \in {run, "begin", "done"}
      <3>1. CASE StartRun
        <4>1. run' = "begin" /\ status' = "running" /\ Say("running")
          BY <3>1, StartFacts
        <4> QED BY <4>1, SayFacts DEF IInv, HandlerStatus, Status
      <3>2. CASE CloseJob
        BY <3>2, MachineFacts DEF CloseJob, IInv, DomainInv
      <3>3. ASSUME NEW e \in Control, AskControl(e) \/ ApplyControl(e)
            PROVE  status' \in Status /\ say' \in [HandlerStatus -> Nat] /\ run' = run
        <4>1. CASE AskControl(e)
          BY <4>1 DEF AskControl, IInv, DomainInv
        <4>2. CASE ApplyControl(e)
          <5>1. (status' = status /\ say' = say) \/ (status' \in HandlerStatus /\ Say(status'))
            BY <4>2, ControlFacts DEF IInv
          <5>2. ASSUME NEW t \in HandlerStatus, Say(t) PROVE say' \in [HandlerStatus -> Nat]
            BY <5>2, SayFacts DEF IInv
          <5> QED BY <4>2, <5>1, <5>2 DEF ApplyControl, IInv, DomainInv, HandlerStatus, Status
        <4> QED BY <3>3, <4>1, <4>2
      <3> QED BY <1>2, <3>1, <3>2, <3>3
    <2> QED BY <2>1, <2>2 DEF IInv, DomainInv
  <1>3. CASE SaveSummary
    <2>2. LastVerdict \in Verdict
      BY <1>3, LastVerdictFacts DEF SaveSummary, IInv
    <2> QED BY <1>3, <2>2 DEF SaveSummary, IInv, DomainInv, stream, page
  <1>4. CASE Send
    <2>1. events[cursor + 1] \in Messages /\ cursor + 1 \in 0 .. Len(events)
      BY <1>4 DEF Send, IInv, DomainInv
    <2> QED BY <1>4, <2>1 DEF Send, OnTheWire, CursorAfter, IInv, DomainInv, server, page
  <1>5. CASE Handle
    <2>1. Head(wire) \in Messages /\ Tail(wire) \in Seq(Messages)
      BY <1>5 DEF Handle, IInv, DomainInv
    <2> QED BY <1>5, <2>1 DEF Handle, Fetch, IInv, DomainInv, server
  <1>6. CASE Cut
    BY <1>6 DEF Cut, IInv, DomainInv, server, page
  <1>7. CASE ServePoll \/ (\E a \in PollAnswer : EndPoll(a)) \/ EndFetch
              \/ ServeDetail \/ EndDetail \/ UNCHANGED vars
    <2>1. UNCHANGED <<server, stream>>
      BY <1>7 DEF ServePoll, EndPoll, EndFetch, ServeDetail, EndDetail, vars
    <2>2. fetch' = fetch \/ fetch' = NoFetch \/ fetch' = [job |-> "asked", result |-> "asked"]
      BY <1>7 DEF ServePoll, EndPoll, Fetch, EndFetch, AfterFetch, ServeDetail, EndDetail, vars, page
    <2> QED BY <2>1, <2>2 DEF IInv, DomainInv, server, stream, NoFetch
  <1>8. CASE ServeFetch
    <2>1. UNCHANGED <<server, stream>>
      BY <1>8 DEF ServeFetch
    <2>2. fetch' \in [job : {"none", "asked"} \cup Status,
                     result : {"none", "asked", "missing"} \cup Verdict]
      BY <1>8 DEF ServeFetch, IInv, DomainInv
    <2> QED BY <2>1, <2>2 DEF IInv, DomainInv, server, stream
  <1> QED BY <1>1, <1>2, <1>3, <1>4, <1>5, <1>6, <1>7, <1>8 DEF Next, RunStep, HandlerStep

(* job_complete is published by the engine's end only.                     *)
LEMMA EventStep ==
    ASSUME IInv, [Next]_vars
    PROVE  EventInv'
  <1>1. CASE EngineDone
    <2>1. PICK v \in Verdict : Emit(Message("job_complete", v))
      BY <1>1 DEF EngineDone
    <2>2. Message("job_complete", v) \in Messages
      BY DEF Message, Messages, Verdict, Status
    <2>3. /\ Len(events') = Len(events) + 1 /\ Len(events) \in Nat
          /\ \A n \in 1 .. Len(events) : events'[n] = events[n] /\ events[n].type # "job_complete"
          /\ events'[Len(events')].type = "job_complete" /\ events'[Len(events')].status = v
      BY <1>1, <2>1, <2>2, EmitFacts DEF EngineDone, IInv, EventInv, DomainInv, Message
    <2>4. \A n \in 1 .. Len(events') : events'[n].type = "job_complete" => n = Len(events')
      BY <2>3
    <2> QED BY <1>1, <2>3, <2>4 DEF EngineDone, IInv, EventInv
  <1>2. ASSUME NEW m \in Messages, Emit(m), m.type = "job_status", saved' = saved,
               run' = run \/ (run = "begin" /\ run' = "engine")
        PROVE  EventInv'
    <2>1. /\ Len(events') = Len(events) + 1 /\ Len(events) \in Nat
          /\ \A n \in 1 .. Len(events) : events'[n] = events[n]
          /\ events'[Len(events')].type = "job_status"
      BY <1>2, EmitFacts DEF IInv, DomainInv
    <2>2. \A n \in 1 .. Len(events') : events'[n].type = "job_complete" =>
             n \in 1 .. Len(events) /\ events'[n] = events[n]
      BY <2>1
    <2>3. \A n \in 1 .. Len(events) : n \in 1 .. Len(events')
      BY <2>1
    <2>4. /\ \A n \in 1 .. Len(events') : events'[n].type = "job_complete" =>
                events'[n].status \in Verdict /\ run' \notin {"idle", "begin", "engine"}
          /\ \A n, k \in 1 .. Len(events') :
                events'[n].type = "job_complete" /\ events'[k].type = "job_complete" => n = k
      BY <1>2, <2>2 DEF IInv, EventInv
    <2>5. run' \in {"save", "close", "done"} => \E n \in 1 .. Len(events') : events'[n].type = "job_complete"
      BY <1>2, <2>1, <2>3 DEF IInv, EventInv
    <2>6. run' \in {"close", "done"} => saved' \in Verdict /\
             \E n \in 1 .. Len(events') : events'[n] = Message("job_complete", saved')
      BY <1>2, <2>1, <2>3 DEF IInv, EventInv
    <2> QED BY <2>4, <2>5, <2>6 DEF EventInv
  <1>3. CASE EngineBegins
    <2>1. Emit(Message("job_status", "running")) /\ saved' = saved /\ run = "begin" /\ run' = "engine"
      BY <1>3 DEF EngineBegins
    <2>2. Message("job_status", "running") \in Messages /\ Message("job_status", "running").type = "job_status"
      BY DEF Message, Messages, Status
    <2> QED BY <1>2, <2>1, <2>2
  <1>4. ASSUME NEW t \in HandlerStatus, Publish(t) PROVE EventInv'
    <2>1. Emit(Message("job_status", t)) /\ saved' = saved /\ run' = run
      BY <1>4 DEF Publish
    <2>2. Message("job_status", t) \in Messages /\ Message("job_status", t).type = "job_status"
      BY DEF Message, Messages, Status, HandlerStatus
    <2> QED BY <1>2, <2>1, <2>2
  <1>5. CASE StartRun
    BY <1>5 DEF StartRun, IInv, EventInv
  <1>6. CASE CloseJob
    BY <1>6 DEF CloseJob, IInv, EventInv
  <1>7. CASE SaveSummary
    BY <1>7, LastVerdictFacts DEF SaveSummary, IInv, EventInv, Verdict
  <1>8. CASE UNCHANGED <<events, run, saved>>
    BY <1>8 DEF IInv, EventInv
  <1>9. ASSUME NEW e \in Control, AskControl(e) \/ ApplyControl(e) PROVE UNCHANGED <<events, run, saved>>
    BY <1>9 DEF AskControl, ApplyControl
  <1> QED BY <1>1, <1>3, <1>4, <1>5, <1>6, <1>7, <1>8, <1>9 DEF Next, RunStep, HandlerStep, Send, Cut, Handle,
          ServePoll, EndPoll, ServeFetch, EndFetch, ServeDetail, EndDetail, vars, server

(* A control request cannot reopen the job, complete it or fail it.        *)
LEMMA OrderStep ==
    ASSUME IInv, [Next]_vars
    PROVE  OrderInv'
  <1>1. CASE StartRun
    BY <1>1, StartFacts DEF OrderInv
  <1>2. CASE CloseJob
    <2>1. status' \in {"completed", "failed", "cancelled"} \/ status' = status
      <3>1. saved \in Verdict
        BY <1>2 DEF CloseJob, IInv, EventInv
      <3>2. EventOf \in {"complete", "fail", "cancel"}
        BY <3>1 DEF EventOf, Verdict
      <3> QED BY <1>2, <3>2, MachineFacts DEF CloseJob
    <2> QED BY <1>2, <2>1 DEF CloseJob, IInv, OrderInv
  <1>3. ASSUME NEW e \in Control, ApplyControl(e) PROVE OrderInv'
    <2>1. run' = run /\ (status' = status \/ status' \in HandlerStatus)
      BY <1>3, ControlFacts DEF IInv
    <2> QED BY <2>1 DEF IInv, OrderInv, HandlerStatus
  <1>4. CASE UNCHANGED <<status, run>>
    BY <1>4 DEF IInv, OrderInv
  <1>5. CASE EngineBegins \/ EngineDone \/ SaveSummary
    BY <1>5 DEF EngineBegins, EngineDone, SaveSummary, IInv, OrderInv
  <1>6. ASSUME NEW e \in Control, AskControl(e) PROVE UNCHANGED <<status, run>>
    BY <1>6 DEF AskControl
  <1>7. ASSUME NEW t \in HandlerStatus, Publish(t) PROVE UNCHANGED <<status, run>>
    BY <1>7 DEF Publish
  <1> QED BY <1>1, <1>2, <1>3, <1>4, <1>5, <1>6, <1>7 DEF Next, RunStep, HandlerStep, Send, Cut, Handle,
          ServePoll, EndPoll, ServeFetch, EndFetch, ServeDetail, EndDetail, vars, server

(* The cursor moves with what is sent, and what is handled is taken from   *)
(* the head of the wire.                                                   *)
LEMMA CursorStep ==
    ASSUME IInv, [Next]_vars
    PROVE  CursorInv'
  <1>1. CASE UNCHANGED <<stream, events>>
    BY <1>1 DEF IInv, CursorInv, stream
  <1>2. ASSUME UNCHANGED stream, NEW m \in Messages, Emit(m) PROVE CursorInv'
    <2>2. \A n \in 1 .. Len(events) : events'[n] = events[n]
      BY <1>2, EmitFacts DEF IInv
    <2>3. UNCHANGED <<cursor, socket, wire, handled>>
      BY <1>2 DEF stream
    <2>4. \A n \in 1 .. cursor : events'[n] = events[n]
      BY <2>2 DEF IInv, DomainInv
    <2>5. Len(handled) \in Nat /\ Len(wire) \in Nat /\ cursor \in Nat
      BY DEF IInv, DomainInv
    <2>6. socket # "cut" => /\ \A n \in 1 .. Len(handled) : n \in 1 .. cursor
                            /\ \A n \in 1 .. Len(wire) : Len(handled) + n \in 1 .. cursor
      BY <2>5 DEF IInv, CursorInv
    <2> QED BY <2>3, <2>4, <2>5, <2>6 DEF IInv, CursorInv
  <1>3. CASE Send
    <2> DEFINE m == events[cursor + 1]
    <2>1. /\ wire' = Append(wire, m) /\ cursor' = cursor + 1 /\ UNCHANGED <<handled, events>>
          /\ socket = "open" /\ socket' = IF m.type = "job_complete" THEN "closed" ELSE socket
          /\ cursor \in Nat /\ cursor < Len(events)
      BY <1>3 DEF Send, OnTheWire, CursorAfter, server, IInv, DomainInv
    <2>2. /\ Len(wire') = Len(wire) + 1 /\ wire'[Len(wire) + 1] = m
          /\ \A n \in 1 .. Len(wire) : wire'[n] = wire[n]
          /\ Len(wire) \in Nat /\ Len(handled) \in Nat
      BY <2>1 DEF IInv, DomainInv
    <2>3. cursor = Len(handled) + Len(wire)
      BY <2>1 DEF IInv, CursorInv
    <2>4. \A n \in 1 .. Len(wire') : wire'[n] = events[Len(handled) + n]
      BY SMTT(30), <2>2, <2>3 DEF IInv, CursorInv
    <2> QED BY <2>1, <2>2, <2>3, <2>4 DEF IInv, CursorInv
  <1>4. CASE Handle
    <2>1. /\ wire # <<>> /\ wire' = Tail(wire) /\ handled' = Append(handled, Head(wire))
          /\ UNCHANGED <<cursor, socket, events>>
      BY <1>4 DEF Handle, server
    <2>2. /\ Len(wire') = Len(wire) - 1 /\ \A n \in 1 .. Len(wire') : wire'[n] = wire[n + 1]
          /\ Len(handled') = Len(handled) + 1 /\ handled'[Len(handled) + 1] = wire[1]
          /\ \A n \in 1 .. Len(handled) : handled'[n] = handled[n]
          /\ Len(wire) \in Nat /\ Len(handled) \in Nat /\ Len(wire) >= 1
      BY <2>1 DEF IInv, DomainInv
    <2>3. socket # "cut"
      BY <2>1 DEF IInv, CursorInv
    <2> QED BY <2>1, <2>2, <2>3 DEF IInv, CursorInv
  <1>5. CASE Cut
    BY <1>5 DEF Cut, IInv, CursorInv
  <1>6. Send \/ Handle \/ Cut \/ UNCHANGED stream
    BY DEF Next, RunStep, HandlerStep, StartRun, EngineBegins, EngineDone, SaveSummary, CloseJob, AskControl,
       ApplyControl, Publish, ServePoll, EndPoll, ServeFetch, EndFetch, ServeDetail, EndDetail, vars
  <1>7. (\E m \in Messages : Emit(m)) \/ events' = events
    BY WhoPublishes DEF IInv
  <1> QED BY <1>1, <1>2, <1>3, <1>4, <1>5, <1>6, <1>7

(* Whatever is said is true already, so it may be said at any later time.  *)
LEMMA TruthStep ==
    ASSUME IInv, [Next]_vars
    PROVE  TruthInv'
  <1> DEFINE ToldNext(s) == TrueOf(events', status', run', s)
  <1>0. \A s : Told(s) => ToldNext(s)
    BY ToldStays DEF IInv
  <1>1. ASSUME \A n \in 1 .. Len(events') : ToldNext(events'[n].status),
               \A s \in HandlerStatus : say'[s] > 0 => ToldNext(s), ToldNext(status'), ToldNext(saved'),
               UNCHANGED <<shown, fetch, detail>>
        PROVE  TruthInv'
    BY <1>0, <1>1 DEF IInv, TruthInv, Told
  <1>2. ASSUME UNCHANGED server, ToldNext(shown'), ToldNext(fetch'.job), ToldNext(detail')
        PROVE  TruthInv'
    BY <1>0, <1>2 DEF IInv, TruthInv, Told, server
  <1>3. ASSUME events' = events
        PROVE  \A n \in 1 .. Len(events') : ToldNext(events'[n].status)
    BY <1>0, <1>3 DEF IInv, TruthInv
  <1>4. \A s : s \notin {"completed", "failed", "cancelled"} => ToldNext(s)
    BY DEF TrueOf
  <1> HIDE DEF ToldNext
  <1>5. ASSUME UNCHANGED <<status, saved, shown, fetch, detail>>,
               NEW m \in Messages, Emit(m), ToldNext(m.status),
               \A s \in HandlerStatus : say'[s] > 0 => say[s] > 0
        PROVE  TruthInv'
    <2>1. /\ Len(events') = Len(events) + 1 /\ Len(events) \in Nat
          /\ \A n \in 1 .. Len(events) : events'[n] = events[n]
          /\ events'[Len(events')] = m
      BY <1>5, EmitFacts DEF IInv
    <2>2. \A n \in 1 .. Len(events') : n \in 1 .. Len(events) \/ n = Len(events')
      BY <2>1
    <2>3. \A n \in 1 .. Len(events') : ToldNext(events'[n].status)
      BY <1>0, <1>5, <2>1, <2>2 DEF IInv, TruthInv
    <2> QED BY <1>0, <1>1, <1>5, <2>3 DEF IInv, TruthInv
  <1>6. CASE EngineDone
    <2>1. PICK v \in Verdict : Emit(Message("job_complete", v))
      BY <1>6 DEF EngineDone
    <2>2. Message("job_complete", v) \in Messages /\ Message("job_complete", v).status = v
      BY DEF Message, Messages, Verdict, Status
    <2>3. Len(events') \in DOMAIN events' /\ events'[Len(events')] = Message("job_complete", v)
      <3>1. DomainInv /\ Emit(Message("job_complete", v))
        BY <2>1 DEF IInv
      <3> QED BY <2>2, <3>1, EmitFacts
    <2>4. UNCHANGED <<status, saved, say, shown, fetch, detail>> /\ run' = "save"
      BY <1>6 DEF EngineDone, page
    <2>5. ToldNext(v)
      BY <2>3, <2>4 DEF TrueOf, ToldNext
    <2> QED BY <1>5, <2>1, <2>2, <2>4, <2>5
  <1>7. CASE EngineBegins
    <2>1. /\ Emit(Message("job_status", "running"))
          /\ UNCHANGED <<status, saved, say, shown, fetch, detail>>
      BY <1>7 DEF EngineBegins, page
    <2>2. Message("job_status", "running") \in Messages /\ Message("job_status", "running").status = "running"
      BY DEF Message, Messages, Status
    <2> QED BY <1>4, <1>5, <2>1, <2>2
  <1>17. ASSUME NEW t \in HandlerStatus, Publish(t) PROVE TruthInv'
    <2>1. /\ Emit(Message("job_status", t)) /\ say[t] > 0
          /\ UNCHANGED <<status, saved, shown, fetch, detail>>
      BY <1>17 DEF Publish, page
    <2>2. Message("job_status", t) \in Messages /\ Message("job_status", t).status = t
      BY DEF Message, Messages, Status, HandlerStatus
    <2>3. ToldNext(t)
      BY <1>0, <2>1 DEF IInv, TruthInv
    <2>4. \A s \in HandlerStatus : say'[s] > 0 => say[s] > 0
      BY <1>17, <2>1, SayFacts DEF Publish, IInv
    <2> QED BY <1>5, <2>1, <2>2, <2>3, <2>4
  <1>18. ASSUME UNCHANGED <<events, saved, shown, fetch, detail>>,
                status' \in HandlerStatus, Say(status')
         PROVE  TruthInv'
    <2>1. ToldNext(status')
      BY <1>18 DEF TrueOf, ToldNext, HandlerStatus
    <2>2. \A s \in HandlerStatus : say'[s] > 0 => say[s] > 0 \/ s = status'
      <3>1. ASSUME NEW t \in HandlerStatus, t = status'
            PROVE  \A s \in HandlerStatus : say'[s] > 0 => say[s] > 0 \/ s = t
        BY <1>18, <3>1, SayFacts DEF IInv
      <3> QED BY <1>18, <3>1
    <2> QED BY <1>0, <1>1, <1>3, <1>18, <2>1, <2>2 DEF IInv, TruthInv
  <1>19. CASE StartRun
    <2>1. UNCHANGED <<events, saved, shown, fetch, detail>>
      BY <1>19 DEF StartRun, page
    <2>2. status' = "running" /\ Say(status')
      BY <1>19, StartFacts
    <2> QED BY <1>18, <2>1, <2>2 DEF HandlerStatus
  <1>20. ASSUME NEW e \in Control, AskControl(e) \/ ApplyControl(e) PROVE TruthInv'
    <2>1. CASE AskControl(e)
      BY <1>0, <1>1, <1>3, <2>1 DEF AskControl, page, IInv, TruthInv
    <2>2. CASE ApplyControl(e)
      <3>1. /\ UNCHANGED <<events, saved, shown, fetch, detail>>
            /\ (status' = status /\ say' = say) \/ (status' \in HandlerStatus /\ Say(status'))
        BY <2>2, ControlFacts DEF IInv, page
      <3>2. CASE status' = status /\ say' = say
        BY <1>0, <1>1, <1>3, <3>1, <3>2 DEF IInv, TruthInv
      <3> QED BY <1>18, <3>1, <3>2
    <2> QED BY <1>20, <2>1, <2>2
  <1>8. CASE SaveSummary
    <2>1. /\ UNCHANGED <<events, status, say, shown, fetch, detail>>
          /\ saved' = LastVerdict /\ run = "save"
      BY <1>8 DEF SaveSummary, page
    <2>3. \E n \in 1 .. Len(events) : LastVerdict = events[n].status
      BY <2>1, LastVerdictFacts DEF IInv, Message
    <2>4. ToldNext(saved')
      BY <1>0, <2>1, <2>3 DEF IInv, TruthInv
    <2> QED BY <1>0, <1>1, <1>3, <2>1, <2>4 DEF IInv, TruthInv
  <1>9. CASE CloseJob
    <2>1. UNCHANGED <<events, saved, say, shown, fetch, detail>> /\ run = "close"
      BY <1>9 DEF CloseJob, page
    <2>2. ToldNext(status')
      <3>1. CASE status' = status
        BY <1>0, <3>1 DEF IInv, TruthInv
      <3>2. CASE CanTransition(status, EventOf) /\ status' = NextStatus(status, EventOf)
        <4>1. saved \in Verdict
          BY <2>1 DEF IInv, EventInv
        <4>2. status' = saved
          BY <3>2, <4>1, MachineFacts DEF EventOf, Verdict
        <4> QED BY <1>0, <4>2 DEF IInv, TruthInv
      <3> QED BY <1>9, <3>1, <3>2 DEF CloseJob
    <2> QED BY <1>0, <1>1, <1>3, <2>1, <2>2 DEF IInv, TruthInv
  <1>10. CASE Handle
    <2>1. wire # <<>> /\ shown' = Head(wire).status /\ UNCHANGED <<server, detail>>
      BY <1>10 DEF Handle
    <2>2. \E n \in 1 .. Len(events) : Head(wire) = events[n]
      <3>1. socket # "cut"
        BY <2>1 DEF IInv, CursorInv
      <3>2. Head(wire) = wire[1] /\ Len(wire) \in Nat /\ Len(wire) >= 1 /\ Len(handled) \in Nat
        BY <2>1 DEF IInv, DomainInv
      <3>3. wire[1] = events[Len(handled) + 1] /\ Len(handled) + 1 <= cursor
        BY <3>1, <3>2 DEF IInv, CursorInv
      <3> QED BY <3>2, <3>3 DEF IInv, DomainInv
    <2>3. ToldNext(shown')
      BY <1>0, <2>1, <2>2 DEF IInv, TruthInv
    <2>4. fetch' = fetch \/ fetch'.job = "asked"
      BY <1>10 DEF Handle, Fetch
    <2> QED BY <1>0, <1>2, <1>4, <2>1, <2>3, <2>4 DEF IInv, TruthInv
  <1>11. CASE ServePoll \/ Send \/ Cut \/ UNCHANGED vars
    BY <1>0, <1>2, <1>11 DEF ServePoll, Send, Cut, vars, page, IInv, TruthInv
  <1>12. ASSUME NEW a \in PollAnswer, EndPoll(a) PROVE TruthInv'
    <2>1. /\ UNCHANGED <<server, detail>> /\ (fetch' = fetch \/ fetch'.job = "asked")
          /\ shown' = shown \/ (shown' = a /\ a \in ActiveStatus)
      BY <1>12 DEF EndPoll, Fetch, PollAnswer
    <2>2. ToldNext(shown')
      BY <1>0, <1>4, <2>1 DEF IInv, TruthInv, ActiveStatus
    <2>3. ToldNext(fetch'.job) /\ ToldNext(detail')
      BY <1>0, <1>4, <2>1 DEF IInv, TruthInv
    <2> QED BY <1>2, <2>1, <2>2, <2>3
  <1>13. CASE ServeFetch
    <2>1. UNCHANGED <<server, shown, detail>> /\ fetch'.job \in {fetch.job, status}
      BY <1>13 DEF ServeFetch, IInv, DomainInv
    <2> QED BY <1>0, <1>2, <2>1 DEF IInv, TruthInv
  <1>14. CASE EndFetch
    <2>1. UNCHANGED <<server, detail>> /\ shown' \in {shown, fetch.job} /\ fetch'.job = "none"
      BY <1>14 DEF EndFetch, AfterFetch, NoFetch
    <2> QED BY <1>0, <1>2, <1>4, <2>1 DEF IInv, TruthInv
  <1>15. CASE ServeDetail
    <2>1. UNCHANGED <<server, shown, fetch>> /\ detail' \in {"pending", saved}
      BY <1>15 DEF ServeDetail
    <2> QED BY <1>0, <1>2, <1>4, <2>1 DEF IInv, TruthInv
  <1>16. CASE EndDetail
    <2>1. UNCHANGED <<server, fetch>> /\ shown' = detail /\ detail' = "none"
      BY <1>16 DEF EndDetail
    <2> QED BY <1>0, <1>2, <1>4, <2>1 DEF IInv, TruthInv
  <1> QED BY <1>6, <1>7, <1>8, <1>9, <1>10, <1>11, <1>12, <1>13, <1>14, <1>15, <1>16, <1>17, <1>19, <1>20
          DEF Next, RunStep, HandlerStep

-----------------------------------------------------------------------------
(* All parts of the invariant are kept together.                           *)
LEMMA StepInv == IInv /\ [Next]_vars => IInv'
  BY DomainStep, EventStep, OrderStep, CursorStep, TruthStep DEF IInv

(* Therefore it holds for ever.                                            *)
LEMMA InvHolds == Spec => []IInv
  BY InitInv, StepInv, PTL DEF Spec

(* Two sequences put together are a prefix of a third if both are where    *)
(* they belong in it.                                                      *)
LEMMA Pieces ==
    ASSUME NEW S, NEW a \in Seq(S), NEW b \in Seq(S), NEW c \in Seq(S),
           Len(a) + Len(b) <= Len(c),
           \A n \in 1 .. Len(a) : a[n] = c[n],
           \A n \in 1 .. Len(b) : b[n] = c[Len(a) + n]
    PROVE  a \o b = SubSeq(c, 1, Len(a) + Len(b))
  <1> DEFINE s == a \o b
             t == SubSeq(c, 1, Len(a) + Len(b))
  <1>1. s \in Seq(S) /\ Len(s) = Len(a) + Len(b) /\ Len(a) \in Nat /\ Len(b) \in Nat /\ Len(c) \in Nat
    OBVIOUS
  <1>2. t \in Seq(S) /\ Len(t) = Len(a) + Len(b) /\ \A n \in 1 .. Len(t) : t[n] = c[n]
    BY <1>1
  <1>3. \A n \in 1 .. Len(s) : s[n] = c[n]
    <2> SUFFICES ASSUME NEW n \in 1 .. Len(s) PROVE s[n] = c[n]
      OBVIOUS
    <2>1. CASE n <= Len(a)
      BY <1>1, <2>1
    <2>2. CASE n > Len(a)
      <3>1. n - Len(a) \in 1 .. Len(b) /\ s[n] = b[n - Len(a)]
        BY <1>1, <2>2
      <3> QED BY <1>1, <3>1
    <2> QED BY <1>1, <2>1, <2>2
  <1>4. Len(s) = Len(t) /\ \A n \in 1 .. Len(s) : s[n] = t[n]
    BY <1>1, <1>2, <1>3
  <1> HIDE DEF s, t
  <1>5. s = t
    BY <1>1, <1>2, <1>4, SeqEqual
  <1> QED BY <1>5 DEF s, t

(* StreamInOrder: on one connection the page handles every event once and  *)
(* in the order of the store, and none after job_complete.                 *)
THEOREM StreamIsInOrder == Spec => []StreamInOrder
  <1>1. IInv => StreamInOrder
    <2> SUFFICES ASSUME IInv PROVE StreamInOrder
      OBVIOUS
    <2>1. /\ events \in Seq(Messages) /\ wire \in Seq(Messages) /\ handled \in Seq(Messages)
          /\ cursor \in 0 .. Len(events) /\ Len(events) \in Nat /\ Len(wire) \in Nat /\ Len(handled) \in Nat
          /\ DOMAIN handled = 1 .. Len(handled)
      BY DEF IInv, DomainInv
    <2>2. CASE socket # "cut"
      <3>1. /\ cursor = Len(handled) + Len(wire)
            /\ \A n \in 1 .. Len(handled) : handled[n] = events[n]
            /\ \A n \in 1 .. Len(wire) : wire[n] = events[Len(handled) + n]
        BY <2>2 DEF IInv, CursorInv
      <3>2. handled \o wire = SubSeq(events, 1, cursor)
        BY <2>1, <3>1, Pieces
      <3>3. ASSUME NEW n \in 1 .. Len(handled), handled[n].type = "job_complete"
            PROVE  n = Len(handled)
        <4>1. events[n].type = "job_complete" /\ n \in 1 .. cursor
          BY <2>1, <3>1, <3>3
        <4>2. socket = "closed" /\ events[cursor].type = "job_complete" /\ cursor >= 1
          BY <2>2, <4>1 DEF IInv, CursorInv, DomainInv
        <4>3. n = cursor
          BY <2>1, <4>1, <4>2 DEF IInv, EventInv
        <4>4. n <= Len(handled) /\ cursor = Len(handled) + Len(wire)
          BY <2>1, <3>1
        <4>5. Len(handled) \in Nat /\ Len(wire) \in Nat
          BY <2>1
        <4> QED BY <4>3, <4>4, <4>5
      <3> QED BY <2>1, <3>2, <3>3 DEF StreamInOrder
    <2>3. CASE socket = "cut"
      BY <2>3 DEF IInv, CursorInv, StreamInOrder
    <2> QED BY <2>2, <2>3
  <1> QED BY <1>1, InvHolds, PTL

(* ShownTruthful: a final status on the page is never wrong, whichever of  *)
(* the four ways it came by and in whatever order.                         *)
THEOREM FinalStatusIsTrue == Spec => []ShownTruthful
  <1>1. IInv => ShownTruthful
    BY DEF IInv, TruthInv, Told, TrueOf, ShownTruthful, Announced
  <1> QED BY <1>1, InvHolds, PTL
=============================================================================
