----------------------------- MODULE MonitorPage -----------------------------
(***************************************************************************)
(* The monitor page of the frontend following one job: the buffered event   *)
(* stream (InMemoryEventStore), the websocket handler that sends it, and    *)
(* app.js, which handles the messages, polls the active job every four      *)
(* seconds and fetches the result.                                         *)
(*                                                                         *)
(* app.js runs one callback at a time, but every request is answered at its *)
(* own pace: a step of the page, the moment the server reads its stores for *)
(* a request, and the moment the page acts on the answer are steps of their *)
(* own, and the answers of polls may change places.  The server side is    *)
(* the job as RunService leaves it: its status, its control flags, its      *)
(* stored summary and the events published, in the order of                *)
(* execute_prepared_run and of the control endpoints, whose flag, status   *)
(* and event are steps of their own.  The page may lose its connection; it *)
(* opens no second one.  Left out: device events, which move the cursor and *)
(* leave the shown status alone; a reset by another client; the raw event  *)
(* endpoint; and a run that ends by an exception.  A transition is one step *)
(* here, and so is the start of the run: what two handlers in the middle of *)
(* either do to the status and the flags is the subject of RunService.     *)
(***************************************************************************)
EXTENDS JobStateMachine, Integers, Sequences, Functions

CONSTANTS
    MaxPolls,     \* bound: answers of polls under way at once
    MaxControls   \* bound: control requests, refused ones included

ASSUME BoundsAssumption == MaxPolls \in Nat \ {0} /\ MaxControls \in Nat

VARIABLES
    status,     \* status of the job record
    run,        \* how far the run thread is
    saved,      \* verdict of the stored summary, or "none"
    pause,      \* the flags of the job's control
    cancel,
    controls,   \* control requests so far
    asked,      \* those that have set their flag and not their status, of each kind
    say,        \* job_status events of the handlers about to be published, of each status
    events,     \* the event store
    cursor,     \* events the websocket handler has sent
    socket,     \* "open", "closed" by the server, or "cut"
    wire,       \* messages sent and not handled
    handled,    \* messages of this connection handled by the page
    shown,      \* monitorState.job.status
    polls,      \* answers of polls on their way to the page, and how many of each
    fetch,      \* fetchRunResultForMonitor: the answers to its two requests
    detail      \* loadAndRenderJob: the result it was given, or "none"

flags == <<pause, cancel>>
requests == <<controls, asked>>
server == <<status, run, saved, flags, requests, say, events>>
stream == <<cursor, socket, wire, handled>>
page == <<polls, fetch, detail>>
vars == <<server, stream, shown, page>>

Verdict == {"completed", "failed", "cancelled"}
Terminal == status \in Verdict
Control == {"pause", "resume", "cancel"}
HandlerStatus == {"running", "paused", "cancelled"}
Message(type, s) == [type |-> type, status |-> s]
PollAnswer == ActiveStatus \cup {"inactive"}
NoFetch == [job |-> "none", result |-> "none"]

\* executeRun has created the job and opened the socket.
Init ==
    /\ status = "queued" /\ run = "idle" /\ saved = "none"
    /\ pause = FALSE /\ cancel = FALSE /\ controls = 0 /\ asked = [e \in Control |-> 0]
    /\ say = [s \in HandlerStatus |-> 0]
    /\ events = <<>> /\ cursor = 0 /\ socket = "open" /\ wire = <<>> /\ handled = <<>>
    /\ shown = "queued"
    /\ polls = [a \in PollAnswer |-> 0] /\ fetch = NoFetch /\ detail = "none"

-----------------------------------------------------------------------------
(* The server.                                                             *)

Emit(m) == events' = Append(events, m)

\* About to be published, after what the handler did.
Say(s) == say' = [say EXCEPT ![s] = @ + 1]

\* run/async: the transition, the cleared flags, the thread, and then the event.
StartRun ==
    /\ run = "idle" /\ CanTransition(status, "start")
    /\ status' = NextStatus(status, "start") /\ run' = "begin"
    /\ pause' = FALSE /\ cancel' = FALSE /\ Say("running")
    /\ UNCHANGED <<saved, requests, events, stream, shown, page>>

\* run_job says that it is running.
EngineBegins ==
    /\ run = "begin" /\ run' = "engine"
    /\ Emit(Message("job_status", "running"))
    /\ UNCHANGED <<status, saved, flags, requests, say, stream, shown, page>>

\* Its last event; a cancelled run is one that saw its flag, whatever the status is.
EngineDone ==
    /\ run = "engine" /\ run' = "save"
    /\ \E v \in Verdict :
        /\ v = "cancelled" => cancel
        /\ Emit(Message("job_complete", v))
    /\ UNCHANGED <<status, saved, flags, requests, say, stream, shown, page>>

LastVerdict == LET at == CHOOSE n \in DOMAIN events : events[n].type = "job_complete" IN events[at].status

SaveSummary ==
    /\ run = "save"
    /\ saved' = LastVerdict /\ run' = "close"
    /\ UNCHANGED <<status, flags, requests, say, events, stream, shown, page>>

\* Mutant: a failed run completes its job.
EventOfUnlessCancelled == IF saved = "cancelled" THEN "cancel" ELSE "complete"

EventOf == CASE saved = "completed" -> "complete" [] saved = "failed" -> "fail" [] saved = "cancelled" -> "cancel"

\* The run's event closes the job if it still may.
CloseJob ==
    /\ run = "close" /\ run' = "done"
    /\ status' = IF CanTransition(status, EventOf) THEN NextStatus(status, EventOf) ELSE status
    /\ UNCHANGED <<saved, flags, requests, say, events, stream, shown, page>>

\* request_pause, request_resume and request_cancel.
MutateControl(e) == pause' = (e = "pause") /\ cancel' = (cancel \/ e = "cancel")

\* A control request, by this page or another client, sets its flag,
AskControl(e) ==
    /\ run # "idle" /\ controls < MaxControls
    /\ MutateControl(e)
    /\ controls' = controls + 1 /\ asked' = [asked EXCEPT ![e] = @ + 1]
    /\ UNCHANGED <<status, run, saved, say, events, stream, shown, page>>

\* and then its status; a transition that is refused leaves the flag.
ApplyControl(e) ==
    /\ asked[e] > 0 /\ asked' = [asked EXCEPT ![e] = @ - 1]
    /\ IF CanTransition(status, e)
       THEN status' = NextStatus(status, e) /\ Say(NextStatus(status, e))
       ELSE UNCHANGED <<status, say>>
    /\ UNCHANGED <<run, saved, flags, controls, events, stream, shown, page>>

\* publish_job_status, in any order with what others publish.
Publish(s) ==
    /\ say[s] > 0 /\ say' = [say EXCEPT ![s] = @ - 1]
    /\ Emit(Message("job_status", s))
    /\ UNCHANGED <<status, run, saved, flags, requests, stream, shown, page>>

-----------------------------------------------------------------------------
(* ws_job_events.                                                          *)

\* Mutant: a job_status event is sent without moving the cursor past it.
CursorAfterLast(m) == IF m.type = "job_status" THEN cursor ELSE cursor + 1

CursorAfter(m) == cursor + 1

\* Mutant: the last event closes the socket instead of being sent.
OnTheWireButLast(m) == IF m.type = "job_complete" THEN wire ELSE Append(wire, m)

OnTheWire(m) == Append(wire, m)

Send ==
    /\ socket = "open" /\ cursor < Len(events)
    /\ LET m == events[cursor + 1] IN
        /\ wire' = OnTheWire(m) /\ cursor' = CursorAfter(m)
        /\ socket' = IF m.type = "job_complete" THEN "closed" ELSE socket
    /\ UNCHANGED <<server, handled, shown, page>>

\* The connection breaks: the handler ends and nothing comes any more.
Cut ==
    /\ socket # "cut" /\ socket' = "cut"
    /\ cursor' = 0 /\ wire' = <<>> /\ handled' = <<>>
    /\ UNCHANGED <<server, shown, page>>

-----------------------------------------------------------------------------
(* app.js.                                                                 *)

\* fetchRunResultForMonitor asks for the job and the result, one at a time.
Fetch == fetch' = IF fetch = NoFetch THEN [job |-> "asked", result |-> "asked"] ELSE fetch

\* handleJobSocketMessage
Handle ==
    /\ wire # <<>>
    /\ wire' = Tail(wire) /\ handled' = Append(handled, Head(wire))
    /\ shown' = Head(wire).status
    /\ IF Head(wire).type = "job_complete" THEN Fetch ELSE UNCHANGED fetch
    /\ UNCHANGED <<server, cursor, socket, polls, detail>>

\* The timer does not wait for the polls before; one is served, whenever it
\* was sent.
ServePoll ==
    /\ FoldFunction(+, 0, polls) < MaxPolls
    /\ polls' = [polls EXCEPT ![IF status \in ActiveStatus THEN status ELSE "inactive"] = @ + 1]
    /\ UNCHANGED <<server, stream, shown, fetch, detail>>

\* The page still shows a job as active that the server no longer does.
LooksInto == shown \in ActiveStatus

\* refreshActive
EndPoll(a) ==
    /\ polls[a] > 0 /\ polls' = [polls EXCEPT ![a] = @ - 1]
    /\ IF a = "inactive"
       THEN UNCHANGED shown /\ IF LooksInto THEN Fetch ELSE UNCHANGED fetch
       ELSE shown' = a /\ UNCHANGED fetch
    /\ UNCHANGED <<server, stream, detail>>

ServeFetch ==
    /\ \/ fetch.job = "asked" /\ fetch' = [fetch EXCEPT !.job = status]
       \/ fetch.result = "asked" /\ fetch' = [fetch EXCEPT !.result = IF saved = "none" THEN "missing" ELSE saved]
    /\ UNCHANGED <<server, stream, shown, polls, detail>>

\* Mutant: the loading flag is cleared on success only.
AfterFetchStuck == IF fetch.result = "missing" THEN fetch ELSE NoFetch

\* The finally clause lets the next fetch begin.
AfterFetch == NoFetch

\* Both answers are there, or the result is not (404).
EndFetch ==
    /\ fetch.job # "none"
    /\ fetch.result = "missing" \/ (fetch.job # "asked" /\ fetch.result # "asked")
    /\ shown' = IF fetch.result = "missing" THEN shown ELSE fetch.job
    /\ fetch' = AfterFetch
    /\ UNCHANGED <<server, stream, polls, detail>>

\* The user opens the job from the history; a result that is not there is
\* "pending".
ServeDetail ==
    /\ detail = "none"
    /\ detail' = IF saved = "none" THEN "pending" ELSE saved
    /\ UNCHANGED <<server, stream, shown, polls, fetch>>

\* renderJobDetail, and the status of the same job on the monitor page.
EndDetail ==
    /\ detail # "none" /\ detail' = "none"
    /\ shown' = detail
    /\ UNCHANGED <<server, stream, polls, fetch>>

-----------------------------------------------------------------------------
RunStep == StartRun \/ EngineBegins \/ EngineDone \/ SaveSummary \/ CloseJob
HandlerStep ==
    \/ \E e \in Control : AskControl(e) \/ ApplyControl(e)
    \/ \E s \in HandlerStatus : Publish(s)

Next ==
    \/ RunStep \/ HandlerStep
    \/ Send \/ Cut \/ Handle
    \/ ServePoll \/ \E a \in PollAnswer : EndPoll(a)
    \/ ServeFetch \/ EndFetch
    \/ ServeDetail \/ EndDetail

Spec == Init /\ [][Next]_vars

\* The run thread and the handlers are scheduled, the timer fires for ever,
\* requests are answered and answers handled; the pause spin holds the engine
\* until it is resumed or cancelled.  Nobody has to open a detail page.
Fairness ==
    /\ WF_vars(EngineBegins \/ (EngineDone /\ (pause => cancel)) \/ SaveSummary \/ CloseJob)
    /\ WF_vars(\E e \in Control : ApplyControl(e))
    /\ WF_vars(\E s \in HandlerStatus : Publish(s))
    /\ WF_vars(Send) /\ WF_vars(Handle)
    /\ WF_vars(ServePoll) /\ WF_vars(\E a \in PollAnswer : EndPoll(a))
    /\ WF_vars(ServeFetch) /\ WF_vars(EndFetch) /\ WF_vars(EndDetail)

FairSpec == Spec /\ Fairness

-----------------------------------------------------------------------------
Announced(v) == \E n \in DOMAIN events : events[n] = Message("job_complete", v)

(* The page handles every event once and in the order of the store: what   *)
(* was handled and what is on the wire are the events up to the cursor, as *)
(* long as the connection is not cut, and nothing is sent after            *)
(* job_complete.                                                           *)
StreamInOrder ==
    /\ socket # "cut" => handled \o wire = SubSeq(events, 1, cursor)
    /\ \A n \in DOMAIN handled : handled[n].type = "job_complete" => n = Len(handled)

(* A final status on the page is never wrong, whichever of the four ways   *)
(* it came by and in whatever order: completed and failed are what the     *)
(* engine announced, and cancelled is the job's own status, or what the    *)
(* engine announced and the run thread is about to make its status.  (The  *)
(* engine reads the flag, which a cancel request sets before the status.)  *)
ShownTruthful ==
    /\ shown \in {"completed", "failed"} => Announced(shown)
    /\ shown = "cancelled" => status = "cancelled" \/ (Announced("cancelled") /\ run # "done")

(* The page learns that the run is over: job_complete is handled, however  *)
(* late it is published, unless the connection is cut.                     *)
CompleteSeen ==
    (\E n \in DOMAIN events : events[n].type = "job_complete")
        ~> socket = "cut" \/ \E n \in DOMAIN handled : handled[n].type = "job_complete"

(* A job that has ended is not shown as queued, running or paused for ever, *)
(* although answers of polls overtake each other, messages are late or     *)
(* lost, and the result may not be stored yet when it is asked for.  (A    *)
(* detail page opened before that may leave it shown as pending.)          *)
MonitorSettles == <>[]Terminal => <>[](shown \notin ActiveStatus)
=============================================================================
