--------------------------- MODULE RunServiceProofs ---------------------------
(***************************************************************************)
(* Theorems about RunService for every set of jobs and every number of     *)
(* request threads.                                                        *)
(*                                                                         *)
(* Nothing locks a handler, so what a process has looked up may be stale   *)
(* when it acts on it.  IInv says what is true in spite of that: a job     *)
(* leaves "queued" once and for ever, and whoever runs a job has seen it   *)
(* leave.  The two bounds count what the requests have in hand: the jobs   *)
(* they are about to make active, and the runs they are about to begin.    *)
(***************************************************************************)
EXTENDS RunService, FiniteSetTheorems, TLAPS

Terminal == {"completed", "failed", "cancelled"}

\* A process at one of these works on a job that has been started.
Started == {"record", "control", "clear", "spawn", "execute", "engine", "drain", "save"}

Served == {"control", "clear", "spawn", "create", "reset_jobs", "reset_results", "reset_controls"}
Nowhere == {"idle", "reset_jobs", "reset_results", "reset_controls"}

Call == [at : Labels, job : Job \cup {"none"}, kind : Kinds,
         event : Event \cup {"none"}, next : Status \cup {"none"}]

\* The part of TypeOK that is about the stores and the flags.
StoresOK ==
    /\ status \in [Job -> Status \cup {"unborn"}]
    /\ stored \subseteq Job /\ ctl \subseteq Job
    /\ pause \in [Job -> BOOLEAN] /\ cancel \in [Job -> BOOLEAN]
    /\ result \in [Job -> {"none", "completed", "failed", "cancelled"}]

\* What a process has in hand: the event and the status it is about to write.
HandOK(x) ==
    /\ proc[x].kind = "create" <=> At(x, "create")
    /\ At(x, "lookup") => proc[x].event \in Event
    /\ At(x, "commit") => proc[x].next \in Status \ {"queued"}
    /\ proc[x].at \in {"drain", "save"} => proc[x].next \in Terminal
    /\ proc[x].at \in Served => x \in Thread

\* A run thread works on its own job, and the events it brings end that job.
ThreadOK(x) ==
    x \in Job =>
        /\ ~At(x, "idle") => JobOf(x) = x
        /\ At(x, "lookup") => proc[x].event \in {"complete", "fail", "cancel"}
        /\ At(x, "commit") => proc[x].next \in Terminal
        /\ proc[x].kind \in {"none", "thread"}

\* A job is queued once, and only until the "start" or the "cancel" of a client.
JobOK(x) ==
    /\ proc[x].at \notin Nowhere => JobOf(x) \in Job
    /\ proc[x].at \in {"lookup", "commit"} => status[JobOf(x)] # "unborn"
    /\ proc[x].at \in Started \/ (x \in Job /\ ~At(x, "idle")) =>
          status[JobOf(x)] \notin {"unborn", "queued"}
    /\ At(x, "create") => status[JobOf(x)] = "unborn"

CallInv == \A x \in Proc : HandOK(x) /\ ThreadOK(x) /\ JobOK(x)

\* A stored job has been born, and nobody else creates a job that somebody creates.
BirthInv ==
    /\ \A j \in stored : status[j] # "unborn"
    /\ \A s, t \in Proc : At(s, "create") /\ At(t, "create") /\ JobOf(s) = JobOf(t) => s = t

IInv == StoresOK /\ proc \in [Proc -> Call] /\ CallInv /\ BirthInv

-----------------------------------------------------------------------------
(* What the transition table allows: no event leads back to "queued" or    *)
(* out of an ended job, and each event leads to one status.                *)
LEMMA MachineFacts ==
    ASSUME NEW s, NEW e, CanTransition(s, e)
    PROVE  /\ <<s, e, NextStatus(s, e)>> \in Transitions
           /\ s \in ActiveStatus /\ NextStatus(s, e) \in Status \ {"queued"}
           /\ e = "start" => s = "queued"
           /\ e \in {"complete", "fail", "cancel"} => NextStatus(s, e) \in Terminal
  <1> DEFINE t == CHOOSE u \in Transitions : u[1] = s /\ u[2] = e
  <1>1. t \in Transitions /\ t[1] = s /\ t[2] = e
    BY DEF CanTransition
  <1>2. NextStatus(s, e) = t[3]
    BY DEF NextStatus
  <1> HIDE DEF t
  <1> QED BY <1>1, <1>2 DEF Transitions, ActiveStatus, Status, Terminal

(* Job ids and threads are different processes.                            *)
LEMMA Processes ==
    /\ Proc = Thread \cup Job /\ \A t \in Thread : t \in Proc /\ t \notin Job
    /\ \A j \in Job : j \in Proc /\ j \notin Thread
  BY ProcessesDisjoint DEF Proc

(* Nothing is stored and nobody works on anything at first.                *)
LEMMA InitInv == Init => IInv
  BY Processes DEF Init, IInv, StoresOK, CallInv, HandOK, ThreadOK, JobOK, BirthInv, Idle, At, JobOf,
     Call, Labels, Kinds, Event, Status, Started, Served, Nowhere

(* The invariant is about calls, and a call has its domain.                *)
LEMMA InvTypes == IInv => TypeOK
  BY Processes DEF IInv, TypeOK, StoresOK, CallInv, ThreadOK, JobOK, Call, At, Nowhere

\* Somebody else's step does to a job only what nobody relies on.
JobKept(j) ==
    \/ status'[j] = status[j]
    \/ status[j] # "unborn" /\ status'[j] \notin {"unborn", "queued"}

\* A process at one of these steps goes by what it knows of its job's status.
Relies(y) == proc[y].at \notin Nowhere \cup {"exit"} \/ (y \in Job /\ ~At(y, "idle"))

(* A step is right if it leaves the processes it moves and the stores      *)
(* right, and takes no job of another process back.                        *)
LEMMA Moves ==
    ASSUME IInv, NEW X \in SUBSET Proc,
           proc' \in [Proc -> Call], \A y \in Proc \ X : proc'[y] = proc[y],
           StoresOK', \A x \in X : (HandOK(x) /\ ThreadOK(x) /\ JobOK(x))',
           \A y \in Proc \ X : Relies(y) => JobKept(JobOf(y)),
           \A j \in stored' : status'[j] # "unborn",
           \A x \in X, y \in Proc : At(x, "create")' /\ At(y, "create")' /\ JobOf(x)' = JobOf(y)' => x = y
    PROVE  IInv'
  <1>2. ASSUME NEW y \in Proc \ X PROVE (HandOK(y) /\ ThreadOK(y) /\ JobOK(y))'
    <2>1. HandOK(y) /\ ThreadOK(y) /\ JobOK(y) /\ proc'[y] = proc[y]
      BY DEF IInv, CallInv
    <2>2. HandOK(y)' /\ ThreadOK(y)'
      BY <2>1 DEF HandOK, ThreadOK, At, JobOf
    <2>3. JobOK(y)'
      BY <2>1, Processes DEF JobOK, ThreadOK, Relies, At, JobOf, JobKept, Nowhere, Started
    <2> QED BY <2>2, <2>3
  <1>3. CallInv'
    BY <1>2 DEF CallInv
  <1>4. BirthInv'
    BY DEF IInv, BirthInv, At, JobOf
  <1> QED BY <1>3, <1>4 DEF IInv

(* So is a step of one process that creates no job.                        *)
LEMMA OneMoves ==
    ASSUME IInv, NEW x \in Proc,
           proc' \in [Proc -> Call], \A y \in Proc \ {x} : proc'[y] = proc[y],
           HandOK(x)', ThreadOK(x)', JobOK(x)', ~At(x, "create")', StoresOK',
           \A y \in Proc \ {x} : Relies(y) => JobKept(JobOf(y)),
           \A j \in stored' : status'[j] # "unborn"
    PROVE  IInv'
  <1> DEFINE X == {x}
  <1>1. /\ X \in SUBSET Proc
        /\ \A y \in Proc \ X : proc'[y] = proc[y]
        /\ \A y \in X : (HandOK(y) /\ ThreadOK(y) /\ JobOK(y))'
        /\ \A y \in Proc \ X : Relies(y) => JobKept(JobOf(y))
        /\ \A y \in X, z \in Proc : At(y, "create")' /\ At(z, "create")' /\ JobOf(y)' = JobOf(z)' => y = z
    OBVIOUS
  <1> HIDE DEF X
  <1> QED BY <1>1, Moves

(* The job is born; nobody else knows it.                                  *)
LEMMA CreateSaveInv ==
    ASSUME IInv, NEW x \in Thread, CreateSave(x)
    PROVE  IInv'
  <1>0. x \in Proc /\ HandOK(x) /\ ThreadOK(x) /\ JobOK(x)
    BY Processes DEF IInv, CallInv
  <1>1. /\ proc' \in [Proc -> Call] /\ \A y \in Proc \ {x} : proc'[y] = proc[y]
        /\ ~At(x, "create")'
    BY <1>0, Processes DEF IInv, HandOK, CreateSave, Goto, Done, At, JobOf, Idle, Call, Labels,
       Kinds, Event, Status
  <1>2. HandOK(x)' /\ ThreadOK(x)' /\ JobOK(x)'
    BY <1>0, Processes DEF IInv, StoresOK, BirthInv, HandOK, ThreadOK, JobOK, CreateSave, Goto,
       Done, At, JobOf, Idle, stores, flags, Call, Served, Nowhere, Started, Event, Status, Terminal
  <1>3. StoresOK'
    BY <1>0, Processes DEF IInv, StoresOK, HandOK, JobOK, CreateSave, Goto, At, JobOf, stores,
       flags, Status, Terminal, Nowhere
  <1>4. /\ \A y \in Proc \ {x} : Relies(y) => JobKept(JobOf(y))
        /\ \A j \in stored' : status'[j] # "unborn"
    <2>1. status[JobOf(x)] = "unborn" /\ At(x, "create") /\ JobOf(x) \in Job
      BY <1>0 DEF JobOK, CreateSave, At, Nowhere
    <2>2. ASSUME NEW y \in Proc \ {x}, Relies(y)
          PROVE  JobOf(y) \in Job /\ JobOf(y) # JobOf(x)
      <3>1. JobOK(y) /\ ThreadOK(y) /\ proc[y].at \in Labels
        BY DEF IInv, CallInv, Call
      <3>2. JobOf(y) \in Job
        BY <2>2, <3>1 DEF JobOK, ThreadOK, Relies
      <3>3. At(y, "create") => JobOf(y) # JobOf(x)
        BY <1>0, <2>1 DEF IInv, BirthInv
      <3> QED BY <2>1, <2>2, <3>1, <3>2, <3>3 DEF JobOK, Relies, At, Nowhere, Started, Labels
    <2>3. /\ \A j \in Job \ {JobOf(x)} : status'[j] = status[j]
          /\ status'[JobOf(x)] = "queued" /\ stored' = stored \cup {JobOf(x)}
      BY <2>1 DEF IInv, StoresOK, CreateSave
    <2> QED BY <2>1, <2>2, <2>3 DEF IInv, StoresOK, BirthInv, JobKept
  <1> QED BY <1>0, <1>1, <1>2, <1>3, <1>4, OneMoves

(* A client names a job it was told of.                                    *)
LEMMA RawEventInv ==
    ASSUME IInv, NEW x \in Thread, RawEvent(x)
    PROVE  IInv'
  <1>0. x \in Proc /\ HandOK(x) /\ ThreadOK(x) /\ JobOK(x)
    BY Processes DEF IInv, CallInv
  <1>a. PICK j \in Job, e \in Event :
           Known(j) /\ proc' = [proc EXCEPT ![x] = [Idle EXCEPT !.at = "lookup", !.job = j, !.kind = "event", !.event = e]]
    BY <1>0 DEF RawEvent
  <1>b. j \in Job
    BY <1>a DEF IInv, StoresOK
  <1>1. /\ proc' \in [Proc -> Call] /\ \A y \in Proc \ {x} : proc'[y] = proc[y]
        /\ ~At(x, "create")'
    BY <1>0, Processes, <1>a, <1>b DEF IInv, HandOK, Known, Goto, Done, At, JobOf, Idle, Call,
       Labels, Kinds, Event, Status
  <1>2. HandOK(x)' /\ ThreadOK(x)' /\ JobOK(x)'
    BY <1>0, Processes, <1>a, <1>b DEF IInv, StoresOK, BirthInv, HandOK, ThreadOK, JobOK, RawEvent,
       Known, Goto, Done, At, JobOf, Idle, stores, flags, Call, Served, Nowhere, Started, Event,
       Status, Terminal
  <1>3. StoresOK'
    BY <1>0, Processes DEF IInv, StoresOK, HandOK, JobOK, RawEvent, Known, Goto, At, JobOf, stores,
       flags, Status, Terminal, Nowhere
  <1>4. /\ \A y \in Proc \ {x} : Relies(y) => JobKept(JobOf(y))
        /\ \A k \in stored' : status'[k] # "unborn"
    BY <1>0, Processes DEF IInv, StoresOK, BirthInv, HandOK, JobOK, JobKept, RawEvent, Known, At,
       JobOf, stores, flags, Status, Nowhere, Started
  <1> QED BY <1>0, <1>1, <1>2, <1>3, <1>4, OneMoves

(* A run is asked for a stored job.                                        *)
LEMMA RunRequestInv ==
    ASSUME IInv, NEW x \in Thread, RunRequest(x)
    PROVE  IInv'
  <1>0. x \in Proc /\ HandOK(x) /\ ThreadOK(x) /\ JobOK(x)
    BY Processes DEF IInv, CallInv
  <1>a. PICK k \in {"run", "run_async"}, j \in stored :
           proc' = [proc EXCEPT ![x] = [Idle EXCEPT !.at = "lookup", !.job = j, !.kind = k, !.event = "start"]]
    BY <1>0 DEF RunRequest
  <1>b. j \in Job
    BY <1>a DEF IInv, StoresOK
  <1>1. /\ proc' \in [Proc -> Call] /\ \A y \in Proc \ {x} : proc'[y] = proc[y]
        /\ ~At(x, "create")'
    BY <1>0, Processes, <1>a, <1>b DEF IInv, HandOK, Goto, Done, At, JobOf, Idle, Call, Labels,
       Kinds, Event, Status
  <1>2. HandOK(x)' /\ ThreadOK(x)' /\ JobOK(x)'
    BY <1>0, Processes, <1>a, <1>b DEF IInv, StoresOK, BirthInv, HandOK, ThreadOK, JobOK,
       RunRequest, Goto, Done, At, JobOf, Idle, stores, flags, Call, Served, Nowhere, Started, Event,
       Status, Terminal
  <1>3. StoresOK'
    BY <1>0, Processes DEF IInv, StoresOK, HandOK, JobOK, RunRequest, Goto, At, JobOf, stores,
       flags, Status, Terminal, Nowhere
  <1>4. /\ \A y \in Proc \ {x} : Relies(y) => JobKept(JobOf(y))
        /\ \A i \in stored' : status'[i] # "unborn"
    BY <1>0, Processes DEF IInv, StoresOK, BirthInv, HandOK, JobOK, JobKept, RunRequest, At, JobOf,
       stores, flags, Status, Nowhere, Started
  <1> QED BY <1>0, <1>1, <1>2, <1>3, <1>4, OneMoves

(* A reset concerns no job of its own.                                     *)
LEMMA ResetCheckInv ==
    ASSUME IInv, NEW x \in Thread, ResetCheck(x)
    PROVE  IInv'
  <1>0. x \in Proc /\ HandOK(x) /\ ThreadOK(x) /\ JobOK(x)
    BY Processes DEF IInv, CallInv
  <1>1. /\ proc' \in [Proc -> Call] /\ \A y \in Proc \ {x} : proc'[y] = proc[y]
        /\ ~At(x, "create")'
    BY <1>0, Processes DEF IInv, HandOK, ResetCheck, Goto, Done, At, JobOf, Idle, Call, Labels,
       Kinds, Event, Status
  <1>2. HandOK(x)' /\ ThreadOK(x)' /\ JobOK(x)'
    BY <1>0, Processes DEF IInv, StoresOK, BirthInv, HandOK, ThreadOK, JobOK, ResetCheck, Goto,
       Done, At, JobOf, Idle, stores, flags, Call, Served, Nowhere, Started, Event, Status, Terminal
  <1>3. StoresOK'
    BY <1>0, Processes DEF IInv, StoresOK, HandOK, JobOK, ResetCheck, Goto, At, JobOf, stores,
       flags, Status, Terminal, Nowhere
  <1>4. /\ \A y \in Proc \ {x} : Relies(y) => JobKept(JobOf(y))
        /\ \A j \in stored' : status'[j] # "unborn"
    BY <1>0, Processes DEF IInv, StoresOK, BirthInv, HandOK, JobOK, JobKept, ResetCheck, At, JobOf,
       stores, flags, Status, Nowhere, Started
  <1> QED BY <1>0, <1>1, <1>2, <1>3, <1>4, OneMoves

(* The flags of a stored job are set.                                      *)
LEMMA ControlActionInv ==
    ASSUME IInv, NEW x \in Thread, ControlAction(x)
    PROVE  IInv'
  <1>0. x \in Proc /\ HandOK(x) /\ ThreadOK(x) /\ JobOK(x)
    BY Processes DEF IInv, CallInv
  <1>a. PICK e \in {"pause", "resume", "cancel"}, j \in stored :
           proc' = [proc EXCEPT ![x] = [Idle EXCEPT !.at = "lookup", !.job = j, !.kind = "control", !.event = e]]
    BY <1>0 DEF ControlAction, SetFlags
  <1>b. j \in Job
    BY <1>a DEF IInv, StoresOK
  <1>1. /\ proc' \in [Proc -> Call] /\ \A y \in Proc \ {x} : proc'[y] = proc[y]
        /\ ~At(x, "create")'
    BY <1>0, Processes, <1>a, <1>b DEF IInv, HandOK, SetFlags, Goto, Done, At, JobOf, Idle, Call,
       Labels, Kinds, Event, Status
  <1>2. HandOK(x)' /\ ThreadOK(x)' /\ JobOK(x)'
    BY <1>0, Processes, <1>a, <1>b DEF IInv, StoresOK, BirthInv, HandOK, ThreadOK, JobOK,
       ControlAction, SetFlags, Goto, Done, At, JobOf, Idle, stores, flags, Call, Served, Nowhere,
       Started, Event, Status, Terminal
  <1>3. StoresOK'
    BY <1>0, Processes DEF IInv, StoresOK, HandOK, JobOK, ControlAction, SetFlags, Goto, At, JobOf,
       stores, flags, Status, Terminal, Nowhere
  <1>4. /\ \A y \in Proc \ {x} : Relies(y) => JobKept(JobOf(y))
        /\ \A k \in stored' : status'[k] # "unborn"
    BY <1>0, Processes DEF IInv, StoresOK, BirthInv, HandOK, JobOK, JobKept, ControlAction,
       SetFlags, At, JobOf, stores, flags, Status, Nowhere, Started
  <1> QED BY <1>0, <1>1, <1>2, <1>3, <1>4, OneMoves

(* The status to be written is one the table leads to.                     *)
LEMMA LookupEventInv ==
    ASSUME IInv, NEW x \in Proc, LookupEvent(x)
    PROVE  IInv'
  <1>0. x \in Proc /\ HandOK(x) /\ ThreadOK(x) /\ JobOK(x)
    BY Processes DEF IInv, CallInv
  <1>a. /\ proc[x].event \in Event /\ JobOf(x) \in Job /\ status[JobOf(x)] # "unborn"
        /\ NextStatus(status[JobOf(x)], proc[x].event) \in Status \ {"queued"}
        /\ x \in Job => NextStatus(status[JobOf(x)], proc[x].event) \in Terminal
    BY <1>0, MachineFacts DEF LookupEvent, HandOK, ThreadOK, JobOK, Nowhere, At
  <1>1. /\ proc' \in [Proc -> Call] /\ \A y \in Proc \ {x} : proc'[y] = proc[y]
        /\ ~At(x, "create")'
    BY <1>0, Processes, <1>a DEF IInv, HandOK, LookupEvent, Goto, Done, At, JobOf, Idle, Call,
       Labels, Kinds, Event, Status
  <1>2. HandOK(x)' /\ ThreadOK(x)' /\ JobOK(x)'
    BY <1>0, Processes, <1>a DEF IInv, StoresOK, BirthInv, HandOK, ThreadOK, JobOK, LookupEvent,
       Goto, Done, At, JobOf, Idle, stores, flags, Call, Served, Nowhere, Started, Event, Status,
       Terminal
  <1>3. StoresOK'
    BY <1>0, Processes DEF IInv, StoresOK, HandOK, JobOK, LookupEvent, Goto, At, JobOf, stores,
       flags, Status, Terminal, Nowhere
  <1>4. /\ \A y \in Proc \ {x} : Relies(y) => JobKept(JobOf(y))
        /\ \A j \in stored' : status'[j] # "unborn"
    BY <1>0, Processes DEF IInv, StoresOK, BirthInv, HandOK, JobOK, JobKept, LookupEvent, At, JobOf,
       stores, flags, Status, Nowhere, Started
  <1> QED BY <1>0, <1>1, <1>2, <1>3, <1>4, OneMoves

(* A refused event changes nothing.                                        *)
LEMMA RefuseEventInv ==
    ASSUME IInv, NEW x \in Proc, RefuseEvent(x)
    PROVE  IInv'
  <1>0. x \in Proc /\ HandOK(x) /\ ThreadOK(x) /\ JobOK(x)
    BY Processes DEF IInv, CallInv
  <1>1. /\ proc' \in [Proc -> Call] /\ \A y \in Proc \ {x} : proc'[y] = proc[y]
        /\ ~At(x, "create")'
    BY <1>0, Processes DEF IInv, HandOK, RefuseEvent, Leave, Goto, Done, At, JobOf, Idle, Call,
       Labels, Kinds, Event, Status
  <1>2. HandOK(x)' /\ ThreadOK(x)' /\ JobOK(x)'
    BY <1>0, Processes DEF IInv, StoresOK, BirthInv, HandOK, ThreadOK, JobOK, RefuseEvent, Leave,
       Goto, Done, At, JobOf, Idle, stores, flags, Call, Served, Nowhere, Started, Event, Status,
       Terminal
  <1>3. StoresOK'
    BY <1>0, Processes DEF IInv, StoresOK, HandOK, JobOK, RefuseEvent, Leave, Goto, At, JobOf,
       stores, flags, Status, Terminal, Nowhere
  <1>4. /\ \A y \in Proc \ {x} : Relies(y) => JobKept(JobOf(y))
        /\ \A j \in stored' : status'[j] # "unborn"
    BY <1>0, Processes DEF IInv, StoresOK, BirthInv, HandOK, JobOK, JobKept, RefuseEvent, Leave, At,
       JobOf, stores, flags, Status, Nowhere, Started
  <1> QED BY <1>0, <1>1, <1>2, <1>3, <1>4, OneMoves

(* A written status is never queued.                                       *)
LEMMA CommitEventInv ==
    ASSUME IInv, NEW x \in Proc, CommitEvent(x)
    PROVE  IInv'
  <1>0. x \in Proc /\ HandOK(x) /\ ThreadOK(x) /\ JobOK(x)
    BY Processes DEF IInv, CallInv
  <1>1. /\ proc' \in [Proc -> Call] /\ \A y \in Proc \ {x} : proc'[y] = proc[y]
        /\ ~At(x, "create")'
    BY <1>0, Processes DEF IInv, HandOK, CommitEvent, Goto, Done, At, JobOf, Idle, Call, Labels,
       Kinds, Event, Status
  <1>2. HandOK(x)' /\ ThreadOK(x)' /\ JobOK(x)'
    BY <1>0, Processes DEF IInv, StoresOK, BirthInv, HandOK, ThreadOK, JobOK, CommitEvent, Goto,
       Done, At, JobOf, Idle, stores, flags, Call, Served, Nowhere, Started, Event, Status, Terminal
  <1>3. StoresOK'
    BY <1>0, Processes DEF IInv, StoresOK, HandOK, JobOK, CommitEvent, Goto, At, JobOf, stores,
       flags, Status, Terminal, Nowhere
  <1>4. /\ \A y \in Proc \ {x} : Relies(y) => JobKept(JobOf(y))
        /\ \A j \in stored' : status'[j] # "unborn"
    BY <1>0, Processes DEF IInv, StoresOK, BirthInv, HandOK, JobOK, JobKept, CommitEvent, At, JobOf,
       stores, flags, Status, Nowhere, Started
  <1> QED BY <1>0, <1>1, <1>2, <1>3, <1>4, OneMoves

(* The record that is put back has been born.                              *)
LEMMA SaveRecordInv ==
    ASSUME IInv, NEW x \in Proc, SaveRecord(x)
    PROVE  IInv'
  <1>0. x \in Proc /\ HandOK(x) /\ ThreadOK(x) /\ JobOK(x)
    BY Processes DEF IInv, CallInv
  <1>1. /\ proc' \in [Proc -> Call] /\ \A y \in Proc \ {x} : proc'[y] = proc[y]
        /\ ~At(x, "create")'
    BY <1>0, Processes DEF IInv, HandOK, SaveRecord, Leave, Goto, Done, At, JobOf, Idle, Call,
       Labels, Kinds, Event, Status
  <1>2. HandOK(x)' /\ ThreadOK(x)' /\ JobOK(x)'
    BY <1>0, Processes DEF IInv, StoresOK, BirthInv, HandOK, ThreadOK, JobOK, SaveRecord, Leave,
       Goto, Done, At, JobOf, Idle, stores, flags, Call, Served, Nowhere, Started, Event, Status,
       Terminal
  <1>3. StoresOK'
    BY <1>0, Processes DEF IInv, StoresOK, HandOK, JobOK, SaveRecord, Leave, Goto, At, JobOf,
       stores, flags, Status, Terminal, Nowhere
  <1>4. /\ \A y \in Proc \ {x} : Relies(y) => JobKept(JobOf(y))
        /\ \A j \in stored' : status'[j] # "unborn"
    BY <1>0, Processes DEF IInv, StoresOK, BirthInv, HandOK, JobOK, JobKept, SaveRecord, Leave, At,
       JobOf, stores, flags, Status, Nowhere, Started
  <1> QED BY <1>0, <1>1, <1>2, <1>3, <1>4, OneMoves

(* A control is made for a started job.                                    *)
LEMMA RunControlInv ==
    ASSUME IInv, NEW x \in Thread, RunControl(x)
    PROVE  IInv'
  <1>0. x \in Proc /\ HandOK(x) /\ ThreadOK(x) /\ JobOK(x)
    BY Processes DEF IInv, CallInv
  <1>1. /\ proc' \in [Proc -> Call] /\ \A y \in Proc \ {x} : proc'[y] = proc[y]
        /\ ~At(x, "create")'
    BY <1>0, Processes DEF IInv, HandOK, RunControl, GetOrCreate, Goto, Done, At, JobOf, Idle, Call,
       Labels, Kinds, Event, Status
  <1>2. HandOK(x)' /\ ThreadOK(x)' /\ JobOK(x)'
    BY <1>0, Processes DEF IInv, StoresOK, BirthInv, HandOK, ThreadOK, JobOK, RunControl,
       GetOrCreate, Goto, Done, At, JobOf, Idle, stores, flags, Call, Served, Nowhere, Started, Event,
       Status, Terminal
  <1>3. StoresOK'
    BY <1>0, Processes DEF IInv, StoresOK, HandOK, JobOK, RunControl, GetOrCreate, Goto, At, JobOf,
       stores, flags, Status, Terminal, Nowhere
  <1>4. /\ \A y \in Proc \ {x} : Relies(y) => JobKept(JobOf(y))
        /\ \A j \in stored' : status'[j] # "unborn"
    BY <1>0, Processes DEF IInv, StoresOK, BirthInv, HandOK, JobOK, JobKept, RunControl,
       GetOrCreate, At, JobOf, stores, flags, Status, Nowhere, Started
  <1> QED BY <1>0, <1>1, <1>2, <1>3, <1>4, OneMoves

(* Its flags are cleared.                                                  *)
LEMMA ClearFlagsInv ==
    ASSUME IInv, NEW x \in Thread, ClearFlags(x)
    PROVE  IInv'
  <1>0. x \in Proc /\ HandOK(x) /\ ThreadOK(x) /\ JobOK(x)
    BY Processes DEF IInv, CallInv
  <1>1. /\ proc' \in [Proc -> Call] /\ \A y \in Proc \ {x} : proc'[y] = proc[y]
        /\ ~At(x, "create")'
    BY <1>0, Processes DEF IInv, HandOK, ClearFlags, Goto, Done, At, JobOf, Idle, Call, Labels,
       Kinds, Event, Status
  <1>2. HandOK(x)' /\ ThreadOK(x)' /\ JobOK(x)'
    BY <1>0, Processes DEF IInv, StoresOK, BirthInv, HandOK, ThreadOK, JobOK, ClearFlags, Goto,
       Done, At, JobOf, Idle, stores, flags, Call, Served, Nowhere, Started, Event, Status, Terminal
  <1>3. StoresOK'
    BY <1>0, Processes DEF IInv, StoresOK, HandOK, JobOK, ClearFlags, Goto, At, JobOf, stores,
       flags, Status, Terminal, Nowhere
  <1>4. /\ \A y \in Proc \ {x} : Relies(y) => JobKept(JobOf(y))
        /\ \A j \in stored' : status'[j] # "unborn"
    BY <1>0, Processes DEF IInv, StoresOK, BirthInv, HandOK, JobOK, JobKept, ClearFlags, At, JobOf,
       stores, flags, Status, Nowhere, Started
  <1> QED BY <1>0, <1>1, <1>2, <1>3, <1>4, OneMoves

(* The engine gives a verdict.                                             *)
LEMMA EngineReturnsInv ==
    ASSUME IInv, NEW x \in Proc, EngineReturns(x)
    PROVE  IInv'
  <1>0. x \in Proc /\ HandOK(x) /\ ThreadOK(x) /\ JobOK(x)
    BY Processes DEF IInv, CallInv
  <1>1. /\ proc' \in [Proc -> Call] /\ \A y \in Proc \ {x} : proc'[y] = proc[y]
        /\ ~At(x, "create")'
    BY <1>0, Processes DEF IInv, HandOK, EngineReturns, Goto, Done, At, JobOf, Idle, Call, Labels,
       Kinds, Event, Status
  <1>2. HandOK(x)' /\ ThreadOK(x)' /\ JobOK(x)'
    BY <1>0, Processes DEF IInv, StoresOK, BirthInv, HandOK, ThreadOK, JobOK, EngineReturns, Goto,
       Done, At, JobOf, Idle, stores, flags, Call, Served, Nowhere, Started, Event, Status, Terminal
  <1>3. StoresOK'
    BY <1>0, Processes DEF IInv, StoresOK, HandOK, JobOK, EngineReturns, Goto, At, JobOf, stores,
       flags, Status, Terminal, Nowhere
  <1>4. /\ \A y \in Proc \ {x} : Relies(y) => JobKept(JobOf(y))
        /\ \A j \in stored' : status'[j] # "unborn"
    BY <1>0, Processes DEF IInv, StoresOK, BirthInv, HandOK, JobOK, JobKept, EngineReturns, At,
       JobOf, stores, flags, Status, Nowhere, Started
  <1> QED BY <1>0, <1>1, <1>2, <1>3, <1>4, OneMoves

(* The engine gives the verdict cancelled.                                 *)
LEMMA EngineCancelledInv ==
    ASSUME IInv, NEW x \in Proc, EngineCancelled(x)
    PROVE  IInv'
  <1>0. x \in Proc /\ HandOK(x) /\ ThreadOK(x) /\ JobOK(x)
    BY Processes DEF IInv, CallInv
  <1>1. /\ proc' \in [Proc -> Call] /\ \A y \in Proc \ {x} : proc'[y] = proc[y]
        /\ ~At(x, "create")'
    BY <1>0, Processes DEF IInv, HandOK, EngineCancelled, Goto, Done, At, JobOf, Idle, Call, Labels,
       Kinds, Event, Status
  <1>2. HandOK(x)' /\ ThreadOK(x)' /\ JobOK(x)'
    BY <1>0, Processes DEF IInv, StoresOK, BirthInv, HandOK, ThreadOK, JobOK, EngineCancelled, Goto,
       Done, At, JobOf, Idle, stores, flags, Call, Served, Nowhere, Started, Event, Status, Terminal
  <1>3. StoresOK'
    BY <1>0, Processes DEF IInv, StoresOK, HandOK, JobOK, EngineCancelled, Goto, At, JobOf, stores,
       flags, Status, Terminal, Nowhere
  <1>4. /\ \A y \in Proc \ {x} : Relies(y) => JobKept(JobOf(y))
        /\ \A j \in stored' : status'[j] # "unborn"
    BY <1>0, Processes DEF IInv, StoresOK, BirthInv, HandOK, JobOK, JobKept, EngineCancelled, At,
       JobOf, stores, flags, Status, Nowhere, Started
  <1> QED BY <1>0, <1>1, <1>2, <1>3, <1>4, OneMoves

(* The engine raises.                                                      *)
LEMMA EngineRaisesInv ==
    ASSUME IInv, NEW x \in Proc, EngineRaises(x)
    PROVE  IInv'
  <1>0. x \in Proc /\ HandOK(x) /\ ThreadOK(x) /\ JobOK(x)
    BY Processes DEF IInv, CallInv
  <1>1. /\ proc' \in [Proc -> Call] /\ \A y \in Proc \ {x} : proc'[y] = proc[y]
        /\ ~At(x, "create")'
    BY <1>0, Processes DEF IInv, HandOK, EngineRaises, Leave, Goto, Done, At, JobOf, Idle, Call,
       Labels, Kinds, Event, Status
  <1>2. HandOK(x)' /\ ThreadOK(x)' /\ JobOK(x)'
    BY <1>0, Processes DEF IInv, StoresOK, BirthInv, HandOK, ThreadOK, JobOK, EngineRaises, Leave,
       Goto, Done, At, JobOf, Idle, stores, flags, Call, Served, Nowhere, Started, Event, Status,
       Terminal
  <1>3. StoresOK'
    BY <1>0, Processes DEF IInv, StoresOK, HandOK, JobOK, EngineRaises, Leave, Goto, At, JobOf,
       stores, flags, Status, Terminal, Nowhere
  <1>4. /\ \A y \in Proc \ {x} : Relies(y) => JobKept(JobOf(y))
        /\ \A j \in stored' : status'[j] # "unborn"
    BY <1>0, Processes DEF IInv, StoresOK, BirthInv, HandOK, JobOK, JobKept, EngineRaises, Leave,
       At, JobOf, stores, flags, Status, Nowhere, Started
  <1> QED BY <1>0, <1>1, <1>2, <1>3, <1>4, OneMoves

(* The engine is entered.                                                  *)
LEMMA ExecuteBeginInv ==
    ASSUME IInv, NEW x \in Proc, ExecuteBegin(x)
    PROVE  IInv'
  <1>0. x \in Proc /\ HandOK(x) /\ ThreadOK(x) /\ JobOK(x)
    BY Processes DEF IInv, CallInv
  <1>1. /\ proc' \in [Proc -> Call] /\ \A y \in Proc \ {x} : proc'[y] = proc[y]
        /\ ~At(x, "create")'
    BY <1>0, Processes DEF IInv, HandOK, ExecuteBegin, GetOrCreate, Goto, Done, At, JobOf, Idle,
       Call, Labels, Kinds, Event, Status
  <1>2. HandOK(x)' /\ ThreadOK(x)' /\ JobOK(x)'
    BY <1>0, Processes DEF IInv, StoresOK, BirthInv, HandOK, ThreadOK, JobOK, ExecuteBegin,
       GetOrCreate, Goto, Done, At, JobOf, Idle, stores, flags, Call, Served, Nowhere, Started, Event,
       Status, Terminal
  <1>3. StoresOK'
    BY <1>0, Processes DEF IInv, StoresOK, HandOK, JobOK, ExecuteBegin, GetOrCreate, Goto, At,
       JobOf, stores, flags, Status, Terminal, Nowhere
  <1>4. /\ \A y \in Proc \ {x} : Relies(y) => JobKept(JobOf(y))
        /\ \A j \in stored' : status'[j] # "unborn"
    BY <1>0, Processes DEF IInv, StoresOK, BirthInv, HandOK, JobOK, JobKept, ExecuteBegin,
       GetOrCreate, At, JobOf, stores, flags, Status, Nowhere, Started
  <1> QED BY <1>0, <1>1, <1>2, <1>3, <1>4, OneMoves

(* The pool is drained.                                                    *)
LEMMA EngineDrainedInv ==
    ASSUME IInv, NEW x \in Proc, EngineDrained(x)
    PROVE  IInv'
  <1>0. x \in Proc /\ HandOK(x) /\ ThreadOK(x) /\ JobOK(x)
    BY Processes DEF IInv, CallInv
  <1>1. /\ proc' \in [Proc -> Call] /\ \A y \in Proc \ {x} : proc'[y] = proc[y]
        /\ ~At(x, "create")'
    BY <1>0, Processes DEF IInv, HandOK, EngineDrained, Goto, Done, At, JobOf, Idle, Call, Labels,
       Kinds, Event, Status
  <1>2. HandOK(x)' /\ ThreadOK(x)' /\ JobOK(x)'
    BY <1>0, Processes DEF IInv, StoresOK, BirthInv, HandOK, ThreadOK, JobOK, EngineDrained, Goto,
       Done, At, JobOf, Idle, stores, flags, Call, Served, Nowhere, Started, Event, Status, Terminal
  <1>3. StoresOK'
    BY <1>0, Processes DEF IInv, StoresOK, HandOK, JobOK, EngineDrained, Goto, At, JobOf, stores,
       flags, Status, Terminal, Nowhere
  <1>4. /\ \A y \in Proc \ {x} : Relies(y) => JobKept(JobOf(y))
        /\ \A j \in stored' : status'[j] # "unborn"
    BY <1>0, Processes DEF IInv, StoresOK, BirthInv, HandOK, JobOK, JobKept, EngineDrained, At,
       JobOf, stores, flags, Status, Nowhere, Started
  <1> QED BY <1>0, <1>1, <1>2, <1>3, <1>4, OneMoves

(* The verdict is stored, and becomes an event that ends the job.          *)
LEMMA SaveSummaryInv ==
    ASSUME IInv, NEW x \in Proc, SaveSummary(x)
    PROVE  IInv'
  <1>0. x \in Proc /\ HandOK(x) /\ ThreadOK(x) /\ JobOK(x)
    BY Processes DEF IInv, CallInv
  <1>1. /\ proc' \in [Proc -> Call] /\ \A y \in Proc \ {x} : proc'[y] = proc[y]
        /\ ~At(x, "create")'
    BY <1>0, Processes DEF IInv, HandOK, SaveSummary, EventOf, Goto, Done, At, JobOf, Idle, Call,
       Labels, Kinds, Event, Status, Terminal
  <1>2. HandOK(x)' /\ ThreadOK(x)' /\ JobOK(x)'
    BY <1>0, Processes DEF IInv, StoresOK, BirthInv, HandOK, ThreadOK, JobOK, SaveSummary, EventOf,
       Goto, Done, At, JobOf, Idle, stores, flags, Call, Served, Nowhere, Started, Event, Status,
       Terminal
  <1>3. StoresOK'
    BY <1>0, Processes DEF IInv, StoresOK, HandOK, JobOK, SaveSummary, EventOf, Goto, At, JobOf,
       stores, flags, Status, Terminal, Nowhere
  <1>4. /\ \A y \in Proc \ {x} : Relies(y) => JobKept(JobOf(y))
        /\ \A j \in stored' : status'[j] # "unborn"
    BY <1>0, Processes DEF IInv, StoresOK, BirthInv, HandOK, JobOK, JobKept, SaveSummary, EventOf,
       At, JobOf, stores, flags, Status, Nowhere, Started
  <1> QED BY <1>0, <1>1, <1>2, <1>3, <1>4, OneMoves

(* A run thread ends.                                                      *)
LEMMA ThreadExitsInv ==
    ASSUME IInv, NEW x \in Job, ThreadExits(x)
    PROVE  IInv'
  <1>0. x \in Proc /\ HandOK(x) /\ ThreadOK(x) /\ JobOK(x)
    BY Processes DEF IInv, CallInv
  <1>1. /\ proc' \in [Proc -> Call] /\ \A y \in Proc \ {x} : proc'[y] = proc[y]
        /\ ~At(x, "create")'
    BY <1>0, Processes DEF IInv, HandOK, ThreadExits, Goto, Done, At, JobOf, Idle, Call, Labels,
       Kinds, Event, Status
  <1>2. HandOK(x)' /\ ThreadOK(x)' /\ JobOK(x)'
    BY <1>0, Processes DEF IInv, StoresOK, BirthInv, HandOK, ThreadOK, JobOK, ThreadExits, Goto,
       Done, At, JobOf, Idle, stores, flags, Call, Served, Nowhere, Started, Event, Status, Terminal
  <1>3. StoresOK'
    BY <1>0, Processes DEF IInv, StoresOK, HandOK, JobOK, ThreadExits, Goto, At, JobOf, stores,
       flags, Status, Terminal, Nowhere
  <1>4. /\ \A y \in Proc \ {x} : Relies(y) => JobKept(JobOf(y))
        /\ \A j \in stored' : status'[j] # "unborn"
    BY <1>0, Processes DEF IInv, StoresOK, BirthInv, HandOK, JobOK, JobKept, ThreadExits, At, JobOf,
       stores, flags, Status, Nowhere, Started
  <1> QED BY <1>0, <1>1, <1>2, <1>3, <1>4, OneMoves

(* The jobs are forgotten.                                                 *)
LEMMA ResetJobsInv ==
    ASSUME IInv, NEW x \in Thread, ResetJobs(x)
    PROVE  IInv'
  <1>0. x \in Proc /\ HandOK(x) /\ ThreadOK(x) /\ JobOK(x)
    BY Processes DEF IInv, CallInv
  <1>1. /\ proc' \in [Proc -> Call] /\ \A y \in Proc \ {x} : proc'[y] = proc[y]
        /\ ~At(x, "create")'
    BY <1>0, Processes DEF IInv, HandOK, ResetJobs, Goto, Done, At, JobOf, Idle, Call, Labels,
       Kinds, Event, Status
  <1>2. HandOK(x)' /\ ThreadOK(x)' /\ JobOK(x)'
    BY <1>0, Processes DEF IInv, StoresOK, BirthInv, HandOK, ThreadOK, JobOK, ResetJobs, Goto, Done,
       At, JobOf, Idle, stores, flags, Call, Served, Nowhere, Started, Event, Status, Terminal
  <1>3. StoresOK'
    BY <1>0, Processes DEF IInv, StoresOK, HandOK, JobOK, ResetJobs, Goto, At, JobOf, stores, flags,
       Status, Terminal, Nowhere
  <1>4. /\ \A y \in Proc \ {x} : Relies(y) => JobKept(JobOf(y))
        /\ \A j \in stored' : status'[j] # "unborn"
    BY <1>0, Processes DEF IInv, StoresOK, BirthInv, HandOK, JobOK, JobKept, ResetJobs, At, JobOf,
       stores, flags, Status, Nowhere, Started
  <1> QED BY <1>0, <1>1, <1>2, <1>3, <1>4, OneMoves

(* The results are forgotten.                                              *)
LEMMA ResetResultsInv ==
    ASSUME IInv, NEW x \in Thread, ResetResults(x)
    PROVE  IInv'
  <1>0. x \in Proc /\ HandOK(x) /\ ThreadOK(x) /\ JobOK(x)
    BY Processes DEF IInv, CallInv
  <1>1. /\ proc' \in [Proc -> Call] /\ \A y \in Proc \ {x} : proc'[y] = proc[y]
        /\ ~At(x, "create")'
    BY <1>0, Processes DEF IInv, HandOK, ResetResults, Goto, Done, At, JobOf, Idle, Call, Labels,
       Kinds, Event, Status
  <1>2. HandOK(x)' /\ ThreadOK(x)' /\ JobOK(x)'
    BY <1>0, Processes DEF IInv, StoresOK, BirthInv, HandOK, ThreadOK, JobOK, ResetResults, Goto,
       Done, At, JobOf, Idle, stores, flags, Call, Served, Nowhere, Started, Event, Status, Terminal
  <1>3. StoresOK'
    BY <1>0, Processes DEF IInv, StoresOK, HandOK, JobOK, ResetResults, Goto, At, JobOf, stores,
       flags, Status, Terminal, Nowhere
  <1>4. /\ \A y \in Proc \ {x} : Relies(y) => JobKept(JobOf(y))
        /\ \A j \in stored' : status'[j] # "unborn"
    BY <1>0, Processes DEF IInv, StoresOK, BirthInv, HandOK, JobOK, JobKept, ResetResults, At,
       JobOf, stores, flags, Status, Nowhere, Started
  <1> QED BY <1>0, <1>1, <1>2, <1>3, <1>4, OneMoves

(* The controls are forgotten.                                             *)
LEMMA ResetControlsInv ==
    ASSUME IInv, NEW x \in Thread, ResetControls(x)
    PROVE  IInv'
  <1>0. x \in Proc /\ HandOK(x) /\ ThreadOK(x) /\ JobOK(x)
    BY Processes DEF IInv, CallInv
  <1>1. /\ proc' \in [Proc -> Call] /\ \A y \in Proc \ {x} : proc'[y] = proc[y]
        /\ ~At(x, "create")'
    BY <1>0, Processes DEF IInv, HandOK, ResetControls, Goto, Done, At, JobOf, Idle, Call, Labels,
       Kinds, Event, Status
  <1>2. HandOK(x)' /\ ThreadOK(x)' /\ JobOK(x)'
    BY <1>0, Processes DEF IInv, StoresOK, BirthInv, HandOK, ThreadOK, JobOK, ResetControls, Goto,
       Done, At, JobOf, Idle, stores, flags, Call, Served, Nowhere, Started, Event, Status, Terminal
  <1>3. StoresOK'
    BY <1>0, Processes DEF IInv, StoresOK, HandOK, JobOK, ResetControls, Goto, At, JobOf, stores,
       flags, Status, Terminal, Nowhere
  <1>4. /\ \A y \in Proc \ {x} : Relies(y) => JobKept(JobOf(y))
        /\ \A j \in stored' : status'[j] # "unborn"
    BY <1>0, Processes DEF IInv, StoresOK, BirthInv, HandOK, JobOK, JobKept, ResetControls, At,
       JobOf, stores, flags, Status, Nowhere, Started
  <1> QED BY <1>0, <1>1, <1>2, <1>3, <1>4, OneMoves

(* A new job takes an id that nobody has, not even a request not yet saved. *)
LEMMA CreateCheckInv ==
    ASSUME IInv, NEW x \in Thread, CreateCheck(x)
    PROVE  IInv'
  <1>1. PICK j \in Job \ Reserved :
          /\ status[j] = "unborn"
          /\ proc' = [proc EXCEPT ![x] = [Idle EXCEPT !.at = "create", !.job = j, !.kind = "create"]]
    BY DEF CreateCheck
  <1>2. x \in Proc /\ x \notin Job /\ UNCHANGED <<stores, flags>>
    BY Processes DEF CreateCheck
  <1>3. proc' \in [Proc -> Call] /\ \A y \in Proc \ {x} : proc'[y] = proc[y]
    BY <1>1, <1>2 DEF IInv, Idle, Call, Labels, Kinds, Event, Status
  <1>4. HandOK(x)' /\ ThreadOK(x)' /\ JobOK(x)'
    BY <1>1, <1>2 DEF IInv, HandOK, ThreadOK, JobOK, At, JobOf, Idle, Served, Nowhere, Started, stores
  <1>5. StoresOK'
    BY <1>2 DEF IInv, StoresOK, stores, flags
  <1>6. \A y \in Proc \ {x} : ~(At(y, "create") /\ JobOf(y) = j)
    BY <1>1, Processes DEF IInv, CallInv, HandOK, At, JobOf, Served, Reserved
  <1>7. At(x, "create")' /\ JobOf(x)' = j /\ \A y \in Proc \ {x} : At(y, "create")' = At(y, "create") /\ JobOf(y)' = JobOf(y)
    BY <1>1, <1>2, <1>3 DEF IInv, At, JobOf, Idle
  <1>8. /\ \A y \in Proc : JobKept(JobOf(y))
        /\ \A k \in stored' : status'[k] # "unborn"
    BY <1>2 DEF IInv, BirthInv, JobKept, stores
  <1> DEFINE X == {x}
  <1>9. /\ X \in SUBSET Proc
        /\ \A y \in Proc \ X : proc'[y] = proc[y]
        /\ \A y \in X : (HandOK(y) /\ ThreadOK(y) /\ JobOK(y))'
        /\ \A y \in X, z \in Proc : At(y, "create")' /\ At(z, "create")' /\ JobOf(y)' = JobOf(z)' => y = z
    BY <1>2, <1>3, <1>4, <1>6, <1>7
  <1> HIDE DEF X
  <1> QED BY <1>3, <1>5, <1>8, <1>9, Moves

(* RunCoordinator begins a thread for the job only if none is alive.       *)
LEMMA SpawnInv ==
    ASSUME IInv, NEW x \in Thread, Spawn(x)
    PROVE  IInv'
  <1>1. x \in Proc /\ x \notin Job /\ UNCHANGED <<stores, flags>> /\ At(x, "spawn")
    BY Processes DEF Spawn
  <1>2. JobOf(x) \in Job /\ status[JobOf(x)] \notin {"unborn", "queued"}
    BY <1>1 DEF IInv, CallInv, JobOK, At, Nowhere, Started
  <1> PICK j \in Job : j = JobOf(x)
    BY <1>2
  <1> DEFINE X == {x, j}
             Runner == [at |-> "execute", job |-> j, kind |-> "thread", event |-> "none", next |-> "none"]
  <1>3. /\ j \in Proc /\ j # x
        /\ \/ proc' = [proc EXCEPT ![x] = Idle, ![j] = Runner]
           \/ proc' = [proc EXCEPT ![x] = Idle]
    BY <1>1, Processes DEF Spawn, Done, Idle
  <1>4. /\ proc'[x] = Idle /\ proc' \in [Proc -> Call] /\ \A y \in Proc \ X : proc'[y] = proc[y]
        /\ \/ proc'[j] = proc[j]
           \/ proc'[j] = Runner
    BY <1>1, <1>2, <1>3 DEF IInv, Idle, Call, Labels, Kinds
  <1>5. HandOK(x)' /\ ThreadOK(x)' /\ JobOK(x)' /\ ~At(x, "create")'
    BY <1>1, <1>4 DEF HandOK, ThreadOK, JobOK, At, Idle, Served, Nowhere, Started
  <1>6. HandOK(j)' /\ ThreadOK(j)' /\ JobOK(j)' /\ ~At(j, "create")'
    <2>1. HandOK(j) /\ ThreadOK(j) /\ JobOK(j) /\ ~At(j, "create") /\ status' = status
      BY <1>1, <1>2, Processes DEF IInv, CallInv, HandOK, At, Served, stores
    <2>2. CASE proc'[j] = proc[j]
      BY <2>1, <2>2 DEF HandOK, ThreadOK, JobOK, At, JobOf
    <2>3. CASE proc'[j] = Runner
      BY <1>1, <1>2, <2>1, <2>3 DEF HandOK, ThreadOK, JobOK, At, JobOf, Idle, Served, Nowhere, Started
    <2> QED BY <1>4, <2>2, <2>3
  <1>7. StoresOK' /\ \A k \in stored' : status'[k] # "unborn"
    BY <1>1 DEF IInv, StoresOK, BirthInv, stores, flags
  <1>8. /\ X \in SUBSET Proc
        /\ \A y \in X : (HandOK(y) /\ ThreadOK(y) /\ JobOK(y))'
        /\ \A y \in Proc \ X : Relies(y) => JobKept(JobOf(y))
        /\ \A y \in X, z \in Proc : At(y, "create")' /\ At(z, "create")' /\ JobOf(y)' = JobOf(z)' => y = z
    BY <1>1, <1>3, <1>5, <1>6 DEF JobKept, stores
  <1> HIDE DEF X
  <1> QED BY <1>4, <1>7, <1>8, Moves

(* The invariant is inductive: one lemma per step.                         *)
LEMMA StepInv == IInv /\ [Next]_vars => IInv'
  <1> SUFFICES ASSUME IInv, [Next]_vars PROVE IInv'
    OBVIOUS
  <1>1. ASSUME NEW t \in Thread, Arrive(t) PROVE IInv'
    BY <1>1, CreateCheckInv, RawEventInv, ControlActionInv, RunRequestInv, ResetCheckInv DEF Arrive
  <1>2. ASSUME NEW x \in Proc, Advance(x) \/ RunEngine(x) PROVE IInv'
    BY <1>2, CreateSaveInv, RunControlInv, ClearFlagsInv, SpawnInv, ResetJobsInv, ResetResultsInv,
       ResetControlsInv, LookupEventInv, RefuseEventInv, CommitEventInv, SaveRecordInv,
       ExecuteBeginInv, EngineDrainedInv, SaveSummaryInv, ThreadExitsInv, EngineReturnsInv,
       EngineCancelledInv, EngineRaisesInv
       DEF Advance, RunEngine, StartRun, Reset, ApplyEvent, Execute
  <1>3. CASE UNCHANGED vars
    <2>1. UNCHANGED <<status, stored, ctl, result, pause, cancel, proc>>
      BY <1>3 DEF vars, stores, flags
    <2> QED BY <2>1 DEF IInv, StoresOK, CallInv, HandOK, ThreadOK, JobOK, BirthInv, At, JobOf
  <1> QED BY <1>1, <1>2, <1>3 DEF Next

(* Therefore it holds for ever, whoever calls.                             *)
LEMMA InvHolds == Spec => []IInv
  BY InitInv, StepInv, PTL DEF Spec

(* However many requests and run threads interleave, every record and every *)
(* flag stays in its domain, and a run thread works on the job that        *)
(* RunCoordinator registered it for.                                       *)
THEOREM TypeCorrect == Spec => []TypeOK
  BY InvTypes, InvHolds, PTL

(* Nobody's engine works on a job that was never started: the transition   *)
(* "start" is committed before reset_run_control goes on, and no stale     *)
(* lookup, late save or reset makes the job queued again.                  *)
THEOREM StartedFirst == Spec => []EngineOnlyAfterStart
  <1>1. IInv => EngineOnlyAfterStart
    BY DEF IInv, CallInv, JobOK, EngineOnlyAfterStart, EngineOn, Started, JobOf
  <1> QED BY <1>1, InvHolds, PTL

-----------------------------------------------------------------------------
(* A process that goes on changes its label only, and nobody else's.       *)
LEMMA GotoFacts ==
    ASSUME IInv, NEW x \in Proc, NEW l, Goto(x, l)
    PROVE  /\ proc'[x].at = l /\ JobOf(x)' = JobOf(x) /\ proc'[x].kind = proc[x].kind
           /\ proc'[x].event = proc[x].event /\ proc'[x].next = proc[x].next
           /\ \A y \in Proc \ {x} : proc'[y] = proc[y]
  BY DEF IInv, Goto, JobOf, Call

(* A process that is done works on nothing.                                *)
LEMMA DoneFacts ==
    ASSUME IInv, NEW x \in Proc, Done(x)
    PROVE  proc'[x] = Idle /\ \A y \in Proc \ {x} : proc'[y] = proc[y]
  BY DEF IInv, Done

-----------------------------------------------------------------------------
(* The jobs that are active, and those a request is about to make active.  *)

NoReset == "reset" \notin Requests
Resetting == {"reset_jobs", "reset_results", "reset_controls"}

\* The check is passed, or the transition decided; neither is looked at again.
Claiming == {t \in Thread : At(t, "create") \/ (At(t, "commit") /\ proc[t].next \in ActiveStatus)}
Claimed == {j \in Job : Active(j)} \cup {JobOf(t) : t \in Claiming}

CountInv ==
    /\ \A j \in Job : status[j] # "unborn" => j \in stored
    /\ \A x \in Proc : proc[x].at \notin Resetting
    /\ IsFiniteSet(Claimed) /\ Cardinality(Claimed) <= Cardinality(Thread)

(* A step that claims no job that was not claimed before.                  *)
LEMMA NoNewClaim ==
    ASSUME CountInv,
           \A j \in Job : status'[j] # "unborn" => j \in stored',
           \A x \in Proc : proc'[x].at \notin Resetting,
           \A j \in Job : Active(j)' => j \in Claimed,
           \A t \in Thread : t \in Claiming' => JobOf(t)' \in Claimed
    PROVE  CountInv'
  <1>1. Claimed' \in SUBSET Claimed
    BY DEF Claimed, Claiming
  <1>2. IsFiniteSet(Claimed) /\ Cardinality(Claimed) <= Cardinality(Thread)
    BY DEF CountInv
  <1> DEFINE C == Claimed
             D == Claimed'
  <1>3. IsFiniteSet(C) /\ D \in SUBSET C
    BY <1>1, <1>2
  <1>4. Cardinality(C) \in Nat /\ Cardinality(D) \in Nat /\ Cardinality(Thread) \in Nat
    <2> HIDE DEF C, D
    <2>1. IsFiniteSet(D)
      BY <1>3, FS_Subset
    <2> QED BY <1>3, <2>1, FS_CardinalityType, ThreadsAssumption
  <1>5. IsFiniteSet(D) /\ Cardinality(D) <= Cardinality(C)
    <2> HIDE DEF C, D
    <2> QED BY <1>3, FS_Subset
  <1>6. IsFiniteSet(Claimed') /\ Cardinality(Claimed') <= Cardinality(Thread)
    BY <1>2, <1>4, <1>5
  <1> QED BY <1>6 DEF CountInv

(* A request that found no job active: only those that looked with it      *)
(* claim a job.                                                            *)
LEMMA CreateCounts ==
    ASSUME CountInv, NEW t \in Thread, CreateCheck(t)
    PROVE  CountInv'
  <1>1. \A j \in Job : ~Active(j)' /\ (status'[j] # "unborn" => j \in stored')
    BY DEF CountInv, CreateCheck, BlocksCreate, Active, ActiveStatus, stores
  <1>2. \A x \in Proc : proc'[x].at \notin Resetting
    BY Processes DEF CountInv, CreateCheck, Idle, Resetting
  <1> DEFINE S == Claiming'
             T == Claimed'
             f == [s \in S |-> JobOf(s)']
  <1>3. T = {JobOf(s)' : s \in S}
    BY <1>1 DEF Claimed
  <1>4. S \in SUBSET Thread
    BY DEF Claiming
  <1>5. IsFiniteSet(S) /\ Cardinality(S) <= Cardinality(Thread)
    <2> HIDE DEF S
    <2> QED BY <1>4, FS_Subset, ThreadsAssumption
  <1>6. f \in Surjection(S, T)
    <2> HIDE DEF S, T
    <2> QED BY <1>3 DEF Surjection
  <1>7. IsFiniteSet(T) /\ Cardinality(T) <= Cardinality(S)
    <2> HIDE DEF S, T, f
    <2> QED BY <1>5, <1>6, FS_Surjection
  <1>8. Cardinality(T) <= Cardinality(Thread)
    <2> HIDE DEF S, T
    <2>1. Cardinality(T) \in Nat /\ Cardinality(S) \in Nat /\ Cardinality(Thread) \in Nat
      BY <1>5, <1>7, FS_CardinalityType, ThreadsAssumption
    <2> QED BY <1>5, <1>7, <2>1
  <1> QED BY <1>1, <1>2, <1>7, <1>8 DEF CountInv

(* Nothing is active at first.                                             *)
LEMMA InitCount == Init => CountInv
  <1> SUFFICES ASSUME Init PROVE CountInv
    OBVIOUS
  <1>1. Claimed = {}
    BY Processes DEF Init, Claimed, Claiming, Active, ActiveStatus, At, Idle
  <1>2. IsFiniteSet({}) /\ Cardinality({}) = 0 /\ Cardinality(Thread) \in Nat
    BY FS_EmptySet, FS_CardinalityType, ThreadsAssumption
  <1> QED BY <1>1, <1>2 DEF Init, CountInv, Idle, Resetting

(* What a request begins with.                                             *)
LEMMA ArriveFacts ==
    ASSUME IInv, NEW t \in Thread, Arrive(t)
    PROVE  /\ t \in Proc /\ \A y \in Proc \ {t} : proc'[y] = proc[y]
           /\ UNCHANGED stores
           /\ \/ CreateCheck(t) /\ proc'[t].at = "create"
              \/ ResetCheck(t) /\ proc'[t].at = "reset_jobs"
              \/ proc'[t].at = "lookup"
  <1>1. t \in Proc /\ proc \in [Proc -> Call]
    BY Processes DEF IInv
  <1>2. CASE CreateCheck(t)
    BY <1>1, <1>2 DEF CreateCheck, Idle
  <1>3. CASE RawEvent(t)
    BY <1>1, <1>3 DEF RawEvent, Idle
  <1>4. CASE ControlAction(t)
    BY <1>1, <1>4 DEF ControlAction, Idle
  <1>5. CASE RunRequest(t)
    BY <1>1, <1>5 DEF RunRequest, Idle
  <1>6. CASE ResetCheck(t)
    BY <1>1, <1>6 DEF ResetCheck, Idle
  <1> QED BY <1>2, <1>3, <1>4, <1>5, <1>6 DEF Arrive

(* Spawn hands the job to its run thread, or gives it up.                  *)
LEMMA SpawnFacts ==
    ASSUME IInv, NEW t \in Thread, Spawn(t), NEW j, JobOf(t) = j
    PROVE  /\ j \in Job /\ t \in Proc /\ At(t, "spawn") /\ UNCHANGED stores
           /\ proc'[t] = Idle /\ \A y \in Proc \ {t, j} : proc'[y] = proc[y]
           /\ \/ proc'[j] = proc[j]
              \/ At(j, "idle") /\ proc'[j].at = "execute" /\ JobOf(j)' = j
  <1>1. j \in Job /\ t \in Proc /\ j \in Proc /\ j # t
    BY Processes DEF Spawn, IInv, CallInv, JobOK, At, Nowhere
  <1> DEFINE Runner == [Idle EXCEPT !.at = "execute", !.job = j, !.kind = "thread"]
  <1>2. Runner.at = "execute" /\ Runner.job = j
    BY DEF Idle
  <1>3. At(t, "spawn") /\ UNCHANGED stores
    BY DEF Spawn
  <1>4. proc \in [Proc -> Call]
    BY DEF IInv
  <1>5. CASE At(j, "idle")
    <2>1. proc' = [proc EXCEPT ![t] = Idle, ![j] = Runner]
      BY <1>5 DEF Spawn
    <2> HIDE DEF Runner
    <2>2. proc'[t] = Idle /\ proc'[j] = Runner /\ \A y \in Proc \ {t, j} : proc'[y] = proc[y]
      BY <1>1, <1>4, <2>1
    <2>3. proc'[j].at = "execute" /\ JobOf(j)' = j
      BY <1>2, <2>2 DEF JobOf
    <2> QED BY <1>1, <1>3, <1>5, <2>2, <2>3
  <1>6. CASE ~At(j, "idle")
    <2>1. Done(t)
      BY <1>6 DEF Spawn
    <2>2. proc'[t] = Idle /\ \A y \in Proc \ {t} : proc'[y] = proc[y]
      BY <1>1, <2>1, DoneFacts
    <2> QED BY <1>1, <1>3, <2>2
  <1> QED BY <1>5, <1>6

(* Where the other steps lead.                                             *)
LEMMA ProceedFacts ==
    ASSUME IInv, NEW x \in Proc,
           \/ CommitEvent(x) \/ SaveRecord(x) \/ RefuseEvent(x) \/ RunControl(x) \/ ClearFlags(x)
           \/ Execute(x) \/ RunEngine(x) \/ ThreadExits(x) \/ CreateSave(x)
    PROVE  /\ \A y \in Proc \ {x} : proc'[y] = proc[y]
           /\ \/ proc'[x].at \in {"idle", "exit", "save", "lookup"}
              \/ /\ JobOf(x)' = JobOf(x) /\ proc'[x].kind = proc[x].kind /\ proc'[x].event = proc[x].event
                 /\ \/ At(x, "commit") /\ proc'[x].at = "record"
                    \/ /\ At(x, "record") /\ proc'[x].at = "control"
                       /\ proc[x].kind \in {"run", "run_async"} /\ proc[x].event = "start"
                    \/ /\ proc[x].at \in {"control", "clear", "execute", "engine"}
                       /\ proc'[x].at \in {"clear", "spawn", "execute", "engine", "drain"}
  <1>1. CASE CommitEvent(x) \/ RunControl(x) \/ ClearFlags(x) \/ ExecuteBegin(x) \/ EngineDrained(x)
    BY <1>1, GotoFacts DEF CommitEvent, RunControl, ClearFlags, ExecuteBegin, EngineDrained, At
  <1>2. CASE SaveRecord(x) \/ RefuseEvent(x) \/ EngineRaises(x)
    BY <1>2, GotoFacts, DoneFacts DEF SaveRecord, RefuseEvent, EngineRaises, Leave, At, Idle
  <1>3. CASE SaveSummary(x) \/ EngineReturns(x) \/ EngineCancelled(x)
    BY <1>3 DEF SaveSummary, EngineReturns, EngineCancelled, IInv, Call, At, JobOf
  <1>4. CASE ThreadExits(x) \/ CreateSave(x)
    BY <1>4, DoneFacts DEF ThreadExits, CreateSave, Idle
  <1> QED BY <1>1, <1>2, <1>3, <1>4 DEF Execute, RunEngine

(* Jobs become active by steps that claimed them before.                   *)
LEMMA CountStep ==
    ASSUME NoReset, IInv, CountInv, [Next]_vars
    PROVE  CountInv'
  <1>1. ASSUME status' = status, stored \subseteq stored',
               \A x \in Proc : proc'[x] = proc[x] \/ proc'[x].at \notin {"create", "commit"} \cup Resetting
        PROVE  CountInv'
    <2>1. \A j \in Job : Active(j)' => j \in Claimed
      BY <1>1 DEF Active, Claimed
    <2>2. \A t \in Thread : t \in Claiming' => JobOf(t)' \in Claimed
      BY <1>1, Processes DEF Claiming, Claimed, At, JobOf
    <2>3. \A j \in Job : status'[j] # "unborn" => j \in stored'
      BY <1>1 DEF CountInv
    <2>4. \A x \in Proc : proc'[x].at \notin Resetting
      BY <1>1 DEF CountInv
    <2> QED BY <2>1, <2>2, <2>3, <2>4, NoNewClaim
  <1>2. ASSUME NEW t \in Thread, Arrive(t) PROVE CountInv'
    <2>1. CASE CreateCheck(t)
      BY <2>1, CreateCounts
    <2>2. CASE ResetCheck(t)
      BY <2>2 DEF ResetCheck, NoReset
    <2>3. CASE proc'[t].at = "lookup"
      BY <1>1, <1>2, <2>3, ArriveFacts DEF stores, Resetting
    <2> QED BY <1>2, <2>1, <2>2, <2>3, ArriveFacts
  <1>3. ASSUME NEW t \in Thread, Spawn(t) PROVE CountInv'
    <2>1. /\ status' = status /\ stored' = stored
          /\ \A x \in Proc : proc'[x] = proc[x] \/ proc'[x].at \in {"idle", "execute"}
      BY <1>3, SpawnFacts DEF stores, Idle
    <2> QED BY <1>1, <2>1 DEF Resetting
  <1>4. ASSUME NEW t \in Thread, Reset(t) PROVE CountInv'
    BY <1>4, Processes DEF Reset, ResetJobs, ResetResults, ResetControls, CountInv, Resetting, At
  <1>5. ASSUME NEW x \in Proc,
               SaveRecord(x) \/ RefuseEvent(x) \/ RunControl(x) \/ ClearFlags(x)
                 \/ Execute(x) \/ RunEngine(x) \/ ThreadExits(x)
        PROVE  CountInv'
    <2>1. status' = status /\ stored \subseteq stored'
      BY <1>5 DEF SaveRecord, RefuseEvent, RunControl, ClearFlags, Execute, ExecuteBegin, EngineDrained,
         SaveSummary, RunEngine, EngineReturns, EngineCancelled, EngineRaises, ThreadExits, stores
    <2>2. /\ \A y \in Proc \ {x} : proc'[y] = proc[y]
          /\ proc'[x].at \notin {"create", "commit"} \cup Resetting
      <3>1. ~At(x, "commit")
        BY <1>5 DEF SaveRecord, RefuseEvent, RunControl, ClearFlags, Execute, ExecuteBegin, EngineDrained,
           SaveSummary, RunEngine, EngineReturns, EngineCancelled, EngineRaises, ThreadExits, At
      <3> QED BY <1>5, <3>1, ProceedFacts DEF Resetting
    <2> QED BY <1>1, <2>1, <2>2
  <1>6. ASSUME NEW t \in Thread, CreateSave(t) PROVE CountInv'
    <2>1. /\ t \in Proc /\ JobOf(t) \in Job /\ t \in Claiming
          /\ stored' = stored \cup {JobOf(t)} /\ \A j \in Job \ {JobOf(t)} : status'[j] = status[j]
      BY <1>6, Processes DEF CreateSave, IInv, StoresOK, CallInv, JobOK, At, Nowhere, Claiming
    <2>2. proc'[t].at = "idle" /\ \A y \in Proc \ {t} : proc'[y] = proc[y]
      BY <1>6, <2>1, DoneFacts DEF CreateSave, Idle
    <2>3. \A j \in Job : Active(j)' => j \in Claimed
      BY <2>1 DEF Active, Claimed
    <2>4. \A s \in Thread : s \in Claiming' => JobOf(s)' \in Claimed
      BY <2>2, Processes DEF Claiming, Claimed, At, JobOf
    <2>5. \A j \in Job : status'[j] # "unborn" => j \in stored'
      BY <2>1 DEF CountInv
    <2>6. \A x \in Proc : proc'[x].at \notin Resetting
      BY <2>2 DEF CountInv, Resetting
    <2> QED BY <2>3, <2>4, <2>5, <2>6, NoNewClaim
  <1>7. ASSUME NEW x \in Proc, LookupEvent(x) PROVE CountInv'
    <2>1. /\ \A y \in Proc \ {x} : proc'[y] = proc[y]
          /\ JobOf(x)' = JobOf(x) /\ proc'[x].at = "commit"
          /\ status' = status /\ stored' = stored
          /\ JobOf(x) \in stored /\ CanTransition(status[JobOf(x)], proc[x].event)
      BY <1>7 DEF LookupEvent, IInv, Call, JobOf, stores
    <2>2. JobOf(x) \in Claimed
      BY <2>1, MachineFacts DEF IInv, StoresOK, Active, Claimed
    <2>3. \A j \in Job : Active(j)' => j \in Claimed
      BY <2>1 DEF Active, Claimed
    <2>4. \A t \in Thread : t \in Claiming' => JobOf(t)' \in Claimed
      BY <2>1, <2>2, Processes DEF Claiming, Claimed, At, JobOf
    <2>5. /\ \A j \in Job : status'[j] # "unborn" => j \in stored'
          /\ \A y \in Proc : proc'[y].at \notin Resetting
      BY <2>1 DEF CountInv, Resetting
    <2> QED BY <2>3, <2>4, <2>5, NoNewClaim
  <1>8. ASSUME NEW x \in Proc, CommitEvent(x) PROVE CountInv'
    <2> DEFINE k == JobOf(x)
    <2>1. /\ k \in Job /\ status[k] # "unborn" /\ At(x, "commit") /\ HandOK(x) /\ ThreadOK(x)
          /\ stored' = stored /\ status'[k] = proc[x].next
          /\ \A j \in Job \ {k} : status'[j] = status[j]
      BY <1>8 DEF CommitEvent, IInv, StoresOK, CallInv, JobOK, At, Nowhere
    <2>2. proc'[x].at = "record" /\ \A y \in Proc \ {x} : proc'[y] = proc[y]
      BY <1>8, GotoFacts DEF CommitEvent
    <2>3. \A j \in Job : Active(j)' => j \in Claimed
      <3>1. proc[x].next \in ActiveStatus => x \in Claiming
        BY <2>1, Processes DEF ThreadOK, Claiming, Terminal, ActiveStatus
      <3> HIDE DEF k
      <3>2. proc[x].next \in ActiveStatus => k \in Claimed
        BY <3>1 DEF Claimed, k
      <3> QED BY <2>1, <3>2 DEF Active, Claimed
    <2>4. \A t \in Thread : t \in Claiming' => JobOf(t)' \in Claimed
      BY <2>2, Processes DEF Claiming, Claimed, At, JobOf
    <2>5. /\ \A j \in Job : status'[j] # "unborn" => j \in stored'
          /\ \A y \in Proc : proc'[y].at \notin Resetting
      BY <2>1, <2>2 DEF CountInv, Resetting
    <2> QED BY <2>3, <2>4, <2>5, NoNewClaim
  <1>9. CASE UNCHANGED vars
    BY <1>1, <1>9 DEF vars, stores
  <1> QED BY <1>2, <1>3, <1>4, <1>5, <1>6, <1>7, <1>8, <1>9
          DEF Next, Advance, StartRun, ApplyEvent

(* The 409 of POST /jobs is a check without a lock, but it is worth this   *)
(* much: while nothing is reset, no more jobs are active than requests are *)
(* served at once, and with one client at a time only one.                 *)
THEOREM AtMostOneJobPerRequest ==
    ASSUME NoReset
    PROVE  Spec => []ActiveJobsBounded
  <1>1. Init => IInv /\ CountInv
    BY InitInv, InitCount
  <1>2. IInv /\ CountInv /\ [Next]_vars => (IInv /\ CountInv)'
    BY StepInv, CountStep
  <1>3. IInv /\ CountInv => ActiveJobsBounded
    <2> SUFFICES ASSUME IInv, CountInv PROVE ActiveJobsBounded
      OBVIOUS
    <2> DEFINE C == Claimed
               A == {j \in stored : Active(j)}
    <2>1. IsFiniteSet(C) /\ Cardinality(C) <= Cardinality(Thread) /\ A \in SUBSET C
      BY DEF CountInv, Claimed, IInv, StoresOK
    <2>2. Cardinality(A) <= Cardinality(Thread)
      <3> HIDE DEF C, A
      <3>1. IsFiniteSet(A) /\ Cardinality(A) <= Cardinality(C)
        BY <2>1, FS_Subset
      <3>2. Cardinality(A) \in Nat /\ Cardinality(C) \in Nat /\ Cardinality(Thread) \in Nat
        BY <2>1, <3>1, FS_CardinalityType, ThreadsAssumption
      <3> QED BY <2>1, <3>1, <3>2
    <2> QED BY <2>2 DEF ActiveJobsBounded
  <1> QED BY <1>1, <1>2, <1>3, PTL DEF Spec

-----------------------------------------------------------------------------
(* The runs of a job, from the decision that it may start to the end of    *)
(* its engine.                                                             *)

Runs(x) ==
    \/ /\ proc[x].at \in {"commit", "record"}
       /\ proc[x].kind \in {"run", "run_async"} /\ proc[x].event = "start"
    \/ proc[x].at \in {"control", "clear", "spawn", "execute", "engine", "drain"}

RunsOn(j) == {x \in Proc : JobOf(x) = j /\ Runs(x)}

BoundInv ==
    \A j \in Job : IsFiniteSet(RunsOn(j)) /\ Cardinality(RunsOn(j)) <= Cardinality(Thread)

(* A part of a small set is small.                                         *)
LEMMA SmallPart ==
    ASSUME NEW S, IsFiniteSet(S), Cardinality(S) <= Cardinality(Thread), NEW T, T \subseteq S
    PROVE  IsFiniteSet(T) /\ Cardinality(T) <= Cardinality(Thread)
  <1>1. IsFiniteSet(T) /\ Cardinality(T) <= Cardinality(S)
    BY FS_Subset
  <1>2. Cardinality(T) \in Nat /\ Cardinality(S) \in Nat /\ Cardinality(Thread) \in Nat
    BY <1>1, FS_CardinalityType, ThreadsAssumption
  <1> QED BY <1>1, <1>2

(* "start" is granted while every run that was granted before it is still  *)
(* in the hands of its request.                                            *)
LEMMA StartCounts ==
    ASSUME IInv, BoundInv, NEW x \in Proc, LookupEvent(x), NEW j \in Job
    PROVE  IsFiniteSet(RunsOn(j)') /\ Cardinality(RunsOn(j)') <= Cardinality(Thread)
  <1>1. /\ \A y \in Proc \ {x} : proc'[y] = proc[y]
        /\ JobOf(x)' = JobOf(x) /\ proc'[x].at = "commit" /\ proc'[x].kind = proc[x].kind
        /\ proc'[x].event = proc[x].event
        /\ CanTransition(status[JobOf(x)], proc[x].event)
    BY DEF LookupEvent, IInv, Call, JobOf
  <1> DEFINE R == RunsOn(j)
             Q == RunsOn(j)'
  <1>2. IsFiniteSet(R) /\ Cardinality(R) <= Cardinality(Thread)
    BY DEF BoundInv
  <1>3. CASE Q \subseteq R
    <2> HIDE DEF Q, R
    <2>1. IsFiniteSet(Q) /\ Cardinality(Q) <= Cardinality(Thread)
      BY <1>2, <1>3, SmallPart
    <2> QED BY <2>1 DEF Q
  <1>4. CASE ~(Q \subseteq R)
    <2>1. JobOf(x) = j /\ proc[x].kind \in {"run", "run_async"} /\ proc[x].event = "start"
      BY <1>1, <1>4 DEF RunsOn, Runs, JobOf
    <2>2. status[j] = "queued"
      BY <1>1, <2>1, MachineFacts
    <2>3. x \in Thread
      BY <2>1, Processes DEF IInv, CallInv, ThreadOK, Proc
    <2>4. \A y \in Q : y \in Thread
      <3> SUFFICES ASSUME NEW y \in Proc \ {x}, JobOf(y)' = j, Runs(y)' PROVE y \in Thread
        BY <2>3 DEF RunsOn
      <3>1. JobOf(y) = j /\ Runs(y)
        BY <1>1 DEF JobOf, Runs
      <3>2. JobOK(y) /\ (y \in Job => At(y, "idle"))
        BY <2>2, <3>1 DEF IInv, CallInv, JobOK
      <3> QED BY <3>1, <3>2, Processes DEF Runs, At
    <2>5. Q \subseteq Thread
      BY <2>4
    <2>6. Cardinality(Thread) \in Nat
      BY FS_CardinalityType, ThreadsAssumption
    <2>7. IsFiniteSet(Q) /\ Cardinality(Q) <= Cardinality(Thread)
      <3> HIDE DEF Q, R
      <3> QED BY <2>5, <2>6, SmallPart, ThreadsAssumption
    <2> QED BY <2>7 DEF Q
  <1> QED BY <1>3, <1>4

(* A run handed to the run thread of its job is still one run.             *)
LEMMA SpawnCounts ==
    ASSUME IInv, BoundInv, NEW t \in Thread, Spawn(t), NEW j \in Job
    PROVE  IsFiniteSet(RunsOn(j)') /\ Cardinality(RunsOn(j)') <= Cardinality(Thread)
  <1>0. PICK k : JobOf(t) = k
    OBVIOUS
  <1> DEFINE R == RunsOn(j)
             Q == RunsOn(j)'
  <1>1. /\ k \in Job /\ t \in Proc /\ At(t, "spawn")
        /\ proc'[t] = Idle /\ \A y \in Proc \ {t, k} : proc'[y] = proc[y]
        /\ proc'[k] = proc[k] \/ (proc'[k].at = "execute" /\ JobOf(k)' = k)
    BY <1>0, SpawnFacts
  <1>2. IsFiniteSet(R) /\ Cardinality(R) <= Cardinality(Thread)
    BY DEF BoundInv
  <1>3. t \notin Q
    BY <1>1 DEF RunsOn, Runs, Idle
  <1>4. CASE j # k
    <2>1. Q \subseteq R
      <3>1. \A y \in Q : y # t /\ y # k
        <4>1. k \notin Q
          <5>1. ThreadOK(k) /\ k \in Job
            BY <1>1, Processes DEF IInv, CallInv
          <5>2. JobOf(k) = k \/ At(k, "idle")
            BY <5>1 DEF ThreadOK
          <5>3. JobOf(k)' = k \/ ~Runs(k)'
            BY <1>1, <5>2 DEF JobOf, Runs, At
          <5> QED BY <1>4, <5>3 DEF RunsOn
        <4> QED BY <1>3, <4>1
      <3> QED BY <1>1, <3>1 DEF RunsOn, Runs, JobOf
    <2> HIDE DEF Q, R
    <2>2. IsFiniteSet(Q) /\ Cardinality(Q) <= Cardinality(Thread)
      BY <1>2, <2>1, SmallPart
    <2> QED BY <2>2 DEF Q
  <1>5. CASE j = k
    <2>1. t \in R
      BY <1>0, <1>1, <1>5 DEF RunsOn, Runs, At
    <2> DEFINE P == R \ {t}
    <2>2. Q \subseteq P \cup {k}
      <3>1. \A y \in Q : y # k => y \in P
        BY <1>1, <1>3 DEF RunsOn, Runs, JobOf
      <3> QED BY <3>1
    <2> HIDE DEF Q, R
    <2>3. IsFiniteSet(P) /\ Cardinality(P) = Cardinality(R) - 1 /\ Cardinality(R) \in Nat
      BY <1>2, <2>1, FS_RemoveElement, FS_CardinalityType
    <2> HIDE DEF P
    <2>4. IsFiniteSet(P \cup {k}) /\ Cardinality(P \cup {k}) <= Cardinality(P) + 1
      <3>1. IsFiniteSet(P) /\ Cardinality(P) \in Nat
        BY <2>3, FS_CardinalityType
      <3>2. /\ IsFiniteSet(P \cup {k})
            /\ Cardinality(P \cup {k}) = IF k \in P THEN Cardinality(P) ELSE Cardinality(P) + 1
        BY <3>1, FS_AddElement
      <3> QED BY <3>1, <3>2
    <2>5. Cardinality(P \cup {k}) <= Cardinality(Thread)
      <3>1. Cardinality(P \cup {k}) \in Nat /\ Cardinality(Thread) \in Nat
        BY <2>4, FS_CardinalityType, ThreadsAssumption
      <3> QED BY <1>2, <2>3, <2>4, <3>1
    <2>6. IsFiniteSet(Q) /\ Cardinality(Q) <= Cardinality(Thread)
      BY <2>2, <2>4, <2>5, SmallPart
    <2> QED BY <2>6 DEF Q
  <1> QED BY <1>4, <1>5

(* No other step adds a run to a job.                                      *)
LEMMA BoundStep ==
    ASSUME IInv, BoundInv, [Next]_vars
    PROVE  BoundInv'
  <1>1. ASSUME \A y \in Proc : proc'[y] = proc[y] \/ ~Runs(y)' \/ (Runs(y) /\ JobOf(y)' = JobOf(y))
        PROVE  BoundInv'
    <2> SUFFICES ASSUME NEW j \in Job
                 PROVE  IsFiniteSet(RunsOn(j)') /\ Cardinality(RunsOn(j)') <= Cardinality(Thread)
      BY DEF BoundInv
    <2> DEFINE R == RunsOn(j)
               Q == RunsOn(j)'
    <2>1. IsFiniteSet(R) /\ Cardinality(R) <= Cardinality(Thread)
      BY DEF BoundInv
    <2>2. Q \subseteq R
      BY <1>1 DEF RunsOn, Runs, JobOf
    <2>3. IsFiniteSet(Q) /\ Cardinality(Q) <= Cardinality(Thread)
      <3> HIDE DEF Q, R
      <3> QED BY <2>1, <2>2, SmallPart
    <2> QED BY <2>3 DEF Q
  <1>2. ASSUME NEW t \in Thread, Arrive(t) PROVE BoundInv'
    <2>1. ~Runs(t)'
      BY <1>2, ArriveFacts DEF Runs
    <2> QED BY <1>1, <1>2, <2>1, ArriveFacts
  <1>3. ASSUME NEW t \in Thread, Spawn(t) PROVE BoundInv'
    BY <1>3, SpawnCounts DEF BoundInv
  <1>4. ASSUME NEW t \in Thread, Reset(t) PROVE BoundInv'
    <2>1. /\ \A y \in Proc \ {t} : proc'[y] = proc[y]
          /\ proc'[t].at \in {"idle", "reset_results", "reset_controls"}
      BY <1>4, Processes, GotoFacts, DoneFacts DEF Reset, ResetJobs, ResetResults, ResetControls, Idle
    <2> QED BY <1>1, <2>1 DEF Runs
  <1>5. ASSUME NEW x \in Proc, LookupEvent(x) PROVE BoundInv'
    BY <1>5, StartCounts DEF BoundInv
  <1>6. ASSUME NEW x \in Proc,
               \/ CommitEvent(x) \/ SaveRecord(x) \/ RefuseEvent(x) \/ RunControl(x) \/ ClearFlags(x)
               \/ Execute(x) \/ RunEngine(x) \/ ThreadExits(x) \/ CreateSave(x)
        PROVE  BoundInv'
    <2>1. ~Runs(x)' \/ (Runs(x) /\ JobOf(x)' = JobOf(x))
      BY <1>6, ProceedFacts DEF Runs, At
    <2> QED BY <1>1, <1>6, <2>1, ProceedFacts
  <1>7. CASE UNCHANGED vars
    BY <1>1, <1>7 DEF vars
  <1> QED BY <1>2, <1>3, <1>4, <1>5, <1>6, <1>7, Processes
          DEF Next, Advance, StartRun, ApplyEvent

(* Nobody runs anything at first.                                          *)
LEMMA InitBound == Init => BoundInv
  <1> SUFFICES ASSUME Init, NEW j \in Job
               PROVE  IsFiniteSet(RunsOn(j)) /\ Cardinality(RunsOn(j)) <= Cardinality(Thread)
    BY DEF BoundInv
  <1>1. RunsOn(j) = {}
    BY DEF Init, RunsOn, Runs, Idle
  <1>2. IsFiniteSet({}) /\ Cardinality({}) = 0 /\ Cardinality(Thread) \in Nat
    BY FS_EmptySet, FS_CardinalityType, ThreadsAssumption
  <1> QED BY <1>1, <1>2

(* Whatever is requested, reset and saved late, a job never has more       *)
(* engines at work on it than requests are served at once: two need two    *)
(* run requests that both found it queued.                                 *)
THEOREM AtMostOneEnginePerRequest == Spec => []EnginesBounded
  <1>1. Init => IInv /\ BoundInv
    BY InitInv, InitBound
  <1>2. IInv /\ BoundInv /\ [Next]_vars => (IInv /\ BoundInv)'
    BY StepInv, BoundStep
  <1>3. IInv /\ BoundInv => EnginesBounded
    <2> SUFFICES ASSUME BoundInv, NEW j \in Job PROVE Cardinality(EngineOn(j)) <= Cardinality(Thread)
      BY DEF EnginesBounded
    <2> DEFINE R == RunsOn(j)
               G == EngineOn(j)
    <2>1. IsFiniteSet(R) /\ Cardinality(R) <= Cardinality(Thread) /\ G \subseteq R
      BY DEF BoundInv, RunsOn, Runs, EngineOn
    <2>2. Cardinality(G) <= Cardinality(Thread)
      <3> HIDE DEF R, G
      <3> QED BY <2>1, SmallPart
    <2> QED BY <2>2
  <1> QED BY <1>1, <1>2, <1>3, PTL DEF Spec

-----------------------------------------------------------------------------
(* What one client that waits for each answer can rely on besides; the     *)
(* composition with the engine needs it.                                   *)
OneClient == \A s, t \in Thread : s = t

\* While a request runs a job, no run thread of that job is alive.
RunnerInv ==
    \A t \in Thread :
        /\ proc[t].at \in {"control", "clear", "spawn", "execute", "engine", "drain", "save"} =>
              proc[t].kind \in {"run", "run_async"}
        /\ proc[t].kind \in {"run", "run_async"} /\ ~(At(t, "lookup") /\ proc[t].event = "start") =>
              JobOf(t) \in Job /\ At(JobOf(t), "idle")

(* Nobody runs anything at first.                                          *)
LEMMA InitRunner == Init => RunnerInv
  BY Processes DEF Init, RunnerInv, Idle, At

(* A run thread is begun by the request that runs the job, or by nobody.   *)
LEMMA RunnerStep ==
    ASSUME OneClient, IInv, RunnerInv, [Next]_vars
    PROVE  RunnerInv'
  <1>1. ASSUME NEW x \in Job, Advance(x) \/ RunEngine(x)
        PROVE  RunnerInv'
    <2>1. ~At(x, "idle") /\ x \in Proc /\ \A y \in Proc \ {x} : proc'[y] = proc[y]
      BY <1>1, Processes, GotoFacts, DoneFacts
         DEF Advance, RunEngine, ApplyEvent, LookupEvent, RefuseEvent, CommitEvent, SaveRecord,
             Execute, ExecuteBegin, EngineDrained, SaveSummary, EngineReturns, EngineCancelled,
             EngineRaises, ThreadExits, Leave, At, IInv
    <2> QED BY <2>1, Processes DEF RunnerInv, At, JobOf
  <1>2. ASSUME NEW t \in Thread, \A y \in Proc \ {t} : proc'[y] = proc[y],
               proc'[t].at \in {"control", "clear", "spawn", "execute", "engine", "drain", "save"} =>
                  proc'[t].kind \in {"run", "run_async"},
               proc'[t].kind \in {"run", "run_async"} /\ ~(At(t, "lookup")' /\ proc'[t].event = "start") =>
                  JobOf(t)' \in Job /\ At(JobOf(t)', "idle")
        PROVE  RunnerInv'
    BY <1>2, Processes DEF OneClient, RunnerInv, At, JobOf
  <1>3. ASSUME NEW t \in Thread, Arrive(t) PROVE RunnerInv'
    <2>1. /\ t \in Proc /\ \A y \in Proc \ {t} : proc'[y] = proc[y]
          /\ \/ proc'[t].kind \in {"create", "event", "control", "reset"} /\ proc'[t].at \in {"create", "lookup", "reset_jobs"}
             \/ proc'[t].at = "lookup" /\ proc'[t].event = "start"
      <3>1. t \in Proc /\ proc \in [Proc -> Call]
        BY Processes DEF IInv
      <3>2. CASE CreateCheck(t)
        BY <3>1, <3>2 DEF CreateCheck, Idle
      <3>3. CASE RawEvent(t)
        BY <3>1, <3>3 DEF RawEvent, Idle
      <3>4. CASE ControlAction(t)
        BY <3>1, <3>4 DEF ControlAction, Idle
      <3>5. CASE RunRequest(t)
        BY <3>1, <3>5 DEF RunRequest, Idle
      <3>6. CASE ResetCheck(t)
        BY <3>1, <3>6 DEF ResetCheck, Idle
      <3> QED BY <1>3, <3>2, <3>3, <3>4, <3>5, <3>6 DEF Arrive
    <2> QED BY <1>2, <2>1 DEF At
  <1>4. ASSUME NEW t \in Thread, CreateSave(t) \/ Reset(t) \/ RefuseEvent(t) \/ EngineRaises(t)
        PROVE  RunnerInv'
    <2>1. /\ \A y \in Proc \ {t} : proc'[y] = proc[y]
          /\ proc'[t] = Idle \/ (proc'[t].at \in {"reset_results", "reset_controls"} /\ proc'[t].kind = proc[t].kind
                                   /\ JobOf(t)' = JobOf(t) /\ proc[t].at # "lookup")
      BY <1>4, Processes, GotoFacts, DoneFacts DEF CreateSave, Reset, ResetJobs, ResetResults,
         ResetControls, RefuseEvent, EngineRaises, Leave, At
    <2> QED BY <1>2, <2>1 DEF RunnerInv, Idle, At
  <1>5. ASSUME NEW t \in Thread, LookupEvent(t)
        PROVE  RunnerInv'
    <2>1. /\ \A y \in Proc \ {t} : proc'[y] = proc[y] /\ t \in Proc
          /\ proc'[t].at = "commit" /\ proc'[t].kind = proc[t].kind /\ JobOf(t)' = JobOf(t)
          /\ At(t, "lookup") /\ JobOf(t) \in stored /\ CanTransition(status[JobOf(t)], proc[t].event)
      BY <1>5, Processes DEF LookupEvent, IInv, Call, JobOf
    <2>2. JobOf(t) \in Job /\ JobOf(t) \in Proc
      BY <2>1, Processes DEF IInv, StoresOK
    <2>3. proc[t].event = "start" => At(JobOf(t), "idle")
      <3>1. proc[t].event = "start" => status[JobOf(t)] = "queued"
        BY <2>1, MachineFacts
      <3>2. JobOK(JobOf(t))
        BY <2>2 DEF IInv, CallInv
      <3>3. ~At(JobOf(t), "idle") => JobOf(JobOf(t)) = JobOf(t)
        BY <2>2 DEF IInv, CallInv, ThreadOK
      <3> QED BY <2>2, <3>1, <3>2, <3>3 DEF JobOK
    <2>4. JobOf(t)' \in Job /\ (proc[t].kind \in {"run", "run_async"} => At(JobOf(t)', "idle"))
      BY <2>1, <2>2, <2>3 DEF RunnerInv
    <2> QED BY <1>2, <2>1, <2>4
  <1>6. ASSUME NEW t \in Thread, CommitEvent(t) \/ SaveRecord(t) \/ RunControl(t) \/ ClearFlags(t) \/ Execute(t)
                                 \/ EngineReturns(t) \/ EngineCancelled(t)
        PROVE  RunnerInv'
    <2>1. /\ \A y \in Proc \ {t} : proc'[y] = proc[y] /\ t \in Proc
          /\ \/ proc'[t] = Idle
             \/ /\ proc'[t].kind = proc[t].kind /\ JobOf(t)' = JobOf(t)
                /\ proc[t].at \in {"control", "clear", "execute", "engine", "drain", "save"}
             \/ /\ proc'[t].kind = proc[t].kind /\ JobOf(t)' = JobOf(t)
                /\ At(t, "commit") /\ proc'[t].at = "record"
             \/ /\ proc'[t].kind = proc[t].kind /\ JobOf(t)' = JobOf(t)
                /\ At(t, "record") /\ proc'[t].at = "control" /\ proc[t].kind \in {"run", "run_async"}
      BY <1>6, Processes, GotoFacts, DoneFacts DEF CommitEvent, SaveRecord, RunControl, ClearFlags, Execute,
         ExecuteBegin, EngineDrained, SaveSummary, EngineReturns, EngineCancelled, Leave, At, IInv, Call, JobOf
    <2> QED BY <1>2, <2>1 DEF RunnerInv, Idle, At
  <1>7. ASSUME NEW t \in Thread, Spawn(t) PROVE RunnerInv'
    <2>1. proc'[t] = Idle
      <3>1. JobOf(t) \in Job
        BY <1>7, Processes DEF Spawn, IInv, CallInv, JobOK, At, Nowhere
      <3> QED BY <1>7, <3>1, Processes DEF Spawn, Done, IInv
    <2> QED BY <2>1 DEF OneClient, RunnerInv, Idle, At
  <1>8. CASE UNCHANGED vars
    BY <1>8 DEF vars, RunnerInv, At, JobOf
  <1> QED BY <1>1, <1>3, <1>4, <1>5, <1>6, <1>7, <1>8, Processes
          DEF Next, Advance, StartRun, ApplyEvent, RunEngine
=============================================================================
