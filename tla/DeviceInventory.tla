--------------------------- MODULE DeviceInventory ---------------------------
(***************************************************************************)
(* The imported devices and the two things done with them: an import reads *)
(* a CSV, checks the connection of every device in a pool of threads and   *)
(* replaces the inventory if no row failed (DeviceImportService.import_csv *)
(* behind two endpoints, one that streams its progress and one that only   *)
(* answers at the end); a run request is resolved                          *)
(* against the inventory and its commands are rendered device by device    *)
(* (prepare_run).  Requests are served by threads of their own, and        *)
(* prepare_run reads the inventory once per device.                        *)
(*                                                                         *)
(* A CSV is a sequence of rows, each a device, a row that cannot be parsed *)
(* or a syntax error that ends the reading; blank lines are not rows.  A   *)
(* device has a key, the variables it defines and perhaps verification     *)
(* commands.                                                               *)
(***************************************************************************)
EXTENDS Integers, Sequences, FiniteSets, SequencesExt

CONSTANTS
    Imports,    \* import requests
    Csv,        \* what each of them uploads
    Runs,       \* run requests
    Request,    \* what each of them asks for
    Workers     \* IMPORT_VALIDATION_WORKERS

ASSUME WorkersAssumption == Workers \in Nat \ {0}
ASSUME CsvAssumption == \A i \in Imports : Csv[i].rows \in Seq(Range(Csv[i].rows))
ASSUME RequestAssumption == \A r \in Runs : Request[r].keys \in Seq(Range(Request[r].keys))

VARIABLES
    inventory,  \* InMemoryDeviceStore: a sequence of profiles, each <<import, row>>
    stage,      \* where each import is
    check,      \* state of each device of an import in the validation pool
    collected,  \* devices whose result as_completed has yielded
    stream,     \* events put into the response of each import, the answer last
    run,        \* where each preparation is
    todo,       \* devices it has still to render
    plan        \* per device: the profile rendered with, and whether it is verified

importing == <<stage, check, collected, stream>>
preparing == <<run, todo, plan>>
vars == <<inventory, importing, preparing>>

-----------------------------------------------------------------------------
(* Reading the CSV.                                                        *)

Rows(i) == Csv[i].rows
RowsRead(i) == {n \in DOMAIN Rows(i) : \A k \in 1 .. (n - 1) : Rows(i)[k].kind # "syntax"}

\* Rows that are failures, as far as the CSV is read.
BadRows == [i \in Imports |-> {n \in RowsRead(i) : Rows(i)[n].kind # "device"}]

\* parsed_entries, by their row numbers.
Entries == [i \in Imports |-> IF Csv[i].header THEN RowsRead(i) \ BadRows[i] ELSE {}]

\* Row n is the first, second, ... of a set of rows.
Rank(rows, n) == Cardinality({m \in rows : m <= n})

\* The profiles keep the order of the rows.
Profiles == [i \in Imports |->
    [k \in 1 .. Cardinality(Entries[i]) |-> <<i, CHOOSE n \in Entries[i] : Rank(Entries[i], n) = k>>]]

Device(p) == Rows(p[1])[p[2]]
NoProfile == <<>>

\* get_by_key: the first profile with the key.
ProfileOf(key) ==
    LET at == {n \in DOMAIN inventory : Device(inventory[n]).key = key}
    IN  IF at = {} THEN NoProfile ELSE inventory[CHOOSE n \in at : \A k \in at : n <= k]

Init ==
    /\ inventory = <<>>
    /\ stage = [i \in Imports |-> "idle"]
    /\ check = [i \in Imports |-> [n \in Entries[i] |-> "queued"]]
    /\ collected = [i \in Imports |-> {}]
    /\ stream = [i \in Imports |-> <<>>]
    /\ run = [r \in Runs |-> "idle"]
    /\ todo = [r \in Runs |-> <<>>]
    /\ plan = [r \in Runs |-> <<>>]

-----------------------------------------------------------------------------
(* import_csv, on the thread of import_devices_with_progress or of the      *)
(* request to import_devices.                                              *)

Put(i, event) == stream' = [stream EXCEPT ![i] = Append(@, event)]

\* progress_callback, which the endpoint that does not stream leaves out.
Progress(i, event) == IF Csv[i].streams THEN Put(i, event) ELSE UNCHANGED stream
Go(i, s) == stage' = [stage EXCEPT ![i] = s]
Event(type, processed) == [type |-> type, processed |-> processed]

\* A bad header ends the import before the pool is started.
Parse(i) ==
    /\ stage[i] = "idle"
    /\ IF Csv[i].header
       THEN Go(i, "validate") /\ Progress(i, Event("start", 0))
       ELSE Go(i, "closed") /\ Put(i, Event("error", 0))
    /\ UNCHANGED <<inventory, check, collected, preparing>>

With(i, s) == {n \in Entries[i] : check[i][n] = s}

\* Mutant: the pool takes one device too many.
FreeThreadOneMore(i) == Cardinality(With(i, "running")) <= Workers

\* Mutant: a thread is never given back to the pool.
FreeThreadOnce(i) == Cardinality(Entries[i] \ With(i, "queued")) < Workers

FreeThread(i) == Cardinality(With(i, "running")) < Workers

\* A thread of the pool takes the next device.
BeginCheck(i) ==
    /\ stage[i] \in {"validate", "drain"} /\ FreeThread(i)
    /\ \E n \in With(i, "queued") :
        /\ \A k \in With(i, "queued") : n <= k
        /\ check' = [check EXCEPT ![i][n] = "running"]
    /\ UNCHANGED <<inventory, stage, collected, stream, preparing>>

\* validator.validate returns its verdict or raises.
EndCheck(i) ==
    /\ \E n \in With(i, "running"), v \in {"ok", "refused", "raised"} :
        check' = [check EXCEPT ![i][n] = v]
    /\ UNCHANGED <<inventory, stage, collected, stream, preparing>>

\* One turn of the loop over as_completed; an exception leaves it.
Collect(i) ==
    /\ stage[i] = "validate"
    /\ \E n \in (With(i, "ok") \cup With(i, "refused") \cup With(i, "raised")) \ collected[i] :
        IF check[i][n] = "raised"
        THEN Go(i, "drain") /\ UNCHANGED <<collected, stream>>
        ELSE /\ collected' = [collected EXCEPT ![i] = @ \cup {n}]
             /\ Progress(i, Event("progress", Cardinality(collected'[i])))
             /\ UNCHANGED stage
    /\ UNCHANGED <<inventory, check, preparing>>

\* Mutant: only rows that cannot be parsed count.
HasFailuresInRows(i) == BadRows[i] # {}

\* failures: rows that cannot be parsed and devices that do not answer.
HasFailures(i) == BadRows[i] # {} \/ With(i, "refused") # {}

\* Mutant: every stream is closed as complete.
EndOfStreamComplete(i) == Event("complete", Cardinality(Entries[i]))

EndOfStream(i) ==
    IF HasFailures(i) THEN Event("error", 0) ELSE Event("complete", Cardinality(Entries[i]))

\* All results are there: replace the inventory, or leave it alone.
Replace(i) ==
    /\ stage[i] = "validate" /\ collected[i] = Entries[i]
    /\ inventory' = IF HasFailures(i) THEN inventory ELSE Profiles[i]
    /\ Go(i, "report")
    /\ UNCHANGED <<check, collected, stream, preparing>>

\* The last event of a stream, or the one answer: 200, or 400 for a failed row.
Report(i) ==
    /\ stage[i] = "report"
    /\ Put(i, EndOfStream(i)) /\ Go(i, "closed")
    /\ UNCHANGED <<inventory, check, collected, preparing>>

\* The pool finishes what it was given before the exception is reported, as
\* an error event or as a 500.
ReportException(i) ==
    /\ stage[i] = "drain"
    /\ With(i, "queued") \cup With(i, "running") = {}
    /\ Put(i, Event("error", 0)) /\ Go(i, "closed")
    /\ UNCHANGED <<inventory, check, collected, preparing>>

\* reset_app_state; its check of the active jobs is a matter of RunService.
Clear ==
    /\ inventory # <<>> /\ inventory' = <<>>
    /\ UNCHANGED <<importing, preparing>>

-----------------------------------------------------------------------------
(* prepare_run.                                                            *)

InventoryKeys == {Device(inventory[n]).key : n \in DOMAIN inventory}

CanaryListed(r) == Request[r].canary \in Range(Request[r].keys)

\* resolve_run_targets and the command scope; todo keeps repeated keys, the canary's too.
CanaryOnly(r) ==
    [n \in 1 .. Cardinality({k \in DOMAIN Request[r].keys : Request[r].keys[k] = Request[r].canary}) |->
        Request[r].canary]

Resolve(r) ==
    /\ run[r] = "idle"
    /\ IF Request[r].wellFormed /\ Range(Request[r].keys) \subseteq InventoryKeys /\ CanaryListed(r)
       THEN /\ run' = [run EXCEPT ![r] = "rendering"]
            /\ todo' = [todo EXCEPT ![r] =
                  IF Request[r].scope = "canary"
                  THEN CanaryOnly(r)
                  ELSE Request[r].keys]
       ELSE run' = [run EXCEPT ![r] = "refused"] /\ UNCHANGED todo
    /\ UNCHANGED <<inventory, importing, plan>>

VarsOf(p) == IF p = NoProfile THEN {} ELSE Device(p).vars
Verifies(p) == p # NoProfile /\ Device(p).verify

\* Mutant: without a profile the variables are not looked at.
RenderedIfKnown(r, p) == p = NoProfile \/ Request[r].needs \subseteq Request[r].globals \cup VarsOf(p)

\* render_commands leaves no variable open.
Rendered(r, p) == Request[r].needs \subseteq Request[r].globals \cup VarsOf(p)

\* verify_commands_by_device is not empty for the device.
Verified(r, key, p) ==
    /\ Request[r].verifyMode # "none"
    /\ Request[r].verifyMode = "canary" => key = Request[r].canary
    /\ Request[r].verify = "own" \/ (Request[r].verify = "profile" /\ Verifies(p))

\* One turn of the loop over the devices, with the inventory as it is by now.
Render(r) ==
    /\ run[r] = "rendering"
    /\ LET key == Head(todo[r])
           p == ProfileOf(key)
       IN  IF Rendered(r, p)
           THEN /\ plan' = [plan EXCEPT ![r] =
                      [k \in DOMAIN @ \cup {key} |->
                          IF k = key THEN [profile |-> p, verified |-> Verified(r, key, p)] ELSE @[k]]]
                /\ todo' = [todo EXCEPT ![r] = Tail(@)]
                /\ run' = [run EXCEPT ![r] = IF Tail(todo[r]) = <<>> THEN "prepared" ELSE @]
           ELSE run' = [run EXCEPT ![r] = "refused"] /\ UNCHANGED <<todo, plan>>
    /\ UNCHANGED <<inventory, importing>>

-----------------------------------------------------------------------------
ImportStep(i) ==
    Parse(i) \/ BeginCheck(i) \/ EndCheck(i) \/ Collect(i) \/ Replace(i) \/ Report(i) \/ ReportException(i)

Next ==
    \/ \E i \in Imports : ImportStep(i)
    \/ \E r \in Runs : Resolve(r) \/ Render(r)
    \/ Clear

Spec == Init /\ [][Next]_vars

\* Threads are scheduled, and validators return: they dial with a timeout.
FairSpec == Spec /\ \A i \in Imports : WF_vars(ImportStep(i))

-----------------------------------------------------------------------------
CheckState == {"queued", "running", "ok", "refused", "raised"}
Message == [type : {"start", "progress", "complete", "error"}, processed : Nat]

(* Every variable stays in its domain, and no import has more devices in    *)
(* its validation pool at once than the pool has threads.                  *)
TypeOK ==
    /\ \A n \in DOMAIN inventory : inventory[n][2] \in Entries[inventory[n][1]]
    /\ stage \in [Imports -> {"idle", "validate", "drain", "report", "closed"}]
    /\ \A i \in Imports :
        /\ check[i] \in [Entries[i] -> CheckState] /\ collected[i] \subseteq Entries[i]
        /\ Cardinality(With(i, "running")) <= Workers
        /\ \A k \in DOMAIN stream[i] : stream[i][k] \in Message
    /\ run \in [Runs -> {"idle", "rendering", "refused", "prepared"}]

(* Whatever imports run at once, the inventory is empty or the complete,    *)
(* ordered list of one import none of whose rows failed.                   *)
AllOrNothing ==
    inventory # <<>> =>
        \E i \in Imports : /\ stage[i] \in {"report", "closed"} /\ inventory = Profiles[i]
                           /\ BadRows[i] = {} /\ With(i, "ok") = Entries[i]

(* A progress stream counts the devices one by one in whatever order their *)
(* checks end.  An import answers complete exactly if every row is a       *)
(* device that answered, and was counted if the endpoint streams; one that *)
(* answers with an error has nothing in the inventory.                     *)
StreamTruthful ==
    \A i \in Imports :
        /\ \A k \in DOMAIN stream[i] : stream[i][k].type = "progress" => stream[i][k].processed = k - 1
        /\ stage[i] = "closed" =>
            IF Last(stream[i]).type = "complete"
            THEN /\ BadRows[i] = {} /\ With(i, "ok") = Entries[i]
                 /\ Len(stream[i]) = IF Csv[i].streams THEN Cardinality(Entries[i]) + 2 ELSE 1
            ELSE \A n \in DOMAIN inventory : inventory[n][1] # i

(* What prepare_run hands to the engine fits it although the inventory may *)
(* change from one device to the next: every target has commands, the      *)
(* canary is one of them, no command has an open variable, and with verify *)
(* mode "canary" nothing else is verified.                                 *)
PlanFitsEngine ==
    \A r \in Runs : run[r] = "prepared" =>
        /\ DOMAIN plan[r] = IF Request[r].scope = "canary" THEN {Request[r].canary} ELSE Range(Request[r].keys)
        /\ Request[r].canary \in DOMAIN plan[r]
        /\ \A key \in DOMAIN plan[r] :
            /\ Request[r].needs \subseteq Request[r].globals \cup VarsOf(plan[r][key].profile)
            /\ Request[r].verifyMode = "canary" /\ plan[r][key].verified => key = Request[r].canary

(* Every import answers, also when a check raises with others in the pool. *)
ImportEnds == \A i \in Imports : stage[i] = "validate" ~> stage[i] = "closed"
=============================================================================
