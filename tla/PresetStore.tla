----------------------------- MODULE PresetStore -----------------------------
(***************************************************************************)
(* FilePresetStore and the endpoints that create, update and list presets: *)
(* one lock, one JSON file that is read and rewritten as a whole, through a    *)
(* temporary file that replaces it.  Requests are served on threads of     *)
(* their own; the process may die at any step and is started again.        *)
(*                                                                         *)
(* A preset has a label (its name and os model, which together are unique) *)
(* and a body (its commands).  A file holds a function from preset ids to  *)
(* presets; it is missing, whole, or torn when it was truncated and not    *)
(* written to its end.                                                     *)
(***************************************************************************)
EXTENDS Integers, FiniteSets

CONSTANTS
    Client,     \* request threads
    Id,         \* preset ids that may be drawn
    Label,      \* pairs of name and os model
    Body        \* command lists

CONSTANTS Boot, Nobody
ASSUME BootAssumption == Boot \notin Client /\ Nobody \notin Client \cup {Boot}

VARIABLES
    file,       \* the preset file
    tmp,        \* its temporary sibling
    lock,       \* holder of FilePresetStore._lock
    req         \* per thread: the request it serves and how far it is

vars == <<file, tmp, lock, req>>

Thread == Client \cup {Boot}
NoItems == <<>>
File(state, items) == [state |-> state, items |-> items]
Missing == File("missing", NoItems)
Torn == File("torn", NoItems)

Idle == [at |-> "idle", kind |-> "none", id |-> Nobody, preset |-> NoItems, items |-> NoItems]

At(c, l) == req[c].at = l
Goto(c, l) == req' = [req EXCEPT ![c].at = l]

\* main.py builds the store before anything is served.
Booting == [Idle EXCEPT !.at = "boot", !.kind = "boot"]

Init ==
    /\ file = Missing /\ tmp = Missing /\ lock = Nobody
    /\ req = [c \in Thread |-> IF c = Boot THEN Booting ELSE Idle]

-----------------------------------------------------------------------------
\* The constructor writes an empty list if there is no file.
OpenStore ==
    /\ At(Boot, "boot")
    /\ Goto(Boot, IF file = Missing THEN "open" ELSE "idle")
    /\ UNCHANGED <<file, tmp, lock>>

\* A fresh id is one nobody else has drawn: uuid4.
Drawn == {req[c].id : c \in Client} \cup DOMAIN file.items

CreatePreset(c) ==
    /\ At(Boot, "idle") /\ At(c, "idle")
    /\ \E id \in Id \ Drawn, l \in Label, b \in Body :
        req' = [req EXCEPT ![c] = [at |-> "wait", kind |-> "create", id |-> id,
                                   preset |-> [label |-> l, body |-> b], items |-> NoItems]]
    /\ UNCHANGED <<file, tmp, lock>>

UpdatePreset(c) ==
    /\ At(Boot, "idle") /\ At(c, "idle")
    /\ \E id \in Id, l \in Label, b \in Body :
        req' = [req EXCEPT ![c] = [at |-> "wait", kind |-> "update", id |-> id,
                                   preset |-> [label |-> l, body |-> b], items |-> NoItems]]
    /\ UNCHANGED <<file, tmp, lock>>

ListPresets(c) ==
    /\ At(Boot, "idle") /\ At(c, "idle")
    /\ req' = [req EXCEPT ![c].at = "wait", ![c].kind = "list"]
    /\ UNCHANGED <<file, tmp, lock>>

\* Mutant: the lock is not taken.
AcquireNothing(c) == UNCHANGED lock

Acquire(c) == lock = Nobody /\ lock' = c

Begin(c) ==
    /\ At(c, "wait") /\ Acquire(c)
    /\ Goto(c, "read")
    /\ UNCHANGED <<file, tmp>>

Release(c) == lock' = IF lock = c THEN Nobody ELSE lock

\* _read_items; a list needs no more, and a file that cannot be parsed raises.
ReadItems(c) ==
    /\ At(c, "read")
    /\ IF file.state = "whole"
       THEN LET listed == req[c].kind = "list"
            IN  /\ req' = [req EXCEPT ![c].at = IF listed THEN "answer" ELSE "check",
                                      ![c].items = file.items]
                /\ IF listed THEN Release(c) ELSE UNCHANGED lock
       ELSE req' = [req EXCEPT ![c] = Idle] /\ Release(c)
    /\ UNCHANGED <<file, tmp>>

\* Mutant: a preset may take a label that is in use by a changed one.
ConflictsOnCreate(c) ==
    \E i \in DOMAIN req[c].items :
        i # req[c].id /\ req[c].kind = "create" /\ req[c].items[i].label = req[c].preset.label

\* _ensure_unique
Conflicts(c) ==
    \E i \in DOMAIN req[c].items :
        i # req[c].id /\ req[c].items[i].label = req[c].preset.label

\* 409 for a label in use, 404 for an update of an unknown preset.
Refused(c) == Conflicts(c) \/ (req[c].kind = "update" /\ req[c].id \notin DOMAIN req[c].items)

CheckItems(c) ==
    /\ At(c, "check")
    /\ IF Refused(c)
       THEN req' = [req EXCEPT ![c].at = "refused", ![c].items = NoItems] /\ Release(c)
       ELSE Goto(c, "open") /\ UNCHANGED lock
    /\ UNCHANGED <<file, tmp>>

NewItems(c) ==
    IF req[c].kind = "boot" THEN NoItems
    ELSE [i \in DOMAIN req[c].items \cup {req[c].id} |->
            IF i = req[c].id THEN req[c].preset ELSE req[c].items[i]]

\* Mutant: the file itself is opened for writing.
TruncateFile == file' = Torn /\ UNCHANGED tmp

Truncate == tmp' = Torn /\ UNCHANGED file

\* _write_items: open for writing, dump, replace.
OpenTmp(c) ==
    /\ At(c, "open") /\ Truncate
    /\ Goto(c, "dump")
    /\ UNCHANGED lock

DumpTmp(c) ==
    /\ At(c, "dump")
    /\ tmp' = File("whole", NewItems(c))
    /\ Goto(c, "replace")
    /\ UNCHANGED <<file, lock>>

\* open, json.dump or replace raises (a full disk): the temporary file is left behind,
\* the lock is released and the request ends with a 500.
WriteFails(c) ==
    /\ req[c].at \in {"open", "dump", "replace"}
    /\ req' = [req EXCEPT ![c] = Idle] /\ Release(c)
    /\ UNCHANGED <<file, tmp>>

Replace == file' = tmp /\ tmp' = Missing

ReplaceFile(c) ==
    /\ At(c, "replace") /\ Replace
    /\ req' = [req EXCEPT ![c].at = IF c = Boot THEN "idle" ELSE "answer", ![c].items = NoItems]
    /\ Release(c)

\* 200 with the preset or the list, 409 or 404.
Answer(c) ==
    /\ req[c].at \in {"answer", "refused"}
    /\ req' = [req EXCEPT ![c] = Idle]
    /\ UNCHANGED <<file, tmp, lock>>

\* The process dies and is started again: the files are all that is left.
Crash ==
    /\ req' = [c \in Thread |-> IF c = Boot THEN Booting ELSE Idle]
    /\ lock' = Nobody
    /\ UNCHANGED <<file, tmp>>

-----------------------------------------------------------------------------
Serve(c) ==
    \/ Begin(c) \/ ReadItems(c) \/ CheckItems(c)
    \/ OpenTmp(c) \/ DumpTmp(c) \/ WriteFails(c) \/ ReplaceFile(c)
    \/ Answer(c)

Next ==
    \/ OpenStore \/ OpenTmp(Boot) \/ DumpTmp(Boot) \/ ReplaceFile(Boot)
    \/ \E c \in Client : CreatePreset(c) \/ UpdatePreset(c) \/ ListPresets(c) \/ Serve(c)
    \/ Crash

Spec == Init /\ [][Next]_vars

-----------------------------------------------------------------------------
Preset == [label : Label, body : Body]
Items == file.items

(* The file is never torn: at every moment, and after a crash at any step, *)
(* it is missing or a whole list of presets.  Only the thread that holds   *)
(* the lock, or the constructor, is writing.                               *)
FileWhole ==
    /\ file.state \in {"missing", "whole"}
    /\ DOMAIN Items \subseteq Id /\ \A i \in DOMAIN Items : Items[i] \in Preset
    /\ \A c \in Thread : req[c].at \in {"open", "dump", "replace"} => lock = c \/ c = Boot

(* No two presets have the same name and os model, whatever creates and     *)
(* updates run at once.                                                    *)
LabelsUnique == \A i, k \in DOMAIN Items : Items[i].label = Items[k].label => i = k

(* The calls as PresetBook speaks of them: still asked, or ended.          *)
CallOf(c) ==
    LET q == req[c] IN
    CASE q.at = "idle" -> [state |-> "free"]
      [] q.at = "refused" -> [state |-> "refused", seen |-> NoItems]
      [] q.at = "answer" -> [state |-> "done", seen |-> q.items]
      [] OTHER -> IF q.kind = "list" THEN [state |-> "asked", kind |-> "list"]
                  ELSE [state |-> "asked", kind |-> q.kind, id |-> q.id, preset |-> q.preset]

Book == INSTANCE PresetBook WITH book <- Items, call <- [c \in Client |-> CallOf(c)]

(* Locked, read, checked and rewritten step by step, and with crashes and  *)
(* failing writes, the store is a book: each call takes effect at once and *)
(* on its own, no write undoes another, what is written stays, a list is   *)
(* what the book held, and a refusal had its reason.                       *)
ImplementsBook == Book!Spec
=============================================================================
