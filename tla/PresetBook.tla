----------------------------- MODULE PresetBook -----------------------------
(***************************************************************************)
(* What the preset endpoints promise: a book of presets in which every     *)
(* call takes effect at one moment between its request and its answer.  A  *)
(* call is answered with success after its effect, is refused only if the  *)
(* book gave a reason for it, or ends with no answer of that kind (the     *)
(* write failed or the process died), and then it may have had its effect  *)
(* or not.  Nothing else changes the book.                                 *)
(***************************************************************************)
EXTENDS Integers

CONSTANTS Client, Id, Label, Body

VARIABLES
    book,       \* id -> preset
    call        \* client -> the call it waits for

vars == <<book, call>>

Preset == [label : Label, body : Body]
Empty == <<>>
Free == [state |-> "free"]
Asked(kind, id, preset) == [state |-> "asked", kind |-> kind, id |-> id, preset |-> preset]
Ended(state, seen) == [state |-> state, seen |-> seen]

Init == book = Empty /\ call = [c \in Client |-> Free]

Answered(c, state, seen) == call' = [call EXCEPT ![c] = Ended(state, seen)]

Ask(c) ==
    /\ call[c] = Free
    /\ \/ call' = [call EXCEPT ![c] = [state |-> "asked", kind |-> "list"]]
       \/ \E k \in {"create", "update"}, i \in Id, p \in Preset :
            call' = [call EXCEPT ![c] = Asked(k, i, p)]
    /\ UNCHANGED book

Conflict(i, p) == \E k \in DOMAIN book \ {i} : book[k].label = p.label
Unknown(c) == call[c].kind = "update" /\ call[c].id \notin DOMAIN book

\* A preset is written: a new one gets an id of its own.
Write(c) ==
    /\ call[c].state = "asked" /\ call[c].kind # "list"
    /\ LET i == call[c].id
           p == call[c].preset
       IN  /\ ~Conflict(i, p) /\ ~Unknown(c)
           /\ call[c].kind = "create" => i \notin DOMAIN book
           /\ book' = [k \in DOMAIN book \cup {i} |-> IF k = i THEN p ELSE book[k]]
    /\ Answered(c, "done", Empty)

Read(c) ==
    /\ call[c].state = "asked" /\ call[c].kind = "list"
    /\ Answered(c, "done", book)
    /\ UNCHANGED book

Refuse(c) ==
    /\ call[c].state = "asked" /\ call[c].kind # "list"
    /\ Conflict(call[c].id, call[c].preset) \/ Unknown(c)
    /\ Answered(c, "refused", Empty)
    /\ UNCHANGED book

\* The answer arrives, or the call ends without success or refusal.
Return(c) ==
    /\ call[c].state \in {"done", "refused", "asked"}
    /\ call' = [call EXCEPT ![c] = Free]
    /\ UNCHANGED book

\* All calls end without an answer.
Crash ==
    /\ call' = [c \in Client |-> Free]
    /\ UNCHANGED book

Next == (\E c \in Client : Ask(c) \/ Write(c) \/ Read(c) \/ Refuse(c) \/ Return(c)) \/ Crash

Spec == Init /\ [][Next]_vars
=============================================================================
