--------------------------- MODULE PresetStoreProofs ---------------------------
(***************************************************************************)
(* Theorems about PresetStore for any clients, ids, labels and bodies: the *)
(* file is whole, labels are unique, and the store implements PresetBook.  *)
(*                                                                         *)
(* What a thread has read stays what the file holds only because of the    *)
(* lock, and what replaces the file is whole only because of what that     *)
(* thread wrote before.  IInv says both.                                   *)
(***************************************************************************)
EXTENDS PresetStore, TLAPS

\* Files hold maps from some ids to presets.
Maps == UNION {[S -> Preset] : S \in SUBSET Id}

Points == {"idle", "wait", "read", "check", "open", "dump", "replace", "answer", "refused", "boot"}

Pending == {"wait", "read", "check", "open", "dump", "replace"}
Locked == {"read", "check", "open", "dump", "replace"}
Informed == {"check", "open", "dump", "replace"}
Writing == {"open", "dump", "replace"}

Requests == [at : Points, kind : {"none", "create", "update", "list", "boot"},
             id : Id \cup {Nobody}, preset : Preset \cup {NoItems}, items : Maps \cup {NoItems}]

FileInv ==
    /\ file = Missing \/ (file.state = "whole" /\ file.items \in Maps /\ file = File("whole", file.items))
    /\ LabelsUnique

RequestInv ==
    /\ req \in [Thread -> Requests]
    /\ \A c \in Client :
        /\ req[c].at # "boot" /\ req[c].kind # "boot"
        /\ req[c].at = "idle" => req[c] = Idle
        /\ req[c].at \in Pending /\ req[c].kind # "list" =>
              req[c].kind \in {"create", "update"} /\ req[c].id \in Id /\ req[c].preset \in Preset
        /\ req[c].at \in Informed => req[c].kind # "list"

\* Nothing is served before the constructor is done, and then there is a file.
BootInv ==
    /\ req[Boot].kind = "boot" /\ req[Boot].at \in {"boot", "open", "dump", "replace", "idle"}
    /\ req[Boot].at = "idle" => file.state = "whole"
    /\ req[Boot].at # "idle" => lock = Nobody /\ \A c \in Client : req[c].at = "idle"
    /\ req[Boot].at \in Writing => file = Missing

\* Whoever reads, checks or writes holds the lock, and knows what the file holds.
LockInv ==
    /\ \A c \in Client : req[c].at \in Locked => lock = c
    /\ \A c \in Client : req[c].at \in Informed => req[c].items = file.items
    /\ \A c \in Client : req[c].at \in Writing => ~Refused(c)
    /\ \A c \in Thread : req[c].at = "replace" => tmp = File("whole", NewItems(c))

\* The id of a preset still to be created is in no file and in no other request to create one.
Creates(c) == req[c].kind = "create" /\ req[c].at \in Pending
FreshInv ==
    /\ \A c \in Client : Creates(c) => req[c].id \notin DOMAIN Items
    /\ \A c, d \in Client : Creates(c) /\ Creates(d) /\ req[c].id = req[d].id => c = d

IInv == FileInv /\ RequestInv /\ BootInv /\ LockInv /\ FreshInv

-----------------------------------------------------------------------------
(* The threads are the clients and the one that starts the store.          *)
LEMMA Threads ==
    /\ Thread = Client \cup {Boot} /\ Boot \notin Client
    /\ Nobody \notin Client /\ Nobody # Boot
  BY BootAssumption DEF Thread

(* The empty list of presets is a map like any other.                      *)
LEMMA EmptyMap == NoItems \in Maps
  <1>1. NoItems \in [{} -> Preset]
    BY DEF NoItems
  <1> QED BY <1>1 DEF Maps

(* The store starts with no file and with nobody served.                   *)
LEMMA InitInv == Init => IInv
  <1> SUFFICES ASSUME Init PROVE IInv
    OBVIOUS
  <1> USE Threads DEF Init
  <1>1. FileInv
    BY DEF FileInv, LabelsUnique, Items, Missing, File, NoItems
  <1>2. RequestInv
    BY DEF RequestInv, Requests, Booting, Idle, Points, Pending, Informed
  <1>3. BootInv
    BY DEF BootInv, Booting, Idle, Writing
  <1>4. LockInv
    BY DEF LockInv, Booting, Idle, Locked, Informed, Writing
  <1>5. FreshInv
    BY DEF FreshInv, Creates, Idle
  <1> QED BY <1>1, <1>2, <1>3, <1>4, <1>5 DEF IInv

(* The constructor looks whether there is a file.                          *)
LEMMA OpenStoreInv ==
    ASSUME IInv, OpenStore
    PROVE  IInv'
  <1> USE Threads DEF IInv, OpenStore, At, Goto
  <1>1. FileInv'
    BY DEF FileInv, LabelsUnique, Items
  <1>2. RequestInv'
    BY DEF RequestInv, Requests, Idle, Points, Pending, Informed
  <1>3. BootInv'
    BY DEF BootInv, FileInv, RequestInv, Requests, LockInv, Idle, Writing, Locked
  <1>4. LockInv'
    BY DEF LockInv, RequestInv, Requests, BootInv, Idle, Locked, Informed, Writing, Refused, Conflicts, NewItems
  <1>5. FreshInv'
    BY DEF FreshInv, RequestInv, Requests, Creates, Idle, Items, Pending
  <1> QED BY <1>1, <1>2, <1>3, <1>4, <1>5

(* A new request waits with an id of its own.                              *)
LEMMA CreatePresetInv ==
    ASSUME IInv, NEW c \in Client, CreatePreset(c)
    PROVE  IInv'
  <1> USE Threads DEF IInv, At
  <1>0. PICK id \in Id \ Drawn, l \in Label, b \in Body :
          req' = [req EXCEPT ![c] = [at |-> "wait", kind |-> "create", id |-> id,
                                     preset |-> [label |-> l, body |-> b], items |-> NoItems]]
    BY DEF CreatePreset
  <1>a. req[Boot].at = "idle" /\ req[c].at = "idle" /\ UNCHANGED <<file, tmp, lock>>
    BY DEF CreatePreset
  <1>b. /\ req'[c] = [at |-> "wait", kind |-> "create", id |-> id,
                      preset |-> [label |-> l, body |-> b], items |-> NoItems]
        /\ \A d \in Thread \ {c} : req'[d] = req[d]
    BY <1>0 DEF RequestInv, Requests
  <1>1. FileInv'
    BY <1>a DEF FileInv, LabelsUnique, Items
  <1>2. RequestInv'
    <2>1. [label |-> l, body |-> b] \in Preset
      BY DEF Preset
    <2>2. req'[c] \in Requests
      BY <1>b, <2>1 DEF Requests, Points
    <2> QED BY <1>0, <1>b, <2>1, <2>2 DEF RequestInv, Requests, Pending, Informed
  <1>3. BootInv'
    BY <1>a, <1>b DEF BootInv, RequestInv, Requests, Writing
  <1>4. LockInv'
    BY <1>a, <1>b DEF LockInv, Locked, Informed, Writing, Refused, Conflicts, NewItems
  <1>5. FreshInv'
    BY <1>a, <1>b DEF FreshInv, Creates, Items, Pending, Drawn
  <1> QED BY <1>1, <1>2, <1>3, <1>4, <1>5

(* An update names an id that may or may not be in use, and holds no lock yet.*)
LEMMA UpdatePresetInv ==
    ASSUME IInv, NEW c \in Client, UpdatePreset(c)
    PROVE  IInv'
  <1> USE Threads DEF IInv, At
  <1>0. PICK id \in Id, l \in Label, b \in Body :
          req' = [req EXCEPT ![c] = [at |-> "wait", kind |-> "update", id |-> id,
                                     preset |-> [label |-> l, body |-> b], items |-> NoItems]]
    BY DEF UpdatePreset
  <1>a. req[Boot].at = "idle" /\ req[c].at = "idle" /\ UNCHANGED <<file, tmp, lock>>
    BY DEF UpdatePreset
  <1>b. /\ req'[c] = [at |-> "wait", kind |-> "update", id |-> id,
                      preset |-> [label |-> l, body |-> b], items |-> NoItems]
        /\ \A d \in Thread \ {c} : req'[d] = req[d]
    BY <1>0 DEF RequestInv, Requests
  <1>1. FileInv'
    BY <1>a DEF FileInv, LabelsUnique, Items
  <1>2. RequestInv'
    <2>1. [label |-> l, body |-> b] \in Preset
      BY DEF Preset
    <2>2. req'[c] \in Requests
      BY <1>b, <2>1 DEF Requests, Points
    <2> QED BY <1>0, <1>b, <2>1, <2>2 DEF RequestInv, Requests, Pending, Informed
  <1>3. BootInv'
    BY <1>a, <1>b DEF BootInv, RequestInv, Requests, Writing
  <1>4. LockInv'
    BY <1>a, <1>b DEF LockInv, Locked, Informed, Writing, Refused, Conflicts, NewItems
  <1>5. FreshInv'
    BY <1>a, <1>b DEF FreshInv, Creates, Items, Pending, Drawn
  <1> QED BY <1>1, <1>2, <1>3, <1>4, <1>5

(* A list request begins without the lock.                                 *)
LEMMA ListPresetsInv ==
    ASSUME IInv, NEW c \in Client, ListPresets(c)
    PROVE  IInv'
  <1> USE Threads DEF IInv, ListPresets, At, Goto
  <1>1. FileInv'
    BY DEF FileInv, LabelsUnique, Items
  <1>2. RequestInv'
    BY DEF RequestInv, Requests, Idle, Points, Pending, Informed
  <1>3. BootInv'
    BY DEF BootInv, RequestInv, Requests, LockInv, Idle, Writing, Locked
  <1>4. LockInv'
    BY DEF LockInv, RequestInv, Requests, BootInv, Idle, Locked, Informed, Writing, Refused, Conflicts, NewItems
  <1>5. FreshInv'
    BY DEF FreshInv, RequestInv, Requests, Creates, Idle, Items, Pending
  <1> QED BY <1>1, <1>2, <1>3, <1>4, <1>5

(* The lock is free when it is taken, so nobody else has read the file.    *)
LEMMA BeginInv ==
    ASSUME IInv, NEW c \in Client, Begin(c)
    PROVE  IInv'
  <1> USE Threads DEF IInv, Begin, At, Goto, Acquire
  <1>1. FileInv'
    BY DEF FileInv, LabelsUnique, Items
  <1>2. RequestInv'
    BY DEF RequestInv, Requests, Idle, Points, Pending, Informed
  <1>3. BootInv'
    BY DEF BootInv, RequestInv, Requests, LockInv, Idle, Writing, Locked
  <1>4. LockInv'
    BY DEF LockInv, RequestInv, Requests, BootInv, Idle, Locked, Informed, Writing, Refused, Conflicts, NewItems
  <1>5. FreshInv'
    BY DEF FreshInv, RequestInv, Requests, Creates, Idle, Items, Pending
  <1> QED BY <1>1, <1>2, <1>3, <1>4, <1>5

(* What is read under the lock is what the file holds.                     *)
LEMMA ReadItemsInv ==
    ASSUME IInv, NEW c \in Client, ReadItems(c)
    PROVE  IInv'
  <1> USE Threads DEF IInv, ReadItems, At, Goto, Release
  <1>1. FileInv'
    BY DEF FileInv, LabelsUnique, Items
  <1>2. RequestInv'
    BY DEF RequestInv, Requests, Idle, Points, Pending, Informed
  <1>3. BootInv'
    BY DEF BootInv, RequestInv, Requests, LockInv, Idle, Writing, Locked
  <1>4. LockInv'
    BY DEF LockInv, RequestInv, Requests, BootInv, Idle, Locked, Informed, Writing, Refused, Conflicts, NewItems
  <1>5. FreshInv'
    BY DEF FreshInv, RequestInv, Requests, Creates, Idle, Items, Pending
  <1> QED BY <1>1, <1>2, <1>3, <1>4, <1>5

(* A refused request gives the lock back; the others know their write is legal.*)
LEMMA CheckItemsInv ==
    ASSUME IInv, NEW c \in Client, CheckItems(c)
    PROVE  IInv'
  <1> USE Threads DEF IInv, CheckItems, At, Goto, Release
  <1>1. FileInv'
    BY DEF FileInv, LabelsUnique, Items
  <1>2. RequestInv'
    BY DEF RequestInv, Requests, Idle, Points, Pending, Informed
  <1>3. BootInv'
    BY DEF BootInv, RequestInv, Requests, LockInv, Idle, Writing, Locked
  <1>4. LockInv'
    BY DEF LockInv, RequestInv, Requests, BootInv, Idle, Locked, Informed, Writing, Refused, Conflicts, NewItems
  <1>5. FreshInv'
    BY DEF FreshInv, RequestInv, Requests, Creates, Idle, Items, Pending
  <1> QED BY <1>1, <1>2, <1>3, <1>4, <1>5

(* Only the temporary file is truncated.                                   *)
LEMMA OpenTmpInv ==
    ASSUME IInv, NEW c \in Thread, OpenTmp(c)
    PROVE  IInv'
  <1> USE Threads DEF IInv, OpenTmp, At, Goto, Truncate
  <1>1. FileInv'
    BY DEF FileInv, LabelsUnique, Items
  <1>2. RequestInv'
    BY DEF RequestInv, Requests, Idle, Points, Pending, Informed
  <1>3. BootInv'
    BY DEF BootInv, RequestInv, Requests, LockInv, Idle, Writing, Locked
  <1>4. LockInv'
    BY DEF LockInv, RequestInv, Requests, BootInv, Idle, Locked, Informed, Writing, Refused, Conflicts, NewItems
  <1>5. FreshInv'
    BY DEF FreshInv, RequestInv, Requests, Creates, Idle, Items, Pending
  <1> QED BY <1>1, <1>2, <1>3, <1>4, <1>5

(* The temporary file is whole before it replaces the other.               *)
LEMMA DumpTmpInv ==
    ASSUME IInv, NEW c \in Thread, DumpTmp(c)
    PROVE  IInv'
  <1> USE Threads DEF IInv, DumpTmp, At, Goto
  <1>1. FileInv'
    BY DEF FileInv, LabelsUnique, Items
  <1>2. RequestInv'
    BY DEF RequestInv, Requests, Idle, Points, Pending, Informed
  <1>3. BootInv'
    BY DEF BootInv, RequestInv, Requests, LockInv, Idle, Writing, Locked
  <1>4. LockInv'
    BY DEF LockInv, RequestInv, Requests, BootInv, Idle, Locked, Informed, Writing, Refused, Conflicts, NewItems
  <1>5. FreshInv'
    BY DEF FreshInv, RequestInv, Requests, Creates, Idle, Items, Pending
  <1> QED BY <1>1, <1>2, <1>3, <1>4, <1>5

(* A write that fails leaves the file as it was, and a temporary file behind.*)
LEMMA WriteFailsInv ==
    ASSUME IInv, NEW c \in Client, WriteFails(c)
    PROVE  IInv'
  <1> USE Threads DEF IInv, WriteFails, At, Goto, Release
  <1>1. FileInv'
    BY DEF FileInv, LabelsUnique, Items
  <1>2. RequestInv'
    BY DEF RequestInv, Requests, Idle, Points, Pending, Informed
  <1>3. BootInv'
    BY DEF BootInv, RequestInv, Requests, LockInv, Idle, Writing, Locked
  <1>4. LockInv'
    BY DEF LockInv, RequestInv, Requests, BootInv, Idle, Locked, Informed, Writing, Refused, Conflicts, NewItems
  <1>5. FreshInv'
    BY DEF FreshInv, RequestInv, Requests, Creates, Idle, Items, Pending
  <1> QED BY <1>1, <1>2, <1>3, <1>4, <1>5

(* The file that replaces the old one is whole, and its labels differ.     *)
LEMMA ReplaceFileInv ==
    ASSUME IInv, NEW c \in Thread, ReplaceFile(c)
    PROVE  IInv'
  <1> USE Threads DEF IInv, ReplaceFile, At, Goto
  <1>1. /\ req[c].at = "replace" /\ tmp = File("whole", NewItems(c))
        /\ file' = tmp /\ file'.items = NewItems(c) /\ file'.state = "whole"
    BY DEF LockInv, Replace, File
  <1>2. c \in Client => /\ req[c].items = file.items /\ ~Refused(c) /\ lock = c
                        /\ req[c].kind \in {"create", "update"} /\ req[c].id \in Id
                        /\ req[c].preset \in Preset
                        /\ req[Boot].at = "idle"
    BY <1>1 DEF LockInv, RequestInv, Requests, BootInv, Locked, Informed, Writing, Pending
  <1>3. /\ c = Boot => NewItems(c) = NoItems
        /\ c \in Client => NewItems(c) =
             [i \in DOMAIN Items \cup {req[c].id} |-> IF i = req[c].id THEN req[c].preset ELSE Items[i]]
    BY <1>2 DEF NewItems, BootInv, Items
  <1>4. /\ req'[c].at = (IF c = Boot THEN "idle" ELSE "answer") /\ req'[c].items = NoItems
        /\ req'[c].kind = req[c].kind /\ req'[c].id = req[c].id /\ req'[c].preset = req[c].preset
        /\ \A d \in Thread \ {c} : req'[d] = req[d]
        /\ req' \in [Thread -> Requests]
    BY EmptyMap DEF RequestInv, Requests, Points
  <1>a. lock' = IF lock = c THEN Nobody ELSE lock
    BY DEF Release
  <1> HIDE DEF ReplaceFile, At, Goto, Release
  <1>5. CASE c = Boot
    <2>1. \A d \in Client : req'[d] = req[d] /\ req[d].at = "idle"
      BY <1>1, <1>4, <1>5 DEF BootInv
    <2>2. FileInv'
      BY <1>1, <1>3, <1>5, EmptyMap DEF FileInv, LabelsUnique, Items, NoItems, File
    <2>3. RequestInv'
      BY <1>4, <2>1 DEF RequestInv, Pending, Informed
    <2>4. BootInv'
      BY <1>1, <1>4, <1>5 DEF BootInv, Writing
    <2>5. LockInv' /\ FreshInv'
      BY <1>4, <1>5, <2>1 DEF LockInv, FreshInv, Creates, Locked, Informed, Writing, Pending
    <2> QED BY <2>2, <2>3, <2>4, <2>5
  <1>6. CASE c \in Client
    <2> DEFINE id == req[c].id
               p == req[c].preset
    <2>1. \A k \in DOMAIN Items : k # id => Items[k].label # p.label
      BY <1>2, <1>6 DEF Refused, Conflicts, Items
    <2>2. PICK S \in SUBSET Id : Items \in [S -> Preset]
      BY <1>2, <1>6 DEF FileInv, BootInv, Items, Maps, Missing, File
    <2>3. Items' = [i \in S \cup {id} |-> IF i = id THEN p ELSE Items[i]]
      BY <1>1, <1>3, <1>6, <2>2 DEF Items
    <2>4. Items' \in Maps
      <3>1. Items' \in [S \cup {id} -> Preset]
        BY <1>2, <1>6, <2>2, <2>3
      <3> QED BY <1>2, <1>6, <3>1 DEF Maps
    <2>5. LabelsUnique'
      BY <2>1, <2>2, <2>3 DEF LabelsUnique, FileInv
    <2>6. FileInv'
      BY <1>1, <2>4, <2>5 DEF FileInv, Items, File
    <2>7. RequestInv'
      BY <1>4, <1>6 DEF RequestInv, Requests, Points, Pending, Informed
    <2>8. BootInv'
      BY <1>1, <1>2, <1>4, <1>6 DEF BootInv, Writing
    <2>9. LockInv'
      BY <1>1, <1>2, <1>4, <1>6 DEF LockInv, BootInv, Locked, Informed, Writing
    <2>10. FreshInv'
      <3>1. ASSUME NEW d \in Client, Creates(d)'
            PROVE  d # c /\ Creates(d) /\ req'[d] = req[d]
        BY <1>4, <1>6, <3>1 DEF Creates, Pending
      <3>2. ASSUME NEW d \in Client, Creates(d), d # c
            PROVE  req[d].id # id
        BY <1>1, <1>2, <1>6, <3>2 DEF FreshInv, Creates, Pending, Refused, Items
      <3> QED BY <2>2, <2>3, <3>1, <3>2 DEF FreshInv
    <2> QED BY <2>6, <2>7, <2>8, <2>9, <2>10
  <1> QED BY <1>5, <1>6

(* An answer holds no lock.                                                *)
LEMMA AnswerInv ==
    ASSUME IInv, NEW c \in Client, Answer(c)
    PROVE  IInv'
  <1> USE Threads DEF IInv, Answer, At, Goto
  <1>0. /\ req'[c] = Idle /\ \A d \in Thread \ {c} : req'[d] = req[d]
        /\ UNCHANGED <<file, tmp, lock>>
    BY DEF RequestInv, Requests
  <1>1. FileInv'
    BY DEF FileInv, LabelsUnique, Items
  <1>2. RequestInv'
    BY DEF RequestInv, Requests, Idle, Points, Pending, Informed
  <1>3. BootInv'
    BY DEF BootInv, RequestInv, Requests, LockInv, Idle, Writing, Locked
  <1>4. LockInv'
    <2> HIDE DEF Answer, At, Goto
    <2> QED BY <1>0 DEF LockInv, Idle, Locked, Informed, Writing, Refused, Conflicts, NewItems
  <1>5. FreshInv'
    BY DEF FreshInv, RequestInv, Requests, Creates, Idle, Items, Pending
  <1> QED BY <1>1, <1>2, <1>3, <1>4, <1>5

(* What a crash leaves is a whole file or none; no request survives it.    *)
LEMMA CrashInv ==
    ASSUME IInv, Crash
    PROVE  IInv'
  <1> USE Threads DEF IInv, Crash
  <1>1. /\ req'[Boot] = Booting /\ \A c \in Client : req'[c] = Idle
        /\ lock' = Nobody /\ file' = file /\ tmp' = tmp
    OBVIOUS
  <1>2. FileInv'
    BY <1>1 DEF FileInv, LabelsUnique, Items
  <1>3. RequestInv'
    <2>1. Idle \in Requests /\ Booting \in Requests
      BY EmptyMap DEF Requests, Idle, Booting, Points
    <2>2. Idle.at = "idle" /\ Idle.kind = "none"
      BY DEF Idle
    <2> QED BY <1>1, <2>1, <2>2, Threads DEF RequestInv, Pending, Informed
  <1>4. BootInv'
    BY <1>1 DEF BootInv, Idle, Booting, Writing
  <1>5. LockInv'
    <2>1. \A c \in Thread : req'[c].at # "replace"
      BY <1>1 DEF Idle, Booting
    <2>2. \A c \in Client : req'[c].at \notin Locked
      BY <1>1 DEF Idle, Locked
    <2> QED BY <2>1, <2>2 DEF LockInv, Locked, Informed, Writing
  <1>6. FreshInv'
    BY <1>1 DEF FreshInv, Creates, Idle, Pending
  <1> QED BY <1>2, <1>3, <1>4, <1>5, <1>6

(* Every step of the store preserves the inductive invariant.              *)
LEMMA StepInv == IInv /\ [Next]_vars => IInv'
  <1> SUFFICES ASSUME IInv, [Next]_vars PROVE IInv'
    OBVIOUS
  <1>1. CASE UNCHANGED vars
    <2>1. FileInv' /\ RequestInv' /\ BootInv' /\ FreshInv'
      BY <1>1 DEF vars, IInv, FileInv, RequestInv, BootInv, FreshInv, Creates, LabelsUnique, Items
    <2>2. LockInv'
      BY <1>1 DEF vars, IInv, LockInv, Refused, Conflicts, NewItems
    <2> QED BY <2>1, <2>2 DEF IInv
  <1>2. CASE Next
    BY <1>2, Threads, OpenStoreInv, CreatePresetInv, UpdatePresetInv, ListPresetsInv, BeginInv,
       ReadItemsInv, CheckItemsInv, OpenTmpInv, DumpTmpInv, WriteFailsInv, ReplaceFileInv,
       AnswerInv, CrashInv DEF Next, Serve
  <1> QED BY <1>1, <1>2

(* The inductive invariant holds throughout.                               *)
LEMMA InvHolds == Spec => []IInv
  BY InitInv, StepInv, PTL DEF Spec

-----------------------------------------------------------------------------
(* The preset file is missing or whole at every moment, also between the   *)
(* truncation of the temporary file and its replacement, and after a crash *)
(* or a failing write (_write_items).                                      *)
THEOREM NeverTorn == Spec => []FileWhole
  <1>1. IInv => FileWhole
    <2> SUFFICES ASSUME IInv PROVE FileWhole
      OBVIOUS
    <2>1. file.state \in {"missing", "whole"} /\ file.items \in Maps
      BY EmptyMap DEF IInv, FileInv, Missing, File
    <2>2. DOMAIN Items \subseteq Id /\ \A i \in DOMAIN Items : Items[i] \in Preset
      BY <2>1 DEF Items, Maps
    <2>3. \A c \in Thread : req[c].at \in Writing => lock = c \/ c = Boot
      BY Threads DEF IInv, LockInv, Writing, Locked
    <2> QED BY <2>1, <2>2, <2>3 DEF FileWhole, Writing
  <1> QED BY <1>1, InvHolds, PTL

(* No two presets share name and os model: what a request has read when it *)
(* checks for a conflict is still what the file holds when it is replaced  *)
(* (_ensure_unique under the lock).                                        *)
THEOREM NoSharedLabel == Spec => []LabelsUnique
  <1>1. IInv => LabelsUnique
    BY DEF IInv, FileInv
  <1> QED BY <1>1, InvHolds, PTL

-----------------------------------------------------------------------------
(* The refinement of PresetBook, step by step.                             *)

(* The book is empty and no call is open before the store is built.        *)
LEMMA BookInit == Init => Book!Init
  BY Threads DEF Init, Book!Init, Book!Empty, Book!Free, Items, Missing, File, NoItems, CallOf, Idle

(* A step that changes the request of one client changes one call.         *)
LEMMA OneCall ==
    ASSUME NEW c \in Client, \A d \in Client \ {c} : req'[d] = req[d]
    PROVE  [d \in Client |-> CallOf(d)]' = [[d \in Client |-> CallOf(d)] EXCEPT ![c] = CallOf(c)']
  <1>1. \A d \in Client \ {c} : CallOf(d)' = CallOf(d)
    BY DEF CallOf
  <1> QED BY <1>1

\* The calls as the book has them.
Calls == [c \in Client |-> CallOf(c)]

(* A request that arrives is a call asked of the book.                     *)
LEMMA AskStep ==
    ASSUME IInv, NEW c \in Client, CreatePreset(c) \/ UpdatePreset(c) \/ ListPresets(c)
    PROVE  Book!Ask(c)
  <1> USE DEF IInv, At
  <1>1. /\ Calls[c] = [state |-> "free"] /\ file' = file
        /\ \A d \in Client \ {c} : req'[d] = req[d]
    BY Threads DEF CreatePreset, UpdatePreset, ListPresets, Calls, CallOf, RequestInv
  <1>2. Calls' = [Calls EXCEPT ![c] = CallOf(c)']
    BY <1>1, OneCall DEF Calls
  <1>3. \/ CallOf(c)' = [state |-> "asked", kind |-> "list"]
        \/ \E k \in {"create", "update"}, i \in Id, p \in Preset :
             CallOf(c)' = [state |-> "asked", kind |-> k, id |-> i, preset |-> p]
    <2>1. CASE CreatePreset(c)
      <3>1. PICK i \in Id \ Drawn, l \in Label, b \in Body :
              req' = [req EXCEPT ![c] = [at |-> "wait", kind |-> "create", id |-> i,
                                         preset |-> [label |-> l, body |-> b], items |-> NoItems]]
        BY <2>1 DEF CreatePreset
      <3>2. CallOf(c)' = [state |-> "asked", kind |-> "create", id |-> i,
                          preset |-> [label |-> l, body |-> b]]
        BY <3>1, Threads DEF CallOf, RequestInv
      <3> QED BY <3>2 DEF Preset
    <2>2. CASE UpdatePreset(c)
      <3>1. PICK i \in Id, l \in Label, b \in Body :
              req' = [req EXCEPT ![c] = [at |-> "wait", kind |-> "update", id |-> i,
                                         preset |-> [label |-> l, body |-> b], items |-> NoItems]]
        BY <2>2 DEF UpdatePreset
      <3>2. CallOf(c)' = [state |-> "asked", kind |-> "update", id |-> i,
                          preset |-> [label |-> l, body |-> b]]
        BY <3>1, Threads DEF CallOf, RequestInv
      <3> QED BY <3>2 DEF Preset
    <2>3. CASE ListPresets(c)
      BY <2>3, Threads DEF ListPresets, CallOf, RequestInv, Requests
    <2> QED BY <2>1, <2>2, <2>3
  <1>4. UNCHANGED Items
    BY <1>1 DEF Items
  <1>5. \/ Calls' = [Calls EXCEPT ![c] = [state |-> "asked", kind |-> "list"]]
        \/ \E k \in {"create", "update"}, i \in Id, p \in Preset :
             Calls' = [Calls EXCEPT ![c] = [state |-> "asked", kind |-> k, id |-> i, preset |-> p]]
    BY <1>2, <1>3, Zenon
  <1> QED BY <1>1, <1>4, <1>5, Zenon DEF Book!Ask, Book!Free, Book!Asked, Book!Preset, Preset, Calls

(* Taking the lock, opening and dumping the temporary file change no call  *)
(* and no preset, whoever does it; nor does the start of the store.        *)
LEMMA HiddenStep ==
    ASSUME IInv, \/ OpenStore
                 \/ \E c \in Client : Begin(c)
                 \/ \E c \in Thread : OpenTmp(c) \/ DumpTmp(c)
    PROVE  Items' = Items /\ Calls' = Calls
  <1> USE Threads DEF IInv, At, Goto
  <1>1. file' = file
    BY DEF OpenStore, Begin, OpenTmp, Truncate, DumpTmp
  <1>2. ASSUME NEW d \in Client PROVE CallOf(d)' = CallOf(d)
    <2>1. CASE OpenStore
      BY <2>1 DEF OpenStore, CallOf, RequestInv
    <2>2. CASE \E c \in Client : Begin(c)
      BY <2>2 DEF Begin, CallOf, RequestInv, Requests
    <2>3. CASE \E c \in Thread : OpenTmp(c)
      BY <2>3 DEF OpenTmp, CallOf, RequestInv, Requests
    <2>4. CASE \E c \in Thread : DumpTmp(c)
      BY <2>4 DEF DumpTmp, CallOf, RequestInv, Requests
    <2> QED BY <2>1, <2>2, <2>3, <2>4
  <1> QED BY <1>1, <1>2 DEF Items, Calls

(* Reading the file is the moment at which a list takes effect; a request  *)
(* that means to write goes on unseen.                                     *)
LEMMA ReadStep ==
    ASSUME IInv, NEW c \in Client, ReadItems(c)
    PROVE  Book!Read(c) \/ (Items' = Items /\ Calls' = Calls)
  <1> USE Threads DEF IInv, At, ReadItems
  <1>1. file' = file /\ \A d \in Client \ {c} : req'[d] = req[d]
    BY DEF RequestInv
  <1>2. Calls' = [Calls EXCEPT ![c] = CallOf(c)']
    BY <1>1, OneCall DEF Calls
  <1>3. file.state = "whole"
    BY DEF FileInv, BootInv, RequestInv
  <1>4. CASE req[c].kind = "list"
    <2>1. CallOf(c) = [state |-> "asked", kind |-> "list"]
      BY <1>4 DEF CallOf
    <2>2. CallOf(c)' = [state |-> "done", seen |-> Items]
      BY <1>3, <1>4 DEF CallOf, RequestInv, Requests, Items
    <2>3. Calls[c] = CallOf(c)
      BY DEF Calls
    <2>4. UNCHANGED Items
      BY <1>1 DEF Items
    <2> HIDE DEF ReadItems, IInv
    <2> QED BY <1>2, <2>1, <2>2, <2>3, <2>4 DEF Book!Read, Book!Answered, Book!Ended, Calls
  <1>5. CASE req[c].kind # "list"
    <2>1. req'[c].at = "check" /\ req'[c].kind = req[c].kind /\ req'[c].id = req[c].id
          /\ req'[c].preset = req[c].preset
      BY <1>3, <1>5 DEF RequestInv, Requests
    <2>2. CallOf(c)' = CallOf(c)
      BY <1>5, <2>1 DEF CallOf
    <2> QED BY <1>1, <1>2, <2>2 DEF Calls, Items
  <1> QED BY <1>4, <1>5

(* A refusal has its reason in the book at that moment.                    *)
LEMMA CheckStep ==
    ASSUME IInv, NEW c \in Client, CheckItems(c)
    PROVE  Book!Refuse(c) \/ (Items' = Items /\ Calls' = Calls)
  <1> USE Threads DEF IInv, At, CheckItems, Goto
  <1>1. file' = file /\ \A d \in Client \ {c} : req'[d] = req[d]
    BY DEF RequestInv
  <1>2. Calls' = [Calls EXCEPT ![c] = CallOf(c)']
    BY <1>1, OneCall DEF Calls
  <1>3. /\ req[c].at = "check" /\ req[c].items = Items /\ req[c].kind # "list"
        /\ CallOf(c) = [state |-> "asked", kind |-> req[c].kind, id |-> req[c].id, preset |-> req[c].preset]
    BY DEF LockInv, RequestInv, Informed, Items, CallOf
  <1>4. CASE Refused(c)
    <2>1. CallOf(c)' = [state |-> "refused", seen |-> NoItems]
      BY <1>4 DEF CallOf, RequestInv, Requests
    <2>2. Calls[c] = CallOf(c)
      BY DEF Calls
    <2>3. \/ \E k \in DOMAIN Items \ {req[c].id} : Items[k].label = req[c].preset.label
          \/ req[c].kind = "update" /\ req[c].id \notin DOMAIN Items
      BY <1>3, <1>4 DEF Refused, Conflicts
    <2>4. UNCHANGED Items
      BY <1>1 DEF Items
    <2> HIDE DEF CheckItems, IInv
    <2> QED BY <1>2, <1>3, <2>1, <2>2, <2>3, <2>4
            DEF Book!Refuse, Book!Answered, Book!Ended, Book!Conflict, Book!Unknown, Book!Empty, NoItems, Calls
  <1>5. CASE ~Refused(c)
    <2>1. req'[c].at = "open" /\ req'[c].kind = req[c].kind /\ req'[c].id = req[c].id
          /\ req'[c].preset = req[c].preset
      BY <1>5 DEF RequestInv, Requests
    <2>2. CallOf(c)' = CallOf(c)
      BY <1>3, <2>1 DEF CallOf
    <2> QED BY <1>1, <1>2, <2>2 DEF Calls, Items
  <1> QED BY <1>4, <1>5

(* A failing write ends the call without an effect; an answer ends it.     *)
LEMMA ReturnStep ==
    ASSUME IInv, NEW c \in Client, WriteFails(c) \/ Answer(c)
    PROVE  Book!Return(c)
  <1>1. /\ file' = file /\ \A d \in Client \ {c} : req'[d] = req[d]
        /\ req'[c] = Idle
        /\ req[c].at \in {"open", "dump", "replace", "answer", "refused"}
    BY Threads DEF IInv, RequestInv, WriteFails, Answer
  <1>2. Calls' = [Calls EXCEPT ![c] = CallOf(c)']
    BY <1>1, OneCall DEF Calls
  <1>3. CallOf(c)' = [state |-> "free"]
    BY <1>1 DEF CallOf, Idle
  <1>4. Calls[c].state \in {"asked", "done", "refused"}
    BY <1>1 DEF Calls, CallOf
  <1>5. UNCHANGED Items
    BY <1>1 DEF Items
  <1> QED BY <1>2, <1>3, <1>4, <1>5 DEF Book!Return, Book!Free, Calls

(* Replacing the file is the moment at which a create or an update takes   *)
(* effect; the constructor's empty list is the empty book.                 *)
LEMMA WriteStep ==
    ASSUME IInv, NEW c \in Thread, ReplaceFile(c)
    PROVE  (c \in Client /\ Book!Write(c)) \/ (Items' = Items /\ Calls' = Calls)
  <1>1. req[c].at = "replace" /\ Items' = NewItems(c)
    BY DEF IInv, LockInv, ReplaceFile, Replace, At, Items, File
  <1>2. \A d \in Thread \ {c} : req'[d] = req[d]
    BY DEF IInv, RequestInv, ReplaceFile
  <1>3. CASE c = Boot
    <2>1. Items' = NoItems /\ Items = NoItems
      BY <1>1, <1>3 DEF IInv, BootInv, Writing, NewItems, Items, Missing, File
    <2>2. \A d \in Client : CallOf(d)' = CallOf(d)
      BY <1>2, <1>3, Threads DEF CallOf
    <2> QED BY <2>1, <2>2 DEF Calls
  <1>4. CASE c \in Client
    <2> DEFINE id == req[c].id
               p == req[c].preset
    <2>1. /\ req[c].kind \in {"create", "update"} /\ req[c].items = Items /\ ~Refused(c)
          /\ Creates(c) => id \notin DOMAIN Items
      BY <1>1, <1>4 DEF IInv, RequestInv, LockInv, FreshInv, Informed, Writing, Pending, Items
    <2>2. Items' = [k \in DOMAIN Items \cup {id} |-> IF k = id THEN p ELSE Items[k]]
      BY <1>1, <2>1 DEF NewItems
    <2>3. ~(\E k \in DOMAIN Items \ {id} : Items[k].label = p.label)
      BY <2>1 DEF Refused, Conflicts
    <2>4. /\ req[c].kind = "update" => id \in DOMAIN Items
          /\ req[c].kind = "create" => id \notin DOMAIN Items
      BY <1>1, <2>1 DEF Refused, Creates, Pending
    <2>5. CallOf(c) = [state |-> "asked", kind |-> req[c].kind, id |-> id, preset |-> p]
      BY <1>1, <2>1 DEF CallOf
    <2>6. CallOf(c)' = [state |-> "done", seen |-> NoItems]
      BY <1>4, Threads DEF IInv, RequestInv, Requests, ReplaceFile, CallOf
    <2>7. Calls' = [Calls EXCEPT ![c] = CallOf(c)'] /\ Calls[c] = CallOf(c)
      BY <1>2, <1>4, Threads, OneCall DEF Calls
    <2> HIDE DEF id, p
    <2>8. Book!Write(c)
      BY <2>1, <2>2, <2>3, <2>4, <2>5, <2>6, <2>7
         DEF Book!Write, Book!Answered, Book!Ended, Book!Conflict, Book!Unknown, Book!Empty, NoItems, Calls
    <2> QED BY <1>4, <2>8
  <1> QED BY <1>3, <1>4, Threads

(* When the process dies all calls end and the book stays.                 *)
LEMMA CrashStep ==
    ASSUME Crash
    PROVE  Book!Crash
  <1>1. file' = file /\ \A d \in Client : req'[d] = Idle
    BY Threads DEF Crash
  <1> QED BY <1>1 DEF Book!Crash, Book!Free, Items, CallOf, Idle

(* The store does only what the book allows: each call takes effect at     *)
(* once, with the file's replacement or its reading, and keeps its effect  *)
(* through crashes and failing writes.                                     *)
THEOREM StoreIsBook == Spec => ImplementsBook
  <1>1. Init => Book!Init
    BY BookInit
  <1>2. IInv /\ [Next]_vars => [Book!Next]_(Book!vars)
    <2> SUFFICES ASSUME IInv, [Next]_vars
                 PROVE  Book!Next \/ (Items' = Items /\ Calls' = Calls)
      BY DEF Book!vars, Calls
    <2>1. CASE UNCHANGED vars
      BY <2>1 DEF vars, Items, Calls, CallOf
    <2>2. CASE OpenStore \/ OpenTmp(Boot) \/ DumpTmp(Boot)
      BY <2>2, HiddenStep, Threads
    <2>3. CASE ReplaceFile(Boot)
      BY <2>3, WriteStep, Threads DEF Book!Next
    <2>4. ASSUME NEW c \in Client, CreatePreset(c) \/ UpdatePreset(c) \/ ListPresets(c) \/ Serve(c)
          PROVE  Book!Next \/ (Items' = Items /\ Calls' = Calls)
      BY <2>4, Threads, AskStep, HiddenStep, ReadStep, CheckStep, ReturnStep, WriteStep DEF Serve, Book!Next
    <2>5. CASE Crash
      BY <2>5, CrashStep DEF Book!Next
    <2> QED BY <2>1, <2>2, <2>3, <2>4, <2>5 DEF Next
  <1> QED BY <1>1, <1>2, InvHolds, PTL DEF Spec, ImplementsBook, Book!Spec
=============================================================================
