------------------------- MODULE DeviceInventoryProofs -------------------------
(***************************************************************************)
(* Theorems about DeviceInventory for any number of imports, rows, run     *)
(* requests and threads of the pool.                                       *)
(*                                                                         *)
(* An import touches nothing of another one but the inventory, so most of  *)
(* IInv is about one import: how far it is, what it has counted, and that  *)
(* no check is open any more once it has left the pool.  The inventory is  *)
(* then the list of an import for which nothing can change.                *)
(***************************************************************************)
EXTENDS DeviceInventory, FiniteSetTheorems, TLAPS

Stage == {"idle", "validate", "drain", "report", "closed"}
RunStage == {"idle", "rendering", "refused", "prepared"}

\* The variables of import i are in their domains, and its pool is not overfull.
DomainOK(i) ==
    /\ stage[i] \in Stage
    /\ check[i] \in [Entries[i] -> CheckState]
    /\ collected[i] \subseteq With(i, "ok") \cup With(i, "refused")
    /\ Cardinality(With(i, "running")) <= Workers
    /\ stream[i] \in Seq(Message)

\* How many events a stream has before its last one.
Counted(i) == IF Csv[i].streams /\ stage[i] # "idle" THEN Cardinality(collected[i]) + 1 ELSE 0

\* Import i before its answer: it counts one device after the other.
OpenOK(i) ==
    /\ stage[i] = "idle" => collected[i] = {}
    /\ stage[i] \in {"idle", "validate", "report"} => Len(stream[i]) = Counted(i)
    /\ \A k \in 1 .. Len(stream[i]) : stream[i][k].type = "progress" => stream[i][k].processed = k - 1
    /\ stage[i] = "drain" => With(i, "raised") # {}
    /\ stage[i] = "report" => collected[i] = Entries[i]

\* Import i after the pool, and with its answer given.
DoneOK(i) ==
    /\ stage[i] \in {"report", "closed"} => With(i, "queued") \cup With(i, "running") = {}
    /\ stage[i] = "closed" =>
          /\ Len(stream[i]) >= 1 /\ Last(stream[i]).type \in {"complete", "error"}
          /\ Last(stream[i]).type = "complete" =>
                /\ BadRows[i] = {} /\ With(i, "ok") = Entries[i]
                /\ Len(stream[i]) = IF Csv[i].streams THEN Cardinality(Entries[i]) + 2 ELSE 1
          /\ Last(stream[i]).type = "error" =>
                Entries[i] = {} \/ BadRows[i] # {} \/ With(i, "ok") # Entries[i]

ImportOK(i) == DomainOK(i) /\ OpenOK(i) /\ DoneOK(i)

ShapeOK ==
    /\ stage = [i \in Imports |-> stage[i]] /\ check = [i \in Imports |-> check[i]]
    /\ collected = [i \in Imports |-> collected[i]] /\ stream = [i \in Imports |-> stream[i]]
    /\ run \in [Runs -> RunStage]
    /\ todo = [r \in Runs |-> todo[r]] /\ plan = [r \in Runs |-> plan[r]]

\* Import i as it must be for its list to be the inventory.
Good(i) == stage[i] \in {"report", "closed"} /\ BadRows[i] = {} /\ With(i, "ok") = Entries[i]

InventoryOK == inventory = <<>> \/ \E i \in Imports : inventory = Profiles[i] /\ Good(i)

\* The devices that run r is to have a plan for.
Targets(r) == IF Request[r].scope = "canary" THEN {Request[r].canary} ELSE Range(Request[r].keys)

PlanOK(r) ==
    /\ run[r] \in {"rendering", "prepared"} => Request[r].canary \in Targets(r)
    /\ run[r] = "idle" => DOMAIN plan[r] = {}
    /\ run[r] = "rendering" =>
          /\ todo[r] \in Seq(Targets(r)) /\ todo[r] # <<>>
          /\ DOMAIN plan[r] \cup Range(todo[r]) = Targets(r)
    /\ run[r] = "prepared" => DOMAIN plan[r] = Targets(r)
    /\ \A key \in DOMAIN plan[r] :
          /\ Request[r].needs \subseteq Request[r].globals \cup VarsOf(plan[r][key].profile)
          /\ Request[r].verifyMode = "canary" /\ plan[r][key].verified => key = Request[r].canary

IInv ==
    /\ ShapeOK /\ InventoryOK
    /\ \A i \in Imports : ImportOK(i)
    /\ \A r \in Runs : PlanOK(r)

-----------------------------------------------------------------------------
(* The rows of a file are finitely many.                                   *)
LEMMA EntriesFinite ==
    ASSUME NEW i \in Imports
    PROVE  /\ Entries[i] \in SUBSET Nat /\ IsFiniteSet(Entries[i])
           /\ \A S \in SUBSET Entries[i] : IsFiniteSet(S) /\ Cardinality(S) \in Nat
           /\ Csv[i].header = FALSE => Entries[i] = {}
  <1>1. Len(Rows(i)) \in Nat /\ DOMAIN Rows(i) = 1 .. Len(Rows(i))
    BY CsvAssumption DEF Rows
  <1>2. IsFiniteSet(1 .. Len(Rows(i)))
    BY <1>1, FS_Interval
  <1>3. Entries[i] = IF Csv[i].header THEN RowsRead(i) \ BadRows[i] ELSE {}
    BY DEF Entries
  <1>4. Entries[i] \in SUBSET (1 .. Len(Rows(i)))
    BY <1>1, <1>3 DEF RowsRead
  <1>5. \A S \in SUBSET (1 .. Len(Rows(i))) : IsFiniteSet(S) /\ Cardinality(S) \in Nat
    BY <1>2, FS_Subset, FS_CardinalityType
  <1> QED BY <1>1, <1>3, <1>4, <1>5

(* The ranks of a finite set of rows are 1 to the number of the rows.      *)
LEMMA RankFacts ==
    ASSUME NEW S \in SUBSET Nat, IsFiniteSet(S), NEW k \in 1 .. Cardinality(S)
    PROVE  \E n \in S : Rank(S, n) = k
  <1> DEFINE upTo(n) == {m \in S : m <= n}
             rank == [n \in S |-> Rank(S, n)]
  <1>1. \A n \in S : IsFiniteSet(upTo(n)) /\ Cardinality(upTo(n)) \in Nat
                     /\ Cardinality(upTo(n)) <= Cardinality(S) /\ n \in upTo(n)
    <2> SUFFICES ASSUME NEW n \in S
                 PROVE  IsFiniteSet(upTo(n)) /\ Cardinality(upTo(n)) \in Nat
                        /\ Cardinality(upTo(n)) <= Cardinality(S) /\ n \in upTo(n)
      OBVIOUS
    <2>1. upTo(n) \in SUBSET S
      OBVIOUS
    <2>2. n \in upTo(n)
      OBVIOUS
    <2> HIDE DEF upTo
    <2> QED BY <2>1, <2>2, FS_Subset, FS_CardinalityType
  <1>2. \A n \in S : rank[n] = Cardinality(upTo(n))
    BY DEF Rank
  <1>3. Cardinality(S) \in Nat /\ IsFiniteSet(1 .. Cardinality(S))
        /\ Cardinality(1 .. Cardinality(S)) = Cardinality(S)
    BY FS_CardinalityType, FS_Interval
  <1>4. \A n \in S : rank[n] \in 1 .. Cardinality(S)
    <2> SUFFICES ASSUME NEW n \in S PROVE rank[n] \in 1 .. Cardinality(S)
      OBVIOUS
    <2>1. Cardinality(upTo(n)) # 0
      BY <1>1, FS_EmptySet
    <2> HIDE DEF upTo, rank
    <2> QED BY <1>1, <1>2, <1>3, <2>1
  <1>5. \A m, n \in S : m < n => rank[m] < rank[n]
    <2> SUFFICES ASSUME NEW m \in S, NEW n \in S, m < n PROVE rank[m] < rank[n]
      OBVIOUS
    <2>1. upTo(m) \in SUBSET upTo(n) /\ n \notin upTo(m)
      <3>1. m \in Nat /\ n \in Nat /\ \A x \in S : x \in Nat
        OBVIOUS
      <3>2. ~(n <= m) /\ \A x \in S : x <= m => x <= n
        BY <3>1
      <3> QED BY <3>2
    <2>2. IsFiniteSet(upTo(n)) /\ n \in upTo(n) /\ Cardinality(upTo(m)) \in Nat /\ Cardinality(upTo(n)) \in Nat
      BY <1>1
    <2> HIDE DEF upTo, rank
    <2>3. Cardinality(upTo(m)) <= Cardinality(upTo(n)) /\ Cardinality(upTo(m)) # Cardinality(upTo(n))
      BY <2>1, <2>2, FS_Subset
    <2> QED BY <1>2, <2>2, <2>3
  <1>6. rank \in Injection(S, 1 .. Cardinality(S))
    <2>1. rank \in [S -> 1 .. Cardinality(S)]
      BY <1>4
    <2>2. \A m, n \in S : rank[m] = rank[n] => m = n
      <3> SUFFICES ASSUME NEW m \in S, NEW n \in S, rank[m] = rank[n] PROVE m = n
        OBVIOUS
      <3>1. m \in Nat /\ n \in Nat /\ rank[m] \in Nat /\ rank[n] \in Nat
        BY <1>4, <1>3
      <3> HIDE DEF rank
      <3> QED BY <1>5, <3>1
    <2> HIDE DEF rank
    <2> QED BY <2>1, <2>2 DEF Injection, IsInjective
  <1> HIDE DEF rank
  <1>7. rank \in Surjection(S, 1 .. Cardinality(S))
    BY <1>3, <1>6, FS_Injection
  <1>8. PICK n \in S : rank[n] = k
    BY <1>7 DEF Surjection
  <1> QED BY <1>8 DEF rank

(* The list made of an import is made of its own rows.                     *)
LEMMA ProfilesFacts ==
    ASSUME NEW i \in Imports
    PROVE  /\ DOMAIN Profiles[i] = 1 .. Cardinality(Entries[i])
           /\ \A n \in DOMAIN Profiles[i] : Profiles[i][n][1] = i /\ Profiles[i][n][2] \in Entries[i]
           /\ Entries[i] = {} => Profiles[i] = <<>>
  <1> DEFINE row(k) == CHOOSE n \in Entries[i] : Rank(Entries[i], n) = k
  <1>1. Profiles[i] = [k \in 1 .. Cardinality(Entries[i]) |-> <<i, row(k)>>]
    BY DEF Profiles
  <1>2. \A k \in 1 .. Cardinality(Entries[i]) : row(k) \in Entries[i]
    BY EntriesFinite, RankFacts
  <1> HIDE DEF row
  <1>3. Entries[i] = {} => Cardinality(Entries[i]) = 0
    BY FS_EmptySet
  <1>4. ASSUME Entries[i] = {} PROVE Profiles[i] = <<>>
    <2>1. 1 .. Cardinality(Entries[i]) = {}
      BY <1>3, <1>4
    <2> QED BY <1>1, <2>1
  <1> QED BY <1>1, <1>2, <1>4

-----------------------------------------------------------------------------
(* The imports do not touch each other, nor a run.                         *)
LEMMA Apart ==
    ASSUME ShapeOK, NEW i \in Imports, ImportStep(i)
    PROVE  /\ \A j \in Imports \ {i} : UNCHANGED <<stage[j], check[j], collected[j], stream[j]>>
           /\ ShapeOK' /\ UNCHANGED preparing
  BY DEF ShapeOK, ImportStep, Parse, BeginCheck, EndCheck, Collect, Replace, Report, ReportException,
         Go, Put, Progress, preparing

(* An import is as good as its own variables.                              *)
LEMMA SameImport ==
    ASSUME NEW i \in Imports, ImportOK(i), UNCHANGED <<stage[i], check[i], collected[i], stream[i]>>
    PROVE  ImportOK(i)'
  BY DEF ImportOK, DomainOK, OpenOK, Counted, DoneOK, With

(* An event put into a stream is its last one and changes none before it.  *)
LEMMA PutFacts ==
    ASSUME ShapeOK, NEW i \in Imports, stream[i] \in Seq(Message), NEW e \in Message, Put(i, e)
    PROVE  /\ stream'[i] \in Seq(Message) /\ Len(stream'[i]) = Len(stream[i]) + 1 /\ Len(stream[i]) \in Nat
           /\ stream'[i][Len(stream[i]) + 1] = e /\ Last(stream'[i]) = e
           /\ \A k \in 1 .. Len(stream[i]) : stream'[i][k] = stream[i][k]
  <1>1. stream'[i] = Append(stream[i], e)
    BY DEF ShapeOK, Put
  <1> QED BY <1>1 DEF Last

(* A bad header closes the import, a good one opens its pool.              *)
LEMMA ParseStep ==
    ASSUME ShapeOK, NEW i \in Imports, ImportOK(i), Parse(i)
    PROVE  ImportOK(i)'
  <1>1. /\ stage[i] = "idle" /\ collected[i] = {} /\ Len(stream[i]) = 0 /\ stream[i] \in Seq(Message)
        /\ UNCHANGED <<check, collected>>
    BY DEF Parse, ImportOK, DomainOK, OpenOK, Counted
  <1>2. Event("start", 0) \in Message /\ Event("error", 0) \in Message
    BY DEF Event, Message
  <1>3. Cardinality({}) = 0
    BY FS_EmptySet
  <1>4. CASE Csv[i].header
    <2>1. stage'[i] = "validate"
      BY <1>4 DEF Parse, Go, ShapeOK
    <2>2. CASE Csv[i].streams
      <3>1. Put(i, Event("start", 0))
        BY <1>4, <2>2 DEF Parse, Progress
      <3>2. /\ stream'[i] \in Seq(Message) /\ Len(stream'[i]) = Len(stream[i]) + 1
            /\ stream'[i][Len(stream[i]) + 1] = Event("start", 0)
        BY <1>1, <1>2, <3>1, PutFacts
      <3>3. Len(stream'[i]) = 1 /\ stream'[i][1].type = "start"
        BY <1>1, <3>2 DEF Event
      <3>4. DomainOK(i)'
        BY <1>1, <2>1, <3>2 DEF ImportOK, DomainOK, With, Stage
      <3>5. Len(stream'[i]) = Counted(i)'
        <4>1. collected'[i] = {}
          BY <1>1
        <4>2. Cardinality(collected'[i]) = 0
          BY <1>3, <4>1
        <4> QED BY <2>1, <2>2, <3>3, <4>2 DEF Counted
      <3>6. \A k \in 1 .. Len(stream'[i]) : stream'[i][k].type # "progress"
        BY <3>3
      <3>7. OpenOK(i)' /\ DoneOK(i)'
        BY <2>1, <3>5, <3>6 DEF OpenOK, DoneOK
      <3> QED BY <3>4, <3>7 DEF ImportOK
    <2>3. CASE ~Csv[i].streams
      <3>1. UNCHANGED stream
        BY <1>4, <2>3 DEF Parse, Progress
      <3> QED BY <1>1, <2>1, <2>3, <3>1 DEF ImportOK, DomainOK, OpenOK, Counted, DoneOK, With, Stage
    <2> QED BY <2>2, <2>3
  <1>5. CASE ~Csv[i].header
    <2>1. stage'[i] = "closed" /\ Put(i, Event("error", 0))
      BY <1>5 DEF Parse, Go, ShapeOK
    <2>2. Entries[i] = {}
      BY <1>5 DEF Entries
    <2>3. /\ stream'[i] \in Seq(Message) /\ Len(stream'[i]) = Len(stream[i]) + 1
          /\ stream'[i][Len(stream[i]) + 1] = Event("error", 0) /\ Last(stream'[i]) = Event("error", 0)
      BY <1>1, <1>2, <2>1, PutFacts
    <2>4. /\ stream'[i] \in Seq(Message) /\ Len(stream'[i]) = 1 /\ stream'[i][1].type = "error"
          /\ Last(stream'[i]).type = "error"
      BY <1>1, <2>3 DEF Event
    <2> QED BY <1>1, <2>1, <2>2, <2>4 DEF ImportOK, DomainOK, OpenOK, Counted, DoneOK, With, Stage
  <1> QED BY <1>4, <1>5

(* A device taken from the queue makes the pool fuller by one thread.      *)
LEMMA BeginCheckStep ==
    ASSUME ShapeOK, NEW i \in Imports, ImportOK(i), BeginCheck(i)
    PROVE  ImportOK(i)'
  <1>1. PICK n \in With(i, "queued") : check' = [check EXCEPT ![i][n] = "running"]
    BY DEF BeginCheck
  <1>2. /\ stage[i] \in {"validate", "drain"} /\ FreeThread(i) /\ UNCHANGED <<stage, collected, stream>>
        /\ check[i] \in [Entries[i] -> CheckState] /\ n \in Entries[i] /\ check[i][n] = "queued"
    BY <1>1 DEF BeginCheck, ImportOK, DomainOK, With
  <1>3. check'[i] = [check[i] EXCEPT ![n] = "running"]
    BY <1>1 DEF ShapeOK
  <1>4. /\ check'[i] \in [Entries[i] -> CheckState] /\ check'[i][n] = "running"
        /\ \A m \in Entries[i] : m # n => check'[i][m] = check[i][m]
    BY <1>2, <1>3 DEF CheckState
  <1>5. With(i, "running")' = With(i, "running") \cup {n}
    BY <1>2, <1>4 DEF With
  <1>6. \A s \in {"ok", "refused", "raised"} : With(i, s)' = With(i, s)
    BY <1>2, <1>4 DEF With
  <1>7. Cardinality(With(i, "running")') <= Workers
    <2>1. IsFiniteSet(With(i, "running")) /\ Cardinality(With(i, "running")) \in Nat
      BY EntriesFinite DEF With
    <2>2. Cardinality(With(i, "running")) < Workers
      BY <1>2 DEF FreeThread
    <2> QED BY <1>5, <2>1, <2>2, FS_AddElement, WorkersAssumption
  <1>8. DomainOK(i)'
    BY <1>2, <1>4, <1>6, <1>7 DEF ImportOK, DomainOK
  <1>9. OpenOK(i)' /\ DoneOK(i)'
    BY <1>2, <1>6 DEF ImportOK, OpenOK, Counted, DoneOK
  <1> QED BY <1>8, <1>9 DEF ImportOK

(* A check that ends frees its thread and is never begun again.            *)
LEMMA EndCheckStep ==
    ASSUME ShapeOK, NEW i \in Imports, ImportOK(i), EndCheck(i)
    PROVE  ImportOK(i)'
  <1>1. PICK n \in With(i, "running"), v \in {"ok", "refused", "raised"} :
            check' = [check EXCEPT ![i][n] = v]
    BY DEF EndCheck
  <1>2. /\ UNCHANGED <<stage, collected, stream>>
        /\ check[i] \in [Entries[i] -> CheckState] /\ n \in Entries[i] /\ check[i][n] = "running"
    BY <1>1 DEF EndCheck, ImportOK, DomainOK, With
  <1>3. check'[i] = [check[i] EXCEPT ![n] = v]
    BY <1>1 DEF ShapeOK
  <1>4. /\ check'[i] \in [Entries[i] -> CheckState] /\ check'[i][n] = v
        /\ \A m \in Entries[i] : m # n => check'[i][m] = check[i][m]
    BY <1>2, <1>3 DEF CheckState
  <1>5. With(i, "running")' = With(i, "running") \ {n}
    BY <1>2, <1>4 DEF With
  <1>6. \A s \in {"ok", "refused", "raised"} : With(i, s) \subseteq With(i, s)'
    BY <1>2, <1>4 DEF With
  <1>7. Cardinality(With(i, "running")') <= Workers
    <2>1. IsFiniteSet(With(i, "running")) /\ Cardinality(With(i, "running")) \in Nat
      BY EntriesFinite DEF With
    <2>2. Cardinality(With(i, "running")) <= Workers
      BY DEF ImportOK, DomainOK
    <2> QED BY <1>1, <1>5, <2>1, <2>2, FS_RemoveElement, WorkersAssumption
  <1>8. DomainOK(i)'
    BY <1>2, <1>4, <1>6, <1>7 DEF ImportOK, DomainOK
  <1>9. stage[i] \notin {"report", "closed"}
    BY <1>1 DEF ImportOK, DoneOK
  <1>10. OpenOK(i)' /\ DoneOK(i)'
    BY <1>2, <1>6, <1>9 DEF ImportOK, OpenOK, Counted, DoneOK
  <1> QED BY <1>8, <1>10 DEF ImportOK

(* The loop over as_completed counts a device, or leaves by the exception  *)
(* of one.                                                                 *)
LEMMA CollectStep ==
    ASSUME ShapeOK, NEW i \in Imports, ImportOK(i), Collect(i)
    PROVE  ImportOK(i)'
  <1>1. PICK n \in (With(i, "ok") \cup With(i, "refused") \cup With(i, "raised")) \ collected[i] :
            IF check[i][n] = "raised"
            THEN Go(i, "drain") /\ UNCHANGED <<collected, stream>>
            ELSE /\ collected' = [collected EXCEPT ![i] = @ \cup {n}]
                 /\ Progress(i, Event("progress", Cardinality(collected'[i])))
                 /\ UNCHANGED stage
    BY DEF Collect
  <1>2. /\ stage[i] = "validate" /\ UNCHANGED check /\ n \in Entries[i]
        /\ stream[i] \in Seq(Message) /\ Len(stream[i]) = Counted(i)
        /\ \A s : With(i, s)' = With(i, s)
    BY <1>1 DEF Collect, ImportOK, DomainOK, OpenOK, With
  <1>3. CASE check[i][n] = "raised"
    <2>1. stage'[i] = "drain" /\ UNCHANGED <<collected, stream>>
      BY <1>1, <1>3 DEF Go, ShapeOK
    <2>2. n \in With(i, "raised")
      BY <1>1, <1>2, <1>3 DEF With
    <2>3. DomainOK(i)'
      BY <1>2, <2>1 DEF ImportOK, DomainOK, Stage
    <2> QED BY <1>2, <2>1, <2>2, <2>3 DEF ImportOK, OpenOK, DoneOK
  <1>4. CASE check[i][n] # "raised"
    <2>1. /\ collected'[i] = collected[i] \cup {n} /\ n \notin collected[i]
          /\ Progress(i, Event("progress", Cardinality(collected'[i]))) /\ UNCHANGED stage
      BY <1>1, <1>4 DEF ShapeOK
    <2>2. collected'[i] \subseteq With(i, "ok") \cup With(i, "refused")
      BY <1>1, <1>4, <2>1 DEF ImportOK, DomainOK, With
    <2>3. /\ Cardinality(collected'[i]) = Cardinality(collected[i]) + 1
          /\ Cardinality(collected[i]) \in Nat
      <3>1. collected[i] \in SUBSET Entries[i]
        BY DEF ImportOK, DomainOK, With
      <3>2. IsFiniteSet(collected[i]) /\ Cardinality(collected[i]) \in Nat
        BY <3>1, EntriesFinite
      <3> QED BY <2>1, <3>2, FS_AddElement
    <2>4. Event("progress", Cardinality(collected'[i])) \in Message
      BY <2>3 DEF Event, Message
    <2>5. CASE Csv[i].streams
      <3>1. Put(i, Event("progress", Cardinality(collected'[i])))
        BY <2>1, <2>5 DEF Progress
      <3>2. /\ stream'[i] \in Seq(Message) /\ Len(stream'[i]) = Len(stream[i]) + 1 /\ Len(stream[i]) \in Nat
            /\ stream'[i][Len(stream[i]) + 1] = Event("progress", Cardinality(collected'[i]))
            /\ \A k \in 1 .. Len(stream[i]) : stream'[i][k] = stream[i][k]
        BY <1>2, <2>4, <3>1, PutFacts
      <3>3. Len(stream[i]) = Cardinality(collected[i]) + 1
        BY <1>2, <2>5 DEF Counted
      <3>4. \A k \in 1 .. Len(stream'[i]) : stream'[i][k].type = "progress" => stream'[i][k].processed = k - 1
        <4> SUFFICES ASSUME NEW k \in 1 .. Len(stream'[i]), stream'[i][k].type = "progress"
                     PROVE  stream'[i][k].processed = k - 1
          OBVIOUS
        <4>1. CASE k \in 1 .. Len(stream[i])
          BY <3>2, <4>1 DEF ImportOK, OpenOK
        <4>2. CASE k = Len(stream[i]) + 1
          BY <2>3, <3>2, <3>3, <4>2 DEF Event
        <4> QED BY <3>2, <4>1, <4>2
      <3>5. DomainOK(i)'
        BY <1>2, <2>1, <2>2, <3>2 DEF ImportOK, DomainOK
      <3>6. Len(stream'[i]) = Counted(i)'
        BY <1>2, <2>1, <2>3, <2>5, <3>2, <3>3 DEF Counted
      <3> QED BY <1>2, <2>1, <3>4, <3>5, <3>6 DEF ImportOK, OpenOK, DoneOK
    <2>6. CASE ~Csv[i].streams
      <3>1. UNCHANGED stream
        BY <2>1, <2>6 DEF Progress
      <3>2. DomainOK(i)'
        BY <1>2, <2>1, <2>2, <3>1 DEF ImportOK, DomainOK
      <3> QED BY <1>2, <2>1, <2>6, <3>1, <3>2 DEF ImportOK, OpenOK, Counted, DoneOK
    <2> QED BY <2>5, <2>6
  <1> QED BY <1>3, <1>4

(* The pool is empty when the inventory is replaced.                       *)
LEMMA ReplaceStep ==
    ASSUME ShapeOK, NEW i \in Imports, ImportOK(i), Replace(i)
    PROVE  /\ ImportOK(i)'
           /\ ~HasFailures(i) => Good(i)'
  <1>1. /\ stage[i] = "validate" /\ stage'[i] = "report" /\ collected[i] = Entries[i]
        /\ UNCHANGED <<check, collected, stream>>
    BY DEF Replace, Go, ShapeOK
  <1>2. \A s : With(i, s)' = With(i, s)
    BY <1>1 DEF With
  <1>3. With(i, "ok") \cup With(i, "refused") = Entries[i]
    BY <1>1 DEF ImportOK, DomainOK, With
  <1>4. With(i, "queued") \cup With(i, "running") = {}
    BY <1>3 DEF With
  <1>5. DomainOK(i)'
    BY <1>1, <1>2 DEF ImportOK, DomainOK, Stage
  <1>6. OpenOK(i)' /\ DoneOK(i)'
    BY <1>1, <1>2, <1>4 DEF ImportOK, OpenOK, Counted, DoneOK
  <1>7. ~HasFailures(i) => Good(i)'
    BY <1>1, <1>2, <1>3 DEF HasFailures, Good
  <1> QED BY <1>5, <1>6, <1>7 DEF ImportOK

(* The last event of a stream, in both ways to give it.                    *)
LEMMA ReportStep ==
    ASSUME ShapeOK, NEW i \in Imports, ImportOK(i), Report(i) \/ ReportException(i)
    PROVE  ImportOK(i)' /\ stage[i] \in {"report", "drain"} /\ stage'[i] = "closed"
  <1> DEFINE e == IF stage[i] = "report" THEN EndOfStream(i) ELSE Event("error", 0)
  <1>1. /\ stage[i] \in {"report", "drain"} /\ stage'[i] = "closed"
        /\ Put(i, e) /\ UNCHANGED <<check, collected>>
        /\ stage[i] = "drain" => With(i, "queued") \cup With(i, "running") = {}
    BY DEF Report, ReportException, Go, ShapeOK
  <1>2. Cardinality(Entries[i]) \in Nat
    BY EntriesFinite
  <1>3. /\ e \in Message /\ e.type \in {"complete", "error"}
        /\ e.type = "complete" => stage[i] = "report" /\ ~HasFailures(i)
        /\ e.type = "error" => stage[i] = "drain" \/ HasFailures(i)
    BY <1>1, <1>2 DEF EndOfStream, Event, Message
  <1> HIDE DEF e
  <1>4. stream[i] \in Seq(Message)
    BY DEF ImportOK, DomainOK
  <1>5. /\ stream'[i] \in Seq(Message) /\ Len(stream'[i]) = Len(stream[i]) + 1 /\ Len(stream[i]) \in Nat
        /\ stream'[i][Len(stream[i]) + 1] = e /\ Last(stream'[i]) = e
        /\ \A k \in 1 .. Len(stream[i]) : stream'[i][k] = stream[i][k]
    BY <1>1, <1>3, <1>4, PutFacts
  <1>6. \A s : With(i, s)' = With(i, s)
    BY <1>1 DEF With
  <1>7. DomainOK(i)'
    BY <1>1, <1>5, <1>6 DEF ImportOK, DomainOK, Stage
  <1>8. \A k \in 1 .. Len(stream'[i]) : stream'[i][k].type = "progress" => stream'[i][k].processed = k - 1
    <2> SUFFICES ASSUME NEW k \in 1 .. Len(stream'[i]), stream'[i][k].type = "progress"
                 PROVE  stream'[i][k].processed = k - 1
      OBVIOUS
    <2>1. k \in 1 .. Len(stream[i])
      BY <1>3, <1>5
    <2> QED BY <1>5, <2>1 DEF ImportOK, OpenOK
  <1>9. OpenOK(i)'
    BY <1>1, <1>8 DEF OpenOK
  <1>10. With(i, "queued") \cup With(i, "running") = {}
    BY <1>1 DEF ImportOK, DoneOK
  <1>11. ASSUME e.type = "complete"
         PROVE  /\ BadRows[i] = {} /\ With(i, "ok") = Entries[i]
                /\ Len(stream'[i]) = IF Csv[i].streams THEN Cardinality(Entries[i]) + 2 ELSE 1
    <2>1. stage[i] = "report" /\ BadRows[i] = {} /\ With(i, "refused") = {} /\ collected[i] = Entries[i]
      BY <1>3, <1>11 DEF HasFailures, ImportOK, OpenOK
    <2>2. With(i, "ok") = Entries[i]
      BY <2>1 DEF ImportOK, DomainOK, With
    <2>3. Len(stream[i]) = IF Csv[i].streams THEN Cardinality(Entries[i]) + 1 ELSE 0
      BY <2>1 DEF ImportOK, OpenOK, Counted
    <2> QED BY <1>2, <1>5, <2>1, <2>2, <2>3
  <1>12. ASSUME e.type = "error"
         PROVE  BadRows[i] # {} \/ With(i, "ok") # Entries[i]
    <2>1. CASE stage[i] = "drain"
      BY <2>1 DEF ImportOK, OpenOK, With
    <2>2. CASE HasFailures(i)
      BY <2>2 DEF HasFailures, With
    <2> QED BY <1>3, <1>12, <2>1, <2>2
  <1>13. DoneOK(i)'
    <2>1. Len(stream'[i]) >= 1
      BY <1>5
    <2> QED BY <1>1, <1>3, <1>5, <1>6, <1>10, <1>11, <1>12, <2>1 DEF DoneOK
  <1> QED BY <1>1, <1>7, <1>9, <1>13 DEF ImportOK

-----------------------------------------------------------------------------
(* Nothing is open any more at an import whose list may be the inventory.  *)
LEMMA GoodStays ==
    ASSUME ShapeOK, NEW i \in Imports, ImportOK(i), Good(i), NEW j \in Imports, ImportStep(j)
    PROVE  Good(i)'
  <1>1. CASE j # i
    BY <1>1, Apart DEF Good, With
  <1>2. CASE j = i
    <2>1. stage[i] \in {"report", "closed"} /\ With(i, "queued") = {} /\ With(i, "running") = {}
      BY DEF Good, ImportOK, DoneOK
    <2>2. Report(i) \/ ReportException(i)
      BY <1>2, <2>1 DEF ImportStep, Parse, BeginCheck, EndCheck, Collect, Replace
    <2>3. UNCHANGED check /\ stage'[i] = "closed"
      BY <2>2 DEF Report, ReportException, Go, ShapeOK
    <2> QED BY <2>3 DEF Good, With
  <1> QED BY <1>1, <1>2

(* An import leaves the inventory alone or replaces it by its own list.    *)
LEMMA InventoryStep ==
    ASSUME IInv, NEW i \in Imports, ImportStep(i)
    PROVE  InventoryOK'
  <1>1. CASE UNCHANGED inventory
    BY <1>1, GoodStays DEF IInv, InventoryOK
  <1>2. CASE Replace(i)
    <2>1. CASE HasFailures(i)
      BY <1>1, <1>2, <2>1 DEF Replace
    <2>2. CASE ~HasFailures(i)
      <3>1. inventory' = Profiles[i]
        BY <1>2, <2>2 DEF Replace
      <3>2. ShapeOK /\ ImportOK(i)
        BY DEF IInv
      <3>3. Good(i)'
        BY <1>2, <2>2, <3>2, ReplaceStep
      <3> QED BY <3>1, <3>3 DEF InventoryOK
    <2> QED BY <2>1, <2>2
  <1> QED BY <1>1, <1>2 DEF ImportStep, Parse, BeginCheck, EndCheck, Collect, Report, ReportException

(* Each step of an import keeps the invariant.                             *)
LEMMA ImportsStep ==
    ASSUME IInv, NEW i \in Imports, ImportStep(i)
    PROVE  IInv'
  <1>1. ShapeOK' /\ UNCHANGED preparing /\ \A j \in Imports \ {i} : ImportOK(j)'
    BY Apart, SameImport DEF IInv
  <1>2. ImportOK(i)'
    <2>1. ShapeOK /\ ImportOK(i)
      BY DEF IInv
    <2> QED BY <2>1, ParseStep, BeginCheckStep, EndCheckStep, CollectStep, ReplaceStep, ReportStep DEF ImportStep
  <1>3. \A r \in Runs : PlanOK(r)'
    BY <1>1 DEF IInv, PlanOK, preparing
  <1> QED BY <1>1, <1>2, <1>3, InventoryStep DEF IInv

-----------------------------------------------------------------------------
(* A run request that is accepted has its canary among its targets.        *)
LEMMA ResolveStep ==
    ASSUME ShapeOK, NEW r \in Runs, PlanOK(r), Resolve(r)
    PROVE  PlanOK(r)'
  <1> DEFINE keys == Request[r].keys
             canaries == {k \in DOMAIN keys : keys[k] = Request[r].canary}
  <1>1. run[r] = "idle" /\ plan' = plan /\ DOMAIN plan[r] = {}
    BY DEF Resolve, PlanOK
  <1>2. CASE run' = [run EXCEPT ![r] = "refused"] /\ UNCHANGED todo
    <2>1. run'[r] = "refused"
      BY <1>2 DEF ShapeOK
    <2> QED BY <1>1, <2>1 DEF PlanOK
  <1>3. CASE /\ CanaryListed(r) /\ run' = [run EXCEPT ![r] = "rendering"]
             /\ todo' = [todo EXCEPT ![r] = IF Request[r].scope = "canary" THEN CanaryOnly(r) ELSE keys]
    <2>1. /\ run'[r] = "rendering"
          /\ todo'[r] = IF Request[r].scope = "canary" THEN CanaryOnly(r) ELSE keys
      BY <1>3 DEF ShapeOK
    <2>2. keys \in Seq(Range(keys)) /\ Len(keys) \in Nat /\ DOMAIN keys = 1 .. Len(keys)
      BY RequestAssumption
    <2>3. Request[r].canary \in Range(keys) /\ canaries # {}
      BY <1>3 DEF CanaryListed, Range
    <2>4. CASE Request[r].scope = "canary"
      <3>1. Cardinality(canaries) \in Nat /\ Cardinality(canaries) # 0
        <4>1. IsFiniteSet(1 .. Len(keys))
          BY <2>2, FS_Interval
        <4>2. IsFiniteSet(canaries)
          BY <2>2, <4>1, FS_Subset
        <4> QED BY <2>3, <4>2, FS_EmptySet, FS_CardinalityType
      <3>2. CanaryOnly(r) = [n \in 1 .. Cardinality(canaries) |-> Request[r].canary]
        BY DEF CanaryOnly
      <3> HIDE DEF canaries
      <3>3. CanaryOnly(r) \in Seq({Request[r].canary}) /\ Len(CanaryOnly(r)) = Cardinality(canaries)
        BY <3>1, <3>2
      <3>4. 1 \in DOMAIN CanaryOnly(r) /\ CanaryOnly(r) # <<>>
        BY <3>1, <3>2, <3>3
      <3>5. Range(CanaryOnly(r)) = {Request[r].canary}
        BY <3>2, <3>4 DEF Range
      <3> QED BY <1>1, <2>1, <2>4, <3>3, <3>4, <3>5 DEF PlanOK, Targets
    <2>5. CASE Request[r].scope # "canary"
      <3>1. keys # <<>>
        BY <2>3 DEF Range
      <3> QED BY <1>1, <2>1, <2>2, <2>3, <2>5, <3>1 DEF PlanOK, Targets
    <2> QED BY <2>4, <2>5
  <1> QED BY <1>2, <1>3 DEF Resolve

(* Each turn of the loop moves a device from what is to do to the plan.    *)
LEMMA RenderStep ==
    ASSUME ShapeOK, NEW r \in Runs, PlanOK(r), Render(r)
    PROVE  PlanOK(r)'
  <1> DEFINE key == Head(todo[r])
             p == ProfileOf(key)
  <1>1. /\ run[r] = "rendering" /\ todo[r] \in Seq(Targets(r)) /\ todo[r] # <<>>
        /\ DOMAIN plan[r] \cup Range(todo[r]) = Targets(r) /\ Request[r].canary \in Targets(r)
    BY DEF Render, PlanOK
  <1>2. CASE ~Rendered(r, p)
    <2>1. run'[r] = "refused" /\ plan' = plan
      BY <1>2 DEF Render, ShapeOK
    <2> QED BY <2>1 DEF PlanOK
  <1>3. CASE Rendered(r, p)
    <2>1. /\ plan'[r] = [k \in DOMAIN plan[r] \cup {key} |->
                IF k = key THEN [profile |-> p, verified |-> Verified(r, key, p)] ELSE plan[r][k]]
          /\ todo'[r] = Tail(todo[r])
          /\ run'[r] = IF Tail(todo[r]) = <<>> THEN "prepared" ELSE "rendering"
      BY <1>1, <1>3 DEF Render, ShapeOK
    <2>2. DOMAIN plan'[r] = DOMAIN plan[r] \cup {key}
      BY <2>1
    <2>3. /\ Tail(todo[r]) \in Seq(Targets(r)) /\ key \in Targets(r)
          /\ Range(todo[r]) = {key} \cup Range(Tail(todo[r]))
      <3>1. /\ Tail(todo[r]) \in Seq(Targets(r)) /\ key = todo[r][1] /\ key \in Targets(r)
            /\ Len(Tail(todo[r])) = Len(todo[r]) - 1 /\ Len(todo[r]) \in Nat /\ Len(todo[r]) >= 1
            /\ \A n \in 1 .. Len(Tail(todo[r])) : Tail(todo[r])[n] = todo[r][n + 1]
            /\ DOMAIN todo[r] = 1 .. Len(todo[r]) /\ DOMAIN Tail(todo[r]) = 1 .. Len(Tail(todo[r]))
        BY <1>1
      <3>2. ASSUME NEW n \in DOMAIN todo[r] PROVE todo[r][n] \in {key} \cup Range(Tail(todo[r]))
        <4>1. CASE n = 1
          BY <3>1, <4>1
        <4>2. CASE n # 1
          <5>1. n - 1 \in DOMAIN Tail(todo[r]) /\ Tail(todo[r])[n - 1] = todo[r][n]
            BY <3>1, <4>2
          <5> QED BY <5>1 DEF Range
        <4> QED BY <4>1, <4>2
      <3>3. ASSUME NEW n \in DOMAIN Tail(todo[r]) PROVE Tail(todo[r])[n] \in Range(todo[r])
        <4>1. n + 1 \in DOMAIN todo[r] /\ Tail(todo[r])[n] = todo[r][n + 1]
          BY <3>1
        <4> QED BY <4>1 DEF Range
      <3>4. key \in Range(todo[r])
        BY <3>1 DEF Range
      <3> QED BY <3>1, <3>2, <3>3, <3>4 DEF Range
    <2>4. DOMAIN plan'[r] \cup Range(todo'[r]) = Targets(r)
      BY <1>1, <2>1, <2>2, <2>3
    <2>5. ASSUME NEW k \in DOMAIN plan'[r]
          PROVE  /\ Request[r].needs \subseteq Request[r].globals \cup VarsOf(plan'[r][k].profile)
                 /\ Request[r].verifyMode = "canary" /\ plan'[r][k].verified => k = Request[r].canary
      <3>1. CASE k = key
        <4>1. plan'[r][k] = [profile |-> p, verified |-> Verified(r, key, p)]
          BY <2>1, <2>2, <2>5, <3>1
        <4>2. plan'[r][k].profile = p /\ plan'[r][k].verified = Verified(r, key, p)
          BY <4>1
        <4> HIDE DEF key, p
        <4> QED BY <1>3, <3>1, <4>2 DEF Rendered, Verified
      <3>2. CASE k # key
        <4>1. k \in DOMAIN plan[r] /\ plan'[r][k] = plan[r][k]
          BY <2>1, <2>2, <2>5, <3>2
        <4> QED BY <4>1 DEF PlanOK
      <3> QED BY <3>1, <3>2
    <2>6. run'[r] = "prepared" => Range(todo'[r]) = {}
      BY <2>1 DEF Range
    <2>7. run'[r] = "rendering" => todo'[r] \in Seq(Targets(r)) /\ todo'[r] # <<>>
      BY <2>1, <2>3
    <2>8. run'[r] \in {"prepared", "rendering"}
      BY <2>1
    <2> QED BY <1>1, <2>4, <2>5, <2>6, <2>7, <2>8 DEF PlanOK
  <1> QED BY <1>2, <1>3

(* Preparations read the inventory and do not touch each other.            *)
LEMMA RunsStep ==
    ASSUME IInv, NEW r \in Runs, Resolve(r) \/ Render(r)
    PROVE  IInv'
  <1>1. ShapeOK /\ PlanOK(r)
    BY DEF IInv
  <1>2. /\ UNCHANGED <<inventory, importing>> /\ ShapeOK'
        /\ \A q \in Runs \ {r} : UNCHANGED <<run[q], todo[q], plan[q]>>
    BY <1>1 DEF Resolve, Render, ShapeOK, RunStage, importing
  <1>3. \A q \in Runs : PlanOK(q)'
    <2>1. PlanOK(r)'
      BY <1>1, ResolveStep, RenderStep
    <2>2. ASSUME NEW q \in Runs \ {r} PROVE PlanOK(q)'
      BY <1>2, <2>2 DEF IInv, PlanOK
    <2> QED BY <2>1, <2>2
  <1>4. \A i \in Imports : ImportOK(i)'
    BY <1>2, SameImport DEF IInv, importing
  <1>5. InventoryOK'
    BY <1>2 DEF IInv, InventoryOK, Good, With, importing
  <1> QED BY <1>2, <1>3, <1>4, <1>5 DEF IInv

(* At first nothing is imported, checked, said or planned.                 *)
LEMMA InitInv == Init => IInv
  <1> SUFFICES ASSUME Init PROVE IInv
    OBVIOUS
  <1>1. ShapeOK
    BY DEF Init, ShapeOK, RunStage
  <1>2. InventoryOK
    BY DEF Init, InventoryOK
  <1>3. ASSUME NEW i \in Imports PROVE ImportOK(i)
    <2>1. /\ stage[i] = "idle" /\ collected[i] = {} /\ stream[i] = <<>>
          /\ check[i] = [n \in Entries[i] |-> "queued"]
      BY DEF Init
    <2>2. With(i, "running") = {} /\ Cardinality({}) = 0
      BY <2>1, FS_EmptySet DEF With
    <2>3. Cardinality(With(i, "running")) <= Workers
      BY <2>2, WorkersAssumption
    <2>4. check[i] \in [Entries[i] -> CheckState]
      BY <2>1 DEF CheckState
    <2>5. stream[i] \in Seq(Message)
      BY <2>1
    <2>6. DomainOK(i)
      BY <2>1, <2>3, <2>4, <2>5 DEF DomainOK, Stage
    <2> QED BY <2>1, <2>6 DEF ImportOK, OpenOK, Counted, DoneOK
  <1>4. ASSUME NEW r \in Runs PROVE PlanOK(r)
    BY DEF Init, PlanOK
  <1> QED BY <1>1, <1>2, <1>3, <1>4 DEF IInv

(* A reset empties the inventory and touches nothing else.                 *)
LEMMA StepInv == IInv /\ [Next]_vars => IInv'
  <1> SUFFICES ASSUME IInv, [Next]_vars PROVE IInv'
    OBVIOUS
  <1>1. CASE \E i \in Imports : ImportStep(i)
    BY <1>1, ImportsStep
  <1>2. CASE \E r \in Runs : Resolve(r) \/ Render(r)
    BY <1>2, RunsStep
  <1>3. CASE Clear \/ UNCHANGED vars
    <2>1. UNCHANGED <<importing, preparing>> /\ (inventory' = <<>> \/ inventory' = inventory)
      BY <1>3 DEF Clear, vars
    <2>2. \A i \in Imports : ImportOK(i)'
      BY <2>1, SameImport DEF IInv, importing
    <2>3. ShapeOK' /\ InventoryOK'
      BY <2>1 DEF IInv, ShapeOK, InventoryOK, Good, With, importing, preparing
    <2>4. \A r \in Runs : PlanOK(r)'
      BY <2>1 DEF IInv, PlanOK, preparing
    <2> QED BY <2>2, <2>3, <2>4 DEF IInv
  <1> QED BY <1>1, <1>2, <1>3 DEF Next

(* Therefore it holds for ever.                                            *)
LEMMA InvHolds == Spec => []IInv
  BY InitInv, StepInv, PTL DEF Spec

-----------------------------------------------------------------------------
(* TypeOK: every variable stays in its domain and no validation pool runs  *)
(* more checks at once than IMPORT_VALIDATION_WORKERS.                     *)
THEOREM PoolAndTypes == Spec => []TypeOK
  <1>1. IInv => TypeOK
    <2> SUFFICES ASSUME IInv PROVE TypeOK
      OBVIOUS
    <2>1. \A n \in DOMAIN inventory : inventory[n][2] \in Entries[inventory[n][1]]
      <3>1. CASE inventory = <<>>
        BY <3>1
      <3>2. CASE \E i \in Imports : inventory = Profiles[i]
        BY <3>2, ProfilesFacts
      <3> QED BY <3>1, <3>2 DEF IInv, InventoryOK
    <2>2. stage \in [Imports -> Stage] /\ run \in [Runs -> RunStage]
      BY DEF IInv, ShapeOK, ImportOK, DomainOK
    <2>3. ASSUME NEW i \in Imports
          PROVE  /\ check[i] \in [Entries[i] -> CheckState] /\ collected[i] \subseteq Entries[i]
                 /\ Cardinality(With(i, "running")) <= Workers
                 /\ \A k \in DOMAIN stream[i] : stream[i][k] \in Message
      <3>1. DomainOK(i)
        BY DEF IInv, ImportOK
      <3>2. collected[i] \subseteq Entries[i]
        BY <3>1 DEF DomainOK, With
      <3>3. \A k \in DOMAIN stream[i] : stream[i][k] \in Message
        BY <3>1 DEF DomainOK
      <3> QED BY <3>1, <3>2, <3>3 DEF DomainOK
    <2> QED BY <2>1, <2>2, <2>3 DEF TypeOK, Stage, RunStage
  <1> QED BY <1>1, InvHolds, PTL

(* AllOrNothing: whatever imports run at once, the inventory is empty or   *)
(* the complete list of one import none of whose rows failed.              *)
THEOREM InventoryIsOneImport == Spec => []AllOrNothing
  <1>1. IInv => AllOrNothing
    BY DEF IInv, InventoryOK, Good, AllOrNothing
  <1> QED BY <1>1, InvHolds, PTL

(* StreamTruthful: progress counts one by one, an answer "complete" means  *)
(* that every row is a device that answered, and an import that answered   *)
(* with an error has nothing in the inventory.                             *)
THEOREM AnswersAreTrue == Spec => []StreamTruthful
  <1>1. IInv => StreamTruthful
    <2> SUFFICES ASSUME IInv, NEW i \in Imports
                 PROVE  /\ \A k \in DOMAIN stream[i] :
                              stream[i][k].type = "progress" => stream[i][k].processed = k - 1
                        /\ stage[i] = "closed" =>
                             IF Last(stream[i]).type = "complete"
                             THEN /\ BadRows[i] = {} /\ With(i, "ok") = Entries[i]
                                  /\ Len(stream[i]) = IF Csv[i].streams THEN Cardinality(Entries[i]) + 2 ELSE 1
                             ELSE \A n \in DOMAIN inventory : inventory[n][1] # i
      BY DEF StreamTruthful
    <2>1. ImportOK(i) /\ InventoryOK
      BY DEF IInv
    <2>2. DOMAIN stream[i] = 1 .. Len(stream[i])
      BY <2>1 DEF ImportOK, DomainOK
    <2>3. ASSUME stage[i] = "closed", Last(stream[i]).type # "complete", NEW n \in DOMAIN inventory
          PROVE  inventory[n][1] # i
      <3>1. Entries[i] = {} \/ BadRows[i] # {} \/ With(i, "ok") # Entries[i]
        BY <2>1, <2>3 DEF ImportOK, DoneOK
      <3>2. inventory # <<>>
        BY <2>3
      <3>3. PICK j \in Imports : inventory = Profiles[j] /\ Good(j)
        BY <2>1, <3>2 DEF InventoryOK
      <3>4. Entries[j] # {} /\ BadRows[j] = {} /\ With(j, "ok") = Entries[j] /\ inventory[n][1] = j
        BY <3>2, <3>3, ProfilesFacts DEF Good
      <3> QED BY <3>1, <3>4
    <2>4. stage[i] = "closed" /\ Last(stream[i]).type = "complete" =>
             /\ BadRows[i] = {} /\ With(i, "ok") = Entries[i]
             /\ Len(stream[i]) = IF Csv[i].streams THEN Cardinality(Entries[i]) + 2 ELSE 1
      BY <2>1 DEF ImportOK, DoneOK
    <2>5. \A k \in DOMAIN stream[i] : stream[i][k].type = "progress" => stream[i][k].processed = k - 1
      BY <2>1, <2>2 DEF ImportOK, OpenOK
    <2> QED BY <2>3, <2>4, <2>5
  <1> QED BY <1>1, InvHolds, PTL

(* PlanFitsEngine: what prepare_run hands to the engine has commands for   *)
(* every target and none with an open variable, the canary among them,     *)
(* although the inventory may change from one device to the next.          *)
THEOREM PlansFit == Spec => []PlanFitsEngine
  <1>1. IInv => PlanFitsEngine
    BY DEF IInv, PlanOK, Targets, PlanFitsEngine
  <1> QED BY <1>1, InvHolds, PTL
=============================================================================
