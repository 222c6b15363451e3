------------------------- MODULE InstanceRepoProofs -------------------------
(***************************************************************************)
(* Proofs about InstanceRepo: however requests overlap, each works on      *)
(* values its record had while it was in flight (SnapshotRepo), for any    *)
(* number of instances, callers and values.                                *)
(***************************************************************************)
EXTENDS InstanceRepo, TLAPS

LEMMA BlankIsInstance == Blank \in Instance
  BY DEF Blank, Instance

LEMMA OnlyIsInstance ==
  ASSUME NEW f \in Fields, NEW v \in Values \cup {Unset}
  PROVE  /\ Only(f, v) \in Instance
         /\ Only(f, v)[f] = v
         /\ \A g \in Fields \ {f} : Only(f, v)[g] = Unset
  BY DEF Only, Blank, Instance

LEMMA AsksAreInstances ==
  ASSUME NEW op \in Ops, NEW ask \in Asks(op)
  PROVE  ask \in Instance
  <1>1. CASE op = "create"
    BY <1>1 DEF Asks
  <1>2. CASE op = "delete"
    BY <1>2, BlankIsInstance DEF Asks
  <1>3. CASE op \in {"webhook", "read"}
    BY <1>3, OnlyIsInstance DEF Asks, Fields
  <1>4. CASE op \in {"jid", "base64"}
    BY <1>4, OnlyIsInstance DEF Asks, Fields
  <1>5. QED BY <1>1, <1>2, <1>3, <1>4 DEF Ops, Changes

\* A request to change a group carries that group and nothing else.
LEMMA AsksOne ==
  ASSUME NEW op \in Changes, NEW ask \in Asks(op)
  PROVE  /\ op \in Fields
         /\ \A g \in Fields \ {op} : ask[g] = Unset
  <1>1. PICK v \in Values \cup {Unset} : ask = Only(op, v)
    BY DEF Asks, Changes
  <1>2. op \in Fields
    BY DEF Changes, Fields
  <1>3. QED BY <1>1, <1>2, OnlyIsInstance

LEMMA DefaultedIsStored ==
  ASSUME NEW ask \in Instance
  PROVE  Defaulted(ask) \in Stored
  BY RecordAssumption DEF Defaulted, Instance, Stored, Fields

LEMMA MergeIsStored ==
  ASSUME NEW old \in Stored, NEW new \in Instance
  PROVE  Merge(old, new) \in Stored
  BY DEF Merge, Instance, Stored, Fields

LEMMA WithWebhookIsInstance ==
  ASSUME NEW old \in Instance, NEW ask \in Instance
  PROVE  [old EXCEPT !["webhook"] = ask["webhook"]] \in Instance
  BY DEF Instance, Fields

LEMMA IdleTyped == Idle \in ProcType
  BY BlankIsInstance DEF Idle, ProcType

LEMMA CallTyped ==
  ASSUME TypeOK, NEW p \in Procs, NEW op \in Ops, NEW i \in Ids, NEW ask \in Asks(op),
         Call(p, op, i, ask)
  PROVE  TypeOK'
  <1>1. ask \in Instance /\ Defaulted(ask) \in Instance
    BY AsksAreInstances, DefaultedIsStored DEF Stored
  <1>2. proc' \in [Procs -> ProcType]
    BY <1>1 DEF Call, TypeOK, ProcType
  <1>3. seen' \in [Procs -> SUBSET (Stored \cup {Absent})]
    BY DEF Call, TypeOK
  <1>4. QED BY <1>2, <1>3 DEF Call, TypeOK

\* What is known of a request in flight from the steps it has done.
InFlight ==
    \A p \in Procs :
       IF proc[p].at = "idle"
         THEN proc[p] = Idle
         ELSE /\ proc[p].op \in Ops /\ proc[p].id \in Ids /\ proc[p].ask \in Asks(proc[p].op)
              /\ proc[p].at \in {"currentScan", "currentGet"} => proc[p].op = "webhook"
              /\ proc[p].op = "create" => proc[p].toUpdate = Defaulted(proc[p].ask)
              /\ proc[p].at = "set" /\ proc[p].op # "create" => proc[p].old \in Stored

Typed == TypeOK /\ InFlight

LEMMA StoredAreInstances == Stored \subseteq Instance /\ Absent \notin Stored
  BY RecordAssumption DEF Stored

\* A step moves one request on, without changing what was asked, or ends it.
LEMMA StepEffect ==
  ASSUME Typed, NEW p \in Procs, Step(p)
  PROVE  /\ proc[p].at # "idle"
         /\ proc' \in [Procs -> ProcType]
         /\ \A q \in Procs \ {p} : proc'[q] = proc[q]
         /\ \/ proc'[p] = Idle
            \/ /\ proc'[p].op = proc[p].op /\ proc'[p].id = proc[p].id
               /\ proc'[p].ask = proc[p].ask /\ proc'[p].at \notin {"idle", "currentScan"}
  <1> DEFINE i == proc[p].id
  <1>1. proc \in [Procs -> ProcType] /\ proc[p] \in ProcType
    BY DEF Typed, TypeOK
  <1>2. CASE Answer(p)
    <2>1. proc' = [proc EXCEPT ![p] = Idle]
      BY <1>2 DEF Answer
    <2>2. proc[p].at # "idle"
      BY DEF Step, ScanCurrent, Get, Scan, Listed, Set, Fail
    <2>3. QED BY <1>1, <2>1, <2>2, IdleTyped
  <1>3. CASE proc' = [proc EXCEPT ![p].at = "currentGet"] \/ proc' = [proc EXCEPT ![p].at = "get"]
             \/ proc' = [proc EXCEPT ![p].at = "set"]
    <2>1. proc[p].at # "idle"
      BY DEF Step, ScanCurrent, Get, Scan, Listed, Set, Fail
    <2>2. QED BY <1>1, <1>3, <2>1 DEF ProcType
  <1>4. CASE Get(p) /\ db[i] # Absent
    <2> DEFINE new == [db[i] EXCEPT !["webhook"] = proc[p].ask["webhook"]]
    <2>1. proc[p].at = "currentGet" /\ proc' = [proc EXCEPT ![p].at = "scan", ![p].toUpdate = new]
      BY <1>4 DEF Get
    <2>2. i \in Ids /\ proc[p].ask \in Instance
      BY <1>1, <2>1 DEF Typed, InFlight, ProcType
    <2>3. db[i] \in Instance
      BY <1>4, <2>2, StoredAreInstances DEF Typed, TypeOK
    <2>4. new \in Instance
      BY <2>2, <2>3, WithWebhookIsInstance
    <2> HIDE DEF new
    <2>5. [proc[p] EXCEPT !.at = "scan", !.toUpdate = new] \in ProcType
      BY <1>1, <2>4 DEF ProcType
    <2>6. proc' = [proc EXCEPT ![p] = [proc[p] EXCEPT !.at = "scan", !.toUpdate = new]]
      BY <2>1
    <2>7. QED BY <1>1, <2>1, <2>5, <2>6 DEF ProcType
  <1>5. CASE Listed(p) /\ ~Answer(p)
    <2>1. proc[p].at = "get" /\ proc' = [proc EXCEPT ![p].at = "set", ![p].old = db[i]]
      BY <1>5 DEF Listed, Return
    <2>2. i \in Ids
      BY <2>1 DEF Typed, InFlight
    <2>3. db[i] \in Instance \cup {Absent}
      BY <2>2, StoredAreInstances DEF Typed, TypeOK
    <2>5. [proc[p] EXCEPT !.at = "set", !.old = db[i]] \in ProcType
      BY <1>1, <2>3 DEF ProcType
    <2>6. proc' = [proc EXCEPT ![p] = [proc[p] EXCEPT !.at = "set", !.old = db[i]]]
      BY <2>1
    <2>7. QED BY <1>1, <2>1, <2>5, <2>6 DEF ProcType
  <1>6. QED
    BY <1>2, <1>3, <1>4, <1>5 DEF Step, ScanCurrent, Get, Scan, Listed, Set, Fail, Return, Goto

LEMMA CallEffect ==
  ASSUME Typed, NEW p \in Procs, NEW op \in Ops, NEW i \in Ids, NEW ask \in Asks(op),
         Call(p, op, i, ask)
  PROVE  /\ proc[p].at = "idle" /\ UNCHANGED db
         /\ \A q \in Procs \ {p} : proc'[q] = proc[q]
         /\ proc'[p].op = op /\ proc'[p].id = i /\ proc'[p].ask = ask
         /\ proc'[p].toUpdate = IF op = "create" THEN Defaulted(ask) ELSE ask
         /\ proc'[p].at = IF op = "webhook" THEN "currentScan" ELSE "scan"
         /\ seen' = [seen EXCEPT ![p] = {db[i]}]
  <1> DEFINE new == [op |-> op, id |-> i, ask |-> ask, old |-> Absent,
                     toUpdate |-> IF op = "create" THEN Defaulted(ask) ELSE ask,
                     at |-> IF op = "webhook" THEN "currentScan" ELSE "scan"]
  <1>1. proc' = [proc EXCEPT ![p] = new] /\ proc[p].at = "idle" /\ UNCHANGED db
    BY DEF Call
  <1>2. proc'[p] = new /\ \A q \in Procs \ {p} : proc'[q] = proc[q]
    <2> HIDE DEF new
    <2>1. QED BY <1>1 DEF Typed, TypeOK
  <1>3. QED BY <1>1, <1>2 DEF Call

\* What SET or DEL leaves of the record.
Result(p) ==
    CASE proc[p].op = "create" -> proc[p].toUpdate
      [] proc[p].op = "delete" -> Absent
      [] OTHER -> Merge(proc[p].old, proc[p].toUpdate)

LEMMA SetEffect ==
  ASSUME NEW p \in Procs, Set(p)
  PROVE  /\ db' = [db EXCEPT ![proc[p].id] = Result(p)]
         /\ seen' = [q \in Procs |-> IF q = p THEN {}
                                     ELSE IF proc[q].id = proc[p].id THEN seen[q] \cup {Result(p)}
                                     ELSE seen[q]]
  BY DEF Set, Result

LEMMA SetTyped ==
  ASSUME Typed, NEW p \in Procs, Set(p)
  PROVE  /\ db' \in [Ids -> Stored \cup {Absent}]
         /\ seen' \in [Procs -> SUBSET (Stored \cup {Absent})]
  <1>1. proc[p] \in ProcType /\ proc[p].at = "set"
    BY DEF Typed, TypeOK, Set
  <1>2. /\ proc[p].id \in Ids /\ proc[p].op \in Ops
        /\ proc[p].ask \in Instance /\ proc[p].toUpdate \in Instance
    BY <1>1 DEF Typed, InFlight, ProcType
  <1>3. Result(p) \in Stored \cup {Absent}
    <2>1. CASE proc[p].op = "create"
      BY <1>1, <1>2, <2>1, DefaultedIsStored DEF Result, Typed, InFlight
    <2>2. CASE proc[p].op = "delete"
      BY <2>2 DEF Result
    <2>3. CASE proc[p].op \notin {"create", "delete"}
      BY <1>1, <1>2, <2>3, MergeIsStored DEF Result, Typed, InFlight
    <2>4. QED BY <2>1, <2>2, <2>3
  <1>4. QED BY <1>2, <1>3, SetEffect DEF Typed, TypeOK

LEMMA StepTyped ==
  ASSUME Typed, NEW p \in Procs, Step(p)
  PROVE  Typed'
  <1>1. db' \in [Ids -> Stored \cup {Absent}]
    BY SetTyped DEF Step, ScanCurrent, Get, Scan, Listed, Fail, Typed, TypeOK
  <1>2. seen' \in [Procs -> SUBSET (Stored \cup {Absent})]
    <2>1. seen \in [Procs -> SUBSET (Stored \cup {Absent})]
      BY DEF Typed, TypeOK
    <2>2. Set(p) \/ UNCHANGED seen \/ seen' = [seen EXCEPT ![p] = {}]
      BY DEF Step, ScanCurrent, Get, Scan, Listed, Fail, Return, Goto
    <2>3. QED BY <2>1, <2>2, SetTyped
  <1>3. TypeOK'
    BY <1>1, <1>2, StepEffect DEF TypeOK
  <1>4. ASSUME proc'[p] # Idle
        PROVE  /\ proc'[p].at = "currentGet" => proc'[p].op = "webhook"
               /\ proc'[p].op = "create" => proc'[p].toUpdate = Defaulted(proc'[p].ask)
               /\ proc'[p].at = "set" /\ proc'[p].op # "create" => proc'[p].old \in Stored
    <2>1. proc \in [Procs -> ProcType] /\ proc[p] \in ProcType /\ proc[p].at # "idle"
      BY StepEffect DEF Typed, TypeOK
    <2>2. ~Answer(p)
      BY <1>4, <2>1 DEF Answer
    <2>3. proc[p].op = "create" => proc[p].toUpdate = Defaulted(proc[p].ask)
      BY <2>1 DEF Typed, InFlight
    <2>4. CASE ScanCurrent(p)
      BY <2>1, <2>2, <2>3, <2>4 DEF ScanCurrent, Return, Goto, Typed, InFlight, ProcType
    <2>5. CASE Get(p)
      BY <2>1, <2>2, <2>5 DEF Get, Return, Typed, InFlight, ProcType
    <2>6. CASE Scan(p)
      BY <2>1, <2>2, <2>3, <2>6 DEF Scan, Return, Goto, ProcType
    <2>7. CASE Listed(p)
      <3>1. proc[p].id \in Ids /\ db[proc[p].id] \in Stored \cup {Absent}
        BY <2>1 DEF Typed, TypeOK, InFlight
      <3>2. QED BY <2>1, <2>2, <2>3, <2>7, <3>1 DEF Listed, Return, ProcType
    <2>8. QED BY <2>2, <2>4, <2>5, <2>6, <2>7 DEF Step, Set, Fail, Return
  <1>5. InFlight'
    BY <1>4, StepEffect DEF Typed, InFlight, Idle
  <1>6. QED BY <1>3, <1>5 DEF Typed

LEMMA NextTyped == Typed /\ [Next]_vars => Typed'
  <1> SUFFICES ASSUME Typed, [Next]_vars PROVE Typed'
    OBVIOUS
  <1>1. ASSUME NEW p \in Procs, NEW op \in Ops, NEW i \in Ids, NEW ask \in Asks(op),
               Call(p, op, i, ask)
        PROVE  Typed'
    <2>1. TypeOK'
      BY <1>1, CallTyped DEF Typed
    <2>2. /\ \A q \in Procs \ {p} : proc'[q] = proc[q]
          /\ proc'[p].op = op /\ proc'[p].id = i /\ proc'[p].ask = ask
          /\ proc'[p].at \in {"currentScan", "scan"}
          /\ proc'[p].at = "currentScan" => op = "webhook"
          /\ op = "create" => proc'[p].toUpdate = Defaulted(ask)
      BY <1>1, CallEffect
    <2>3. InFlight'
      <3>1. proc'[p].at # "idle" /\ proc'[p].at \notin {"currentGet", "set"}
        BY <2>2
      <3>2. proc'[p].ask \in Asks(proc'[p].op)
        BY <2>2
      <3>3. proc'[p].op \in Ops /\ proc'[p].id \in Ids
        BY <2>2
      <3>4. proc'[p].op = "create" => proc'[p].toUpdate = Defaulted(proc'[p].ask)
        BY <2>2
      <3>5. proc'[p].at = "currentScan" => proc'[p].op = "webhook"
        BY <2>2
      <3>6. QED BY <2>2, <3>1, <3>2, <3>3, <3>4, <3>5 DEF Typed, InFlight
    <2>4. QED BY <2>1, <2>3 DEF Typed
  <1>2. CASE UNCHANGED vars
    BY <1>2 DEF vars, Typed, TypeOK, InFlight
  <1>3. QED BY <1>1, <1>2, StepTyped DEF Next

LEMMA InitTyped == Init => Typed
  <1> SUFFICES ASSUME Init PROVE Typed
    OBVIOUS
  <1>1. TypeOK
    BY IdleTyped DEF Init, TypeOK
  <1>2. InFlight
    BY DEF Init, InFlight, Idle
  <1>3. QED BY <1>1, <1>2 DEF Typed

\* Records and requests keep their types: no interleaving of any number of
\* requests stores a record without read settings.
THEOREM RepoTypeCorrect == Spec => []TypeOK
  <1>1. Typed => TypeOK
    BY DEF Typed
  <1>2. QED BY <1>1, InitTyped, NextTyped, PTL DEF Spec

(***************************************************************************)
(* What a request holds are values its record has had since the call: the  *)
(* record may change under it, but seen[p] then gains the new value.       *)
(***************************************************************************)

WithWebhook(current, ask) == [current EXCEPT !["webhook"] = ask["webhook"]]

Seen(p) ==
    LET records == seen[p] \ {Absent} IN
    /\ db[proc[p].id] \in seen[p]
    /\ proc[p].op \in Changes \ {"webhook"} => proc[p].toUpdate = proc[p].ask
    /\ proc[p].op = "webhook" /\ proc[p].at \in {"scan", "get", "set"} =>
          \E current \in records :
             proc[p].toUpdate = WithWebhook(current, proc[p].ask)
    /\ proc[p].at = "set" =>
          IF proc[p].op = "create" THEN Absent \in seen[p] ELSE proc[p].old \in records

SeenWhile == \A p \in Procs : proc[p].at # "idle" => Seen(p)

LEMMA CallSeen ==
  ASSUME Typed, SeenWhile, NEW p \in Procs, NEW op \in Ops, NEW i \in Ids,
         NEW ask \in Asks(op), Call(p, op, i, ask)
  PROVE  SeenWhile'
  <1>1. /\ UNCHANGED db
        /\ \A q \in Procs \ {p} : proc'[q] = proc[q] /\ seen'[q] = seen[q]
        /\ proc'[p].op = op /\ proc'[p].id = i /\ proc'[p].ask = ask
        /\ proc'[p].at = IF op = "webhook" THEN "currentScan" ELSE "scan"
        /\ op # "create" => proc'[p].toUpdate = ask
        /\ seen'[p] = {db[i]}
    BY CallEffect DEF Typed, TypeOK
  <1>2. Seen(p)'
    BY <1>1 DEF Seen, Changes
  <1>3. ASSUME NEW q \in Procs \ {p}, proc'[q].at # "idle"
        PROVE  Seen(q)'
    <2>1. proc'[q] = proc[q] /\ seen'[q] = seen[q] /\ db' = db
      BY <1>1
    <2>2. Seen(q)
      BY <1>3, <2>1 DEF SeenWhile
    <2>3. QED BY <2>1, <2>2 DEF Seen
  <1>4. QED BY <1>2, <1>3 DEF SeenWhile

LEMMA SetSeen ==
  ASSUME Typed, SeenWhile, NEW p \in Procs, Set(p)
  PROVE  SeenWhile'
  <1>1. proc'[p].at = "idle" /\ \A q \in Procs \ {p} : proc'[q] = proc[q]
    BY StepEffect DEF Set, Answer, Step, Idle, Typed, TypeOK
  <1>2. ASSUME NEW q \in Procs \ {p}, proc'[q].at # "idle"
        PROVE  Seen(q)'
    <2>1. Seen(q) /\ proc'[q] = proc[q]
      BY <1>1, <1>2 DEF SeenWhile
    <2>2. seen[q] \subseteq seen'[q]
      BY SetEffect
    <2>3. db'[proc[q].id] \in seen'[q]
      <3>1. proc[q].id \in Ids /\ db \in [Ids -> Stored \cup {Absent}]
        BY <1>1, <1>2 DEF Typed, TypeOK, InFlight
      <3>2. CASE proc[q].id = proc[p].id
        BY <3>1, <3>2, SetEffect
      <3>3. CASE proc[q].id # proc[p].id
        BY <2>1, <2>2, <3>1, <3>3, SetEffect DEF Seen
      <3>4. QED BY <3>2, <3>3
    <2>4. QED BY <2>1, <2>2, <2>3 DEF Seen
  <1>3. QED BY <1>1, <1>2 DEF SeenWhile

LEMMA ReadSeen ==
  ASSUME Typed, SeenWhile, NEW p \in Procs, Step(p), ~Set(p)
  PROVE  SeenWhile'
  <1>1. /\ proc \in [Procs -> ProcType] /\ proc[p] \in ProcType /\ proc[p].at # "idle"
        /\ proc[p].id \in Ids /\ proc[p].op \in Ops
        /\ \A q \in Procs \ {p} : proc'[q] = proc[q]
        /\ UNCHANGED db /\ seen \in [Procs -> SUBSET (Stored \cup {Absent})]
    BY StepEffect DEF Typed, TypeOK, InFlight, Step, ScanCurrent, Get, Scan, Listed, Fail
  <1>2. \A q \in Procs \ {p} : seen'[q] = seen[q]
    BY <1>1 DEF Step, ScanCurrent, Get, Scan, Listed, Fail, Return, Goto
  <1>3. ASSUME NEW q \in Procs \ {p}, proc'[q].at # "idle"
        PROVE  Seen(q)'
    <2>1. proc'[q] = proc[q] /\ seen'[q] = seen[q] /\ db' = db
      BY <1>1, <1>2
    <2>2. Seen(q)
      BY <1>3, <2>1 DEF SeenWhile
    <2>3. QED BY <2>1, <2>2 DEF Seen
  <1>4. ASSUME proc'[p].at # "idle"
        PROVE  Seen(p)'
    <2>1. ~Return(p) /\ Seen(p)
      BY <1>1, <1>4 DEF Return, Answer, Idle, SeenWhile
    <2>2. UNCHANGED seen
      BY <2>1 DEF Step, ScanCurrent, Get, Scan, Listed, Fail, Goto
    <2>3. proc[p].at \in {"currentScan", "currentGet"} => proc[p].op = "webhook"
      BY <1>1 DEF Typed, InFlight
    <2>4. CASE ScanCurrent(p)
      BY <1>1, <2>1, <2>2, <2>3, <2>4 DEF ScanCurrent, Goto, Seen, Changes, ProcType
    <2>5. CASE Get(p)
      <3>1. db[proc[p].id] \in seen[p] \ {Absent}
        BY <2>1, <2>5 DEF Get, Seen
      <3>2. /\ proc'[p].op = "webhook" /\ proc'[p].at = "scan"
            /\ proc'[p].id = proc[p].id /\ proc'[p].ask = proc[p].ask
            /\ proc'[p].toUpdate = WithWebhook(db[proc[p].id], proc[p].ask)
        BY <1>1, <2>1, <2>3, <2>5 DEF Get, WithWebhook, ProcType
      <3>3. QED BY <1>1, <2>2, <3>1, <3>2 DEF Seen, Changes
    <2>6. CASE Scan(p)
      <3>1. /\ proc[p].at = "scan" /\ proc'[p].op = proc[p].op /\ proc'[p].id = proc[p].id
            /\ proc'[p].ask = proc[p].ask /\ proc'[p].toUpdate = proc[p].toUpdate
            /\ \/ proc'[p].at = "get"
               \/ proc'[p].at = "set" /\ proc[p].op = "create" /\ db[proc[p].id] = Absent
        BY <1>1, <2>1, <2>6 DEF Scan, Goto, ProcType
      <3>2. QED BY <1>1, <2>1, <2>2, <3>1 DEF Seen
    <2>7. CASE Listed(p)
      <3>1. /\ proc[p].at = "get" /\ proc'[p].op = proc[p].op /\ proc'[p].id = proc[p].id
            /\ proc'[p].ask = proc[p].ask /\ proc'[p].toUpdate = proc[p].toUpdate
            /\ proc'[p].at = "set" /\ proc'[p].old = db[proc[p].id]
            /\ (db[proc[p].id] = Absent) <=> (proc[p].op = "create")
        BY <1>1, <2>1, <2>7 DEF Listed, ProcType
      <3>2. QED BY <1>1, <2>1, <2>2, <3>1 DEF Seen
    <2>8. QED BY <2>1, <2>4, <2>5, <2>6, <2>7 DEF Step, Fail
  <1>5. QED BY <1>3, <1>4 DEF SeenWhile

LEMMA NextSeen == Typed /\ SeenWhile /\ [Next]_vars => SeenWhile'
  <1> SUFFICES ASSUME Typed, SeenWhile, [Next]_vars PROVE SeenWhile'
    OBVIOUS
  <1>1. CASE UNCHANGED vars
    BY <1>1 DEF vars, SeenWhile, Seen
  <1>2. QED BY <1>1, CallSeen, SetSeen, ReadSeen DEF Next

LEMMA InitSeen == Init => SeenWhile
  BY DEF Init, SeenWhile, Idle

\* The records and requests of the abstract module are those of this one.
LEMMA SameRequests ==
  /\ Snapshots!Fields = Fields /\ Snapshots!Blank = Blank
  /\ Snapshots!Ops = Ops /\ Snapshots!Changes = Changes /\ Snapshots!Stored = Stored
  /\ \A op \in Ops : Snapshots!Asks(op) = Asks(op)
  /\ Snapshots!Nothing = [op |-> "none", id |-> NoId, ask |-> Blank]
  <1>1. Snapshots!Blank = Blank /\ Snapshots!Fields = Fields
    BY DEF Snapshots!Blank, Blank, Snapshots!Fields, Fields
  <1>2. Snapshots!Instance = Instance /\ Snapshots!Changes = Changes
    BY <1>1 DEF Snapshots!Instance, Instance, Snapshots!Changes, Changes
  <1>3. Snapshots!Ops = Ops /\ Snapshots!Stored = Stored
    BY <1>2 DEF Snapshots!Ops, Ops, Snapshots!Stored, Stored
  <1>4. \A f, v : Snapshots!Only(f, v) = Only(f, v)
    BY <1>1 DEF Snapshots!Only, Only
  <1>5. ASSUME NEW op \in Ops
        PROVE  Snapshots!Asks(op) = Asks(op)
    BY <1>1, <1>2, <1>4 DEF Snapshots!Asks, Asks
  <1>6. QED BY <1>1, <1>2, <1>3, <1>5 DEF Snapshots!Nothing

LEMMA CallRefines ==
  ASSUME Typed, NEW p \in Procs, NEW op \in Ops, NEW i \in Ids, NEW ask \in Asks(op),
         Call(p, op, i, ask)
  PROVE  Snapshots!Call(p, op, i, ask)
  <1>1. proc[p] = Idle
    BY CallEffect DEF Typed, InFlight
  <1>2. pendingBar[p] = Snapshots!Nothing
    BY <1>1, SameRequests DEF pendingBar, Idle
  <1>3. pendingBar' = [pendingBar EXCEPT ![p] = [op |-> op, id |-> i, ask |-> ask]]
    <2>1. /\ \A q \in Procs \ {p} : proc'[q] = proc[q]
          /\ proc'[p].op = op /\ proc'[p].id = i /\ proc'[p].ask = ask
      BY CallEffect
    <2>2. QED BY <2>1 DEF pendingBar
  <1>4. QED BY <1>2, <1>3, CallEffect DEF Snapshots!Call

LEMMA AnswerRefines ==
  ASSUME Typed, NEW p \in Procs, Step(p), Answer(p)
  PROVE  Snapshots!Answer(p)
  <1>1. proc[p].at # "idle" /\ \A q \in Procs \ {p} : proc'[q] = proc[q]
    BY StepEffect
  <1>2. proc[p].op # "none"
    BY <1>1 DEF Typed, InFlight, Ops, Changes
  <1>3. proc'[p] = Idle
    BY DEF Answer, Typed, TypeOK
  <1>4. pendingBar[p] # Snapshots!Nothing
    BY <1>2, SameRequests DEF pendingBar
  <1>5. pendingBar' = [pendingBar EXCEPT ![p] = Snapshots!Nothing]
    <2>1. proc'[p].op = "none" /\ proc'[p].id = NoId /\ proc'[p].ask = Blank
      BY <1>3 DEF Idle
    <2>2. QED BY <1>1, <2>1, SameRequests DEF pendingBar
  <1>6. QED BY <1>4, <1>5 DEF Snapshots!Answer

\* Update leaves the group that was asked for, if it has a value, and takes every other
\* group from the record it listed ...
LEMMA MergeIsChange ==
  ASSUME NEW op \in Changes, NEW ask \in Asks(op), NEW old \in Stored
  PROVE  Merge(old, ask) = Snapshots!Changed(op, ask, [f \in Fields |-> old])
  BY AsksOne, SameRequests DEF Merge, Snapshots!Changed

\* ... or, in UpdateWebhook, from the record that had been read before.
Origin(old, current) ==
    [f \in Fields |-> IF f = "webhook" \/ current[f] = Unset THEN old ELSE current]

LEMMA MergeIsWebhook ==
  ASSUME NEW ask, NEW old \in Stored, NEW current \in Stored
  PROVE  Merge(old, WithWebhook(current, ask))
            = Snapshots!Changed("webhook", ask, Origin(old, current))
  <1>1. current \in [Fields -> Values \cup {Unset}]
    BY DEF Stored, Instance
  <1>2. \A f \in Fields :
           WithWebhook(current, ask)[f] = IF f = "webhook" THEN ask[f] ELSE current[f]
    BY <1>1 DEF WithWebhook
  <1>3. \A f \in Fields :
           Origin(old, current)[f] = IF f = "webhook" \/ current[f] = Unset THEN old ELSE current
    BY DEF Origin
  <1>4. QED BY <1>2, <1>3, SameRequests DEF Merge, Snapshots!Changed

LEMMA SetApplies ==
  ASSUME Typed, SeenWhile, NEW p \in Procs, Set(p)
  PROVE  Snapshots!Apply(p)
  <1> DEFINE op == proc[p].op
             ask == proc[p].ask
             records == seen[p] \ {Absent}
  <1>1. proc[p].at = "set" /\ op \in Ops /\ ask \in Asks(op) /\ Seen(p)
    BY DEF Set, Typed, InFlight, SeenWhile
  <1>2. pendingBar[p].op = op /\ pendingBar[p].ask = ask
    BY DEF pendingBar
  <1>3. Snapshots!Answer(p)
    BY AnswerRefines DEF Set, Step
  <1>4. Snapshots!Put(p, Result(p))
    <2>1. \A q \in Procs : pendingBar[q].id = proc[q].id
      BY DEF pendingBar
    <2>2. QED BY <2>1, SetEffect DEF Snapshots!Put
  <1>5. CASE op = "create"
    <2>1. Absent \in seen[p]
      BY <1>1, <1>5 DEF Seen
    <2>2. Result(p) = Defaulted(ask)
      BY <1>1, <1>5 DEF Result, Typed, InFlight
    <2>3. QED BY <1>2, <1>3, <1>4, <1>5, <2>1, <2>2 DEF Snapshots!Apply, Defaulted
  <1>6. CASE op = "delete"
    BY <1>1, <1>2, <1>3, <1>4, <1>6 DEF Snapshots!Apply, Seen, Result
  <1>7. CASE op \in Changes
    <2>1. op # "create" /\ op # "delete"
      BY <1>7 DEF Changes
    <2>2. proc[p].old \in records /\ records \subseteq Stored
      BY <1>1, <2>1 DEF Seen, Typed, TypeOK
    <2>3. Result(p) = Merge(proc[p].old, proc[p].toUpdate)
      BY <2>1 DEF Result
    <2>4. CASE op # "webhook"
      <3>1. Result(p) = Snapshots!Changed(op, ask, [f \in Fields |-> proc[p].old])
        BY <1>1, <1>7, <2>2, <2>3, <2>4, MergeIsChange DEF Seen
      <3>2. op \in Snapshots!Changes \ {"webhook"}
        BY <1>7, <2>4, SameRequests
      <3>3. QED
        BY <1>2, <1>3, <1>4, <2>2, <3>1, <3>2, SameRequests DEF Snapshots!Apply
    <2>5. CASE op = "webhook"
      <3>1. PICK current \in records : proc[p].toUpdate = WithWebhook(current, ask)
        BY <1>1, <2>5 DEF Seen
      <3>2. Result(p) = Snapshots!Changed("webhook", ask, Origin(proc[p].old, current))
        BY <2>2, <2>3, <3>1, MergeIsWebhook
      <3>3. Origin(proc[p].old, current) \in [Snapshots!Fields -> records]
        BY <2>2, SameRequests DEF Origin
      <3>4. QED BY <1>2, <1>3, <1>4, <2>5, <3>2, <3>3 DEF Snapshots!Apply
    <2>6. QED BY <2>4, <2>5
  <1>8. QED BY <1>1, <1>5, <1>6, <1>7 DEF Ops

LEMMA StepRefines ==
  ASSUME Typed, SeenWhile, NEW p \in Procs, Step(p)
  PROVE  [Snapshots!Next]_<<db, pendingBar, seen>>
  <1>1. CASE Set(p)
    BY <1>1, SetApplies DEF Snapshots!Next
  <1>2. CASE Return(p) /\ UNCHANGED db
    BY <1>2, AnswerRefines DEF Snapshots!Next, Snapshots!Refuse, Return
  <1>3. CASE UNCHANGED <<db, seen>> /\ ~Answer(p)
    <2>1. proc \in [Procs -> ProcType] /\ proc' \in [Procs -> ProcType]
      BY StepEffect DEF Typed, TypeOK
    <2>2. \A q \in Procs \ {p} : proc'[q] = proc[q]
      BY StepEffect
    <2>3. proc'[p] # Idle
      BY <1>3, <2>1, <2>2 DEF Answer
    <2>4. proc'[p].op = proc[p].op /\ proc'[p].id = proc[p].id /\ proc'[p].ask = proc[p].ask
      BY <2>3, StepEffect
    <2>5. pendingBar' = pendingBar
      BY <2>2, <2>4 DEF pendingBar
    <2>6. QED BY <1>3, <2>5
  <1>4. ~Set(p) /\ ~Return(p) => UNCHANGED <<db, seen>> /\ ~Answer(p)
    <2> SUFFICES ASSUME ~Set(p), ~Return(p)
                 PROVE  UNCHANGED <<db, seen>> /\ ~Answer(p)
      OBVIOUS
    <2>1. UNCHANGED <<db, seen>>
      BY DEF Step, ScanCurrent, Get, Scan, Listed, Fail, Goto
    <2>2. proc \in [Procs -> ProcType] /\ proc[p].at # "idle" /\ proc[p] \in ProcType
      BY StepEffect DEF Typed, TypeOK
    <2>3. proc'[p].at # "idle"
      BY <2>2 DEF Step, ScanCurrent, Get, Scan, Listed, Fail, Goto, ProcType
    <2>4. QED BY <2>1, <2>2, <2>3 DEF Answer, Idle
  <1>5. QED BY <1>1, <1>2, <1>3, <1>4 DEF Step, ScanCurrent, Get, Scan, Listed, Fail

LEMMA InitRefines == Init => Snapshots!Init
  <1> SUFFICES ASSUME Init PROVE Snapshots!Init
    OBVIOUS
  <1>1. \A p \in Procs : proc[p].op = "none" /\ proc[p].id = NoId /\ proc[p].ask = Blank
    BY DEF Init, Idle
  <1>2. pendingBar = [p \in Procs |-> Snapshots!Nothing]
    BY <1>1, SameRequests DEF pendingBar
  <1>3. QED BY <1>2, SameRequests DEF Init, Snapshots!Init

\* However requests overlap, and whichever fail: each takes effect in one step, on values
\* its record had while it was in flight, or not at all.  This is all that List followed
\* by SET or DEL, without a transaction, promises to the handlers and the login observer.
THEOREM OverlapsAreSnapshots == Spec => RefinesSnapshots
  <1>1. Typed /\ SeenWhile /\ [Next]_vars => [Snapshots!Next]_<<db, pendingBar, seen>>
    <2> SUFFICES ASSUME Typed, SeenWhile, [Next]_vars
                 PROVE  [Snapshots!Next]_<<db, pendingBar, seen>>
      OBVIOUS
    <2>1. CASE UNCHANGED vars
      BY <2>1 DEF vars, pendingBar
    <2>2. ASSUME NEW p \in Procs, NEW op \in Ops, NEW i \in Ids, NEW ask \in Asks(op),
                 Call(p, op, i, ask)
          PROVE  Snapshots!Next
      BY <2>2, CallRefines, SameRequests DEF Snapshots!Next
    <2>3. QED BY <2>1, <2>2, StepRefines DEF Next
  <1>2. Init => Typed /\ SeenWhile
    BY InitTyped, InitSeen
  <1>3. Typed /\ SeenWhile /\ [Next]_vars => (Typed /\ SeenWhile)'
    BY NextTyped, NextSeen
  <1>4. QED
    BY <1>1, <1>2, <1>3, InitRefines, PTL DEF Spec, RefinesSnapshots, Snapshots!Spec

\* UpdateWebhook loses nothing unless the record changed between its call and its SET:
\* a group it was not asked for keeps its value when the record had only one value all the
\* while, whatever else is in flight.  Overlap is the only cause of the lost update.
UndisturbedKeeps ==
    [][\A p \in Procs :
          proc[p].op = "webhook" /\ Set(p) /\ seen[p] = {db[proc[p].id]} =>
             /\ db[proc[p].id] # Absent
             /\ \A f \in Fields \ {"webhook"} : db'[proc[p].id][f] = db[proc[p].id][f]]_vars

THEOREM UndisturbedWebhookKeeps == Spec => UndisturbedKeeps
  <1> DEFINE Keeps(p) ==
               proc[p].op = "webhook" /\ Set(p) /\ seen[p] = {db[proc[p].id]} =>
                  /\ db[proc[p].id] # Absent
                  /\ \A f \in Fields \ {"webhook"} : db'[proc[p].id][f] = db[proc[p].id][f]
  <1>1. ASSUME Typed, SeenWhile, NEW p \in Procs PROVE Keeps(p)
    <2> SUFFICES ASSUME proc[p].op = "webhook", Set(p), seen[p] = {db[proc[p].id]}
                 PROVE  /\ db[proc[p].id] # Absent
                        /\ \A f \in Fields \ {"webhook"} :
                              db'[proc[p].id][f] = db[proc[p].id][f]
      OBVIOUS
    <2> DEFINE record == db[proc[p].id]
    <2>1. proc[p].at = "set" /\ proc[p].id \in Ids /\ Seen(p)
      BY <1>1 DEF Set, Typed, InFlight, SeenWhile
    <2>2. record # Absent /\ proc[p].old = record
          /\ proc[p].toUpdate = WithWebhook(record, proc[p].ask)
      BY <2>1 DEF Seen
    <2>3. record \in Instance
      BY <1>1, <2>1, <2>2, StoredAreInstances DEF Typed, TypeOK
    <2>4. db'[proc[p].id] = Merge(record, proc[p].toUpdate)
      BY <1>1, <2>1, <2>2, SetEffect DEF Result, Typed, TypeOK
    <2>5. ASSUME NEW f \in Fields \ {"webhook"} PROVE db'[proc[p].id][f] = record[f]
      <3>1. proc[p].toUpdate[f] = record[f]
        BY <2>2, <2>3 DEF WithWebhook, Instance
      <3>2. QED BY <2>4, <3>1 DEF Merge
    <2>6. QED BY <2>2, <2>5
  <1>2. Init => Typed /\ SeenWhile
    BY InitTyped, InitSeen
  <1>3. Typed /\ SeenWhile /\ [Next]_vars => (Typed /\ SeenWhile)'
    BY NextTyped, NextSeen
  <1>4. Typed /\ SeenWhile => \A p \in Procs : Keeps(p)
    BY <1>1
  <1>5. QED BY <1>2, <1>3, <1>4, PTL DEF Spec, UndisturbedKeeps
=============================================================================
