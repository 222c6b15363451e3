---------------------------- MODULE InstanceRepo ----------------------------
(***************************************************************************)
(* repositories/instances/redis.go and the handlers of                     *)
(* server/controllers/instance.go that write instance records.  Every      *)
(* write is a read-modify-write: List (SCAN, then MGET) followed by SET or *)
(* DEL, with no transaction around them, and UpdateWebhook lists the       *)
(* record once more before it calls Update.                                *)
(***************************************************************************)
EXTENDS InstanceRecord, Naturals, FiniteSets

CONSTANT MaxSeen  \* values of a record a request has seen when another call is made (bound)

VARIABLES
    db,   \* Redis: instance_<id> -> the record or Absent
    proc, \* the callers: op, where it is, the instance, the request as it came,
          \* toUpdate (the argument of Create or Update) and the record last read
    seen  \* history: what the record of a request has been since the call

vars == <<db, proc, seen>>

Idle == [op |-> "none", at |-> "idle", id |-> NoId, ask |-> Blank,
         toUpdate |-> Blank, old |-> Absent]

\* Redis keeps its records over restarts of the process.
Init ==
    /\ db \in [Ids -> Stored \cup {Absent}]
    /\ proc = [p \in Procs |-> Idle]
    /\ seen = [p \in Procs |-> {}]

Answer(p) == proc' = [proc EXCEPT ![p] = Idle]
Return(p) == Answer(p) /\ seen' = [seen EXCEPT ![p] = {}]
Goto(p, l) == proc' = [proc EXCEPT ![p].at = l] /\ UNCHANGED seen

\* controllers.Create: confirmations are on by default.
NotDefaulted(ask) == ask   \* mutant: the record is stored as it came
Defaulted(ask) == [ask EXCEPT !["read"] = IF @ = Unset THEN DefaultRead ELSE @]

\* A handler, or the login observer, calls the repository.
Call(p, op, i, ask) ==
    /\ proc[p].at = "idle"
    /\ \A q \in Procs : Cardinality(seen[q]) <= MaxSeen
    /\ proc' = [proc EXCEPT ![p] =
          [op |-> op, id |-> i, ask |-> ask, old |-> Absent,
           toUpdate |-> IF op = "create" THEN Defaulted(ask) ELSE ask,
           at |-> IF op = "webhook" THEN "currentScan" ELSE "scan"]]
    /\ seen' = [seen EXCEPT ![p] = {db[i]}]
    /\ UNCHANGED db

\* SCAN: no key means an empty list.
ScanCurrent(p) ==
    /\ proc[p].at = "currentScan"
    /\ IF db[proc[p].id] = Absent
         THEN Return(p)
         ELSE Goto(p, "currentGet")
    /\ UNCHANGED db

\* MGET: a key that was deleted since counts as not listed.
\* UpdateWebhook hands the whole record it read to Update, with the webhook
\* of the request in it.
Get(p) ==
    LET record == db[proc[p].id] IN
    /\ proc[p].at = "currentGet"
    /\ IF record = Absent
         THEN Return(p)
         ELSE /\ proc' = [proc EXCEPT ![p].at = "scan",
                    ![p].toUpdate = [record EXCEPT !["webhook"] = proc[p].ask["webhook"]]]
              /\ UNCHANGED seen
    /\ UNCHANGED db

\* List inside Create, Update and Delete.
Scan(p) ==
    /\ proc[p].at = "scan"
    /\ IF db[proc[p].id] # Absent
         THEN Goto(p, "get")
         ELSE IF proc[p].op = "create" THEN Goto(p, "set") ELSE Return(p)
    /\ UNCHANGED db

\* Mutant: Create does not look at what it listed.
ListedUnchecked(p) ==
    LET record == db[proc[p].id] IN
    /\ proc[p].at = "get"
    /\ proc' = [proc EXCEPT ![p].at = "set", ![p].old = record]
    /\ UNCHANGED <<db, seen>>
\* The check of Create, and of Update and Delete, on what they listed.
Listed(p) ==
    LET record == db[proc[p].id] IN
    /\ proc[p].at = "get"
    /\ IF (record = Absent) <=> (proc[p].op = "create")
         THEN proc' = [proc EXCEPT ![p].at = "set", ![p].old = record] /\ UNCHANGED seen
         ELSE Return(p)
    /\ UNCHANGED db

\* Update takes over the groups of toUpdate that are set.
Merge(old, toUpdate) ==
    [f \in Fields |-> IF toUpdate[f] = Unset THEN old[f] ELSE toUpdate[f]]

\* SET or DEL.
Set(p) ==
    LET i == proc[p].id
        op == proc[p].op
        record == CASE op = "create" -> proc[p].toUpdate
                    [] op = "delete" -> Absent
                    [] OTHER -> Merge(proc[p].old, proc[p].toUpdate) IN
    /\ proc[p].at = "set"
    /\ db' = [db EXCEPT ![i] = record]
    /\ seen' = [q \in Procs |-> IF q = p THEN {}
                                ELSE IF proc[q].id = i THEN seen[q] \cup {record}
                                ELSE seen[q]]
    /\ Answer(p)

\* Redis fails, or the process ends: the steps before were reads.
Fail(p) ==
    /\ proc[p].at # "idle"
    /\ Return(p)
    /\ UNCHANGED db

Step(p) ==
    \/ ScanCurrent(p) \/ Get(p) \/ Scan(p) \/ Listed(p) \/ Set(p) \/ Fail(p)

Next ==
    \E p \in Procs :
       \/ \E op \in Ops, i \in Ids : \E ask \in Asks(op) : Call(p, op, i, ask)
       \/ Step(p)

Spec == Init /\ [][Next]_vars

(***************************************************************************)
(* Properties.                                                             *)
(***************************************************************************)

ProcType ==
    [op : Ops \cup {"none"}, id : Ids \cup {NoId}, ask : Instance, toUpdate : Instance,
     at : {"idle", "currentScan", "currentGet", "scan", "get", "set"},
     old : Instance \cup {Absent}]

\* The type invariant: among other things, a stored record always has read
\* settings, {false, 0} cannot be stored.
TypeOK ==
    /\ db \in [Ids -> Stored \cup {Absent}]
    /\ proc \in [Procs -> ProcType]
    /\ seen \in [Procs -> SUBSET (Stored \cup {Absent})]

\* The requests in flight, as the abstract repository sees them.
pendingBar == [p \in Procs |-> [op |-> proc[p].op, id |-> proc[p].id, ask |-> proc[p].ask]]

Snapshots == INSTANCE SnapshotRepo WITH pending <- pendingBar

\* However the requests of any callers overlap, none of them works on anything but
\* values the record had while it was in flight: a create takes effect only where the
\* record was absent, a change or delete only where it was there, and what a change was
\* not asked for is no older than the request.
RefinesSnapshots == Snapshots!Spec

\* UpdateWebhook does not overwrite what it was not asked to change: the other
\* settings keep the values they have, and a record that is gone stays away.
WebhookKeepsOthers ==
    [][\A p \in Procs :
          proc[p].op = "webhook" /\ Set(p) =>
             LET i == proc[p].id IN
             /\ db[i] = Absent => db'[i] = Absent
             /\ db[i] # Absent =>
                   \A f \in Fields \ {"webhook"} : db'[i][f] = db[i][f]]_vars
=============================================================================
