---------------------------- MODULE SnapshotRepo ----------------------------
(***************************************************************************)
(* What a caller of interfaces.InstanceRepository may rely on, whoever     *)
(* else writes the same record at the same time.  A request works on       *)
(* values that the record has had since the request was made: it creates   *)
(* only what was absent then, deletes and changes only what was there, and *)
(* a change leaves every other group of settings at a value of that time.  *)
(* It touches no other instance, and a request that is refused has no      *)
(* effect.  So it does exactly what was asked when nobody else changes the *)
(* record meanwhile; otherwise what others wrote may be lost.              *)
(***************************************************************************)
EXTENDS InstanceRecord

VARIABLES
    db,      \* id -> its record or Absent
    pending, \* the request each caller waits for
    seen     \* what the record of that request has been since the call

Nothing == [op |-> "none", id |-> NoId, ask |-> Blank]

Init ==
    /\ db \in [Ids -> Stored \cup {Absent}]
    /\ pending = [p \in Procs |-> Nothing]
    /\ seen = [p \in Procs |-> {}]

Call(p, op, i, ask) ==
    /\ pending[p] = Nothing
    /\ pending' = [pending EXCEPT ![p] = [op |-> op, id |-> i, ask |-> ask]]
    /\ seen' = [seen EXCEPT ![p] = {db[i]}]
    /\ UNCHANGED db

Answer(p) ==
    /\ pending[p] # Nothing
    /\ pending' = [pending EXCEPT ![p] = Nothing]

\* The record of the instance of p is replaced, which everybody who waits sees.
Put(p, record) ==
    LET i == pending[p].id IN
    /\ db' = [db EXCEPT ![i] = record]
    /\ seen' = [q \in Procs |-> IF q = p THEN {}
                                ELSE IF pending[q].id = i THEN seen[q] \cup {record}
                                ELSE seen[q]]

\* The group that is asked for, if its value is not the zero one, and the others as
\* they are in the records they come from.
Changed(op, ask, from) ==
    [f \in Fields |-> IF f = op /\ ask[f] # Unset THEN ask[f] ELSE from[f][f]]

\* Creating turns the confirmations on unless the request says otherwise.  Only
\* UpdateWebhook looks at the record more than once.
Apply(p) ==
    LET op == pending[p].op
        ask == pending[p].ask
        records == seen[p] \ {Absent} IN
    /\ \/ /\ op = "create" /\ Absent \in seen[p]
          /\ Put(p, [ask EXCEPT !["read"] = IF @ = Unset THEN DefaultRead ELSE @])
       \/ op = "delete" /\ records # {} /\ Put(p, Absent)
       \/ /\ op \in Changes \ {"webhook"}
          /\ \E r \in records : Put(p, Changed(op, ask, [f \in Fields |-> r]))
       \/ /\ op = "webhook"
          /\ \E from \in [Fields -> records] : Put(p, Changed(op, ask, from))
    /\ Answer(p)

\* Not found, already there, or Redis failed.
Refuse(p) ==
    /\ Answer(p)
    /\ seen' = [seen EXCEPT ![p] = {}]
    /\ UNCHANGED db

Next ==
    \E p \in Procs :
       \/ \E op \in Ops, i \in Ids : \E ask \in Asks(op) : Call(p, op, i, ask)
       \/ Apply(p)
       \/ Refuse(p)

Spec == Init /\ [][Next]_<<db, pending, seen>>
=============================================================================
