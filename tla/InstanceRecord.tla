--------------------------- MODULE InstanceRecord ---------------------------
(***************************************************************************)
(* The instance record of models/instance.go, as groups of settings that   *)
(* the gateway always reads and writes together, and the requests that     *)
(* create, change and delete records.                                      *)
(***************************************************************************)
CONSTANTS
    Ids,         \* instance ids
    Procs,       \* goroutines that call the repository
    Values,      \* values of a group of settings
    Unset,       \* the zero value of a group
    DefaultRead, \* automatic confirmations on, after 8 seconds
    NoId, Absent

\* RemoteJID; Webhook.Base64; Webhook.Url, ByEvents and Events; AutoReadMessages
\* and ReadDelay.  The read settings {false, 0} are their zero value.
Fields == {"jid", "base64", "webhook", "read"}
Instance == [Fields -> Values \cup {Unset}]
\* No request stores the read settings {false, 0}.
Stored == {r \in Instance : r["read"] # Unset}
Blank == [f \in Fields |-> Unset]

ASSUME RecordAssumption ==
    /\ Unset \notin Values /\ DefaultRead \in Values
    /\ NoId \notin Ids
    /\ Absent \notin Instance

Only(f, v) == [Blank EXCEPT ![f] = v]

\* The requests of an operation.  POST /instance may set everything but the
\* RemoteJID; the other endpoints and the login observer ("jid") set one group,
\* UpdateWebhook with Events = nil and UpdateReadSettings with {false, 0} among
\* them.
Changes == {"jid", "base64", "webhook", "read"}
Ops == Changes \cup {"create", "delete"}
Asks(op) ==
    CASE op = "create" -> {a \in Instance : a["jid"] = Unset}
      [] op = "delete" -> {Blank}
      [] op \in {"webhook", "read"} -> {Only(op, v) : v \in Values \cup {Unset}}
      [] op \in {"jid", "base64"} -> {Only(op, v) : v \in Values}
=============================================================================
