------------------------------ MODULE Accounts ------------------------------
(***************************************************************************)
(* What an instance may expect of its WhatsApp accounts.  An account is    *)
(* linked once, to one instance, and stays its own.  An account that an    *)
(* instance holds has a device in the store, which goes when the account   *)
(* is unlinked.  Instances record accounts of their own, and none that     *)
(* they never held; when the gateway has stopped and starts again, every   *)
(* instance holds the account it recorded if that has still got a device,  *)
(* and of the other devices, which nobody holds, none or some are left.    *)
(***************************************************************************)
EXTENDS Naturals

CONSTANTS Ids, Jids, NoId, NoJid, Absent

VARIABLES
    repo,    \* id -> Absent, or the account its record names (NoJid is none)
    devices, \* accounts that have a device in the store
    held,    \* id -> the accounts the instance holds
    owner,   \* account -> the instance it was linked to
    up       \* the gateway is running

vars == <<repo, devices, held, owner, up>>

Init ==
    /\ repo \in [Ids -> {Absent, NoJid}]
    /\ devices = {} /\ held = [i \in Ids |-> {}]
    /\ owner = [j \in Jids |-> NoId]
    /\ up = TRUE

Link(i, j) ==
    /\ up /\ owner[j] = NoId
    /\ owner' = [owner EXCEPT ![j] = i]
    /\ devices' = devices \cup {j}
    /\ held' = [held EXCEPT ![i] = @ \cup {j}]
    /\ UNCHANGED <<repo, up>>

Unlink(i, j) ==
    /\ up /\ j \in held[i]
    /\ devices' = devices \ {j}
    /\ held' = [held EXCEPT ![i] = @ \ {j}]
    /\ UNCHANGED <<repo, owner, up>>

\* The record of i is made, removed, or names an account.  That the account
\* is recorded late, when it is held no longer, does no harm.
Write(i) ==
    /\ up
    /\ \E r \in {Absent, NoJid} \cup {j \in Jids : owner[j] = i} : repo' = [repo EXCEPT ![i] = r]
    /\ UNCHANGED <<devices, held, owner, up>>

Stop ==
    /\ up /\ up' = FALSE
    /\ held' = [i \in Ids |-> {}]
    /\ UNCHANGED <<repo, devices, owner>>

Start ==
    /\ ~up /\ up' = TRUE
    /\ held' = [i \in Ids |-> {repo[i]} \cap devices]
    /\ UNION {held'[i] : i \in Ids} \subseteq devices'
    /\ devices' \subseteq devices
    /\ UNCHANGED <<repo, owner>>

Next ==
    \/ \E i \in Ids : Write(i) \/ \E j \in Jids : Link(i, j) \/ Unlink(i, j)
    \/ Stop \/ Start

Spec == Init /\ [][Next]_vars
=============================================================================
