---------------------------- MODULE WebhookFeed ----------------------------
(***************************************************************************)
(* What the receiver of the webhooks may rely on.  A source, one event or  *)
(* notification, makes some notices due, each for one webhook, once and    *)
(* for all.  Every notice is published once, that for the instance before  *)
(* the global one, and a source closes only when it has published all that *)
(* it made due.  Notices are sent one after the other in the order they    *)
(* were published, whatever their source, and none is sent again: the feed *)
(* ends with the first one whose request fails.                            *)
(***************************************************************************)
EXTENDS Sequences

CONSTANT Sources

VARIABLES
    due,       \* <<source, webhook>>: the notices that are to be published
    closed,    \* sources that publish nothing more
    waiting,   \* published, not yet sent, in their order
    delivered, \* notices the webhooks got
    failed,    \* notices whose request failed
    alive      \* the feed has not ended

vars == <<due, closed, waiting, delivered, failed, alive>>

NoticesOf(s) == {s} \X {"instance", "global"}
Published == {waiting[k] : k \in DOMAIN waiting} \cup delivered \cup failed

Init ==
    /\ due = {} /\ closed = {} /\ waiting = <<>>
    /\ delivered = {} /\ failed = {} /\ alive = TRUE

Accept(s) ==
    /\ s \notin closed /\ due \cap NoticesOf(s) = {}
    /\ \E notices \in SUBSET NoticesOf(s) : due' = due \cup notices
    /\ UNCHANGED <<closed, waiting, delivered, failed, alive>>

Publish(s, webhook) ==
    /\ s \notin closed /\ <<s, webhook>> \in due \ Published
    /\ webhook = "instance" => <<s, "global">> \notin Published
    /\ waiting' = Append(waiting, <<s, webhook>>)
    /\ UNCHANGED <<due, closed, delivered, failed, alive>>

Close(s) ==
    /\ due \cap NoticesOf(s) \subseteq Published
    /\ closed' = closed \cup {s}
    /\ UNCHANGED <<due, waiting, delivered, failed, alive>>

Deliver ==
    /\ alive /\ waiting # <<>>
    /\ delivered' = delivered \cup {Head(waiting)}
    /\ waiting' = Tail(waiting)
    /\ UNCHANGED <<due, closed, failed, alive>>

\* A request that failed may have arrived all the same.
Break ==
    /\ alive /\ waiting # <<>>
    /\ failed' = failed \cup {Head(waiting)}
    /\ delivered' \in {delivered, delivered \cup {Head(waiting)}}
    /\ waiting' = Tail(waiting)
    /\ alive' = FALSE
    /\ UNCHANGED <<due, closed>>

Next ==
    \/ \E s \in Sources :
          Accept(s) \/ Close(s) \/ \E webhook \in {"instance", "global"} : Publish(s, webhook)
    \/ Deliver \/ Break

Spec == Init /\ [][Next]_vars
=============================================================================
