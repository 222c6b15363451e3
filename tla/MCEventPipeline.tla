-------------------------- MODULE MCEventPipeline --------------------------
(***************************************************************************)
(* Instances of EventPipeline for TLC.                                     *)
(***************************************************************************)
EXTENDS EventPipeline, TLC

Event(kind, group, own, about) == [kind |-> kind, group |-> group, own |-> own, about |-> about]
FromSomebody == Event("message", FALSE, FALSE, <<"text">>)

\* A message with receipts, an event of a group that has no payload, one for the
\* instance only and one made of several entries.
Variety ==
    {FromSomebody,
     Event("receipt", TRUE, FALSE, <<"played">>),
     Event("pushName", FALSE, FALSE, <<"empty", "plain">>),
     Event("historySync", FALSE, FALSE, <<"plain", "jid">>)}
Messages == {FromSomebody}

\* Every instance has a webhook and wants everything.
Eager == {[url |-> TRUE, events |-> Subscriptions, groupsIgnore |-> FALSE, autoRead |-> FALSE]}
\* With or without a webhook of its own; nothing from groups, or nothing but messages.
Mixed ==
    {[url |-> TRUE, events |-> Subscriptions, groupsIgnore |-> TRUE, autoRead |-> TRUE],
     [url |-> FALSE, events |-> Subscriptions, groupsIgnore |-> FALSE, autoRead |-> FALSE],
     [url |-> TRUE, events |-> {"MESSAGES_UPSERT"}, groupsIgnore |-> FALSE, autoRead |-> FALSE]}
=============================================================================
