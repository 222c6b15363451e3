----------------------------- MODULE Conversion -----------------------------
(***************************************************************************)
(* What event_emitter.go makes of an event of the WhatsApp client: which   *)
(* subscription it falls under, whether the settings of the instance       *)
(* exclude it, whether it is answered with automatic receipts and whether  *)
(* the convert functions make a payload of it.                             *)
(*                                                                         *)
(* An event is a record [kind, group, own, about].  "about" is what its    *)
(* conversion looks at, as a sequence: the parts of a message, the type of *)
(* a receipt once for every message it names, the places a name is looked  *)
(* for in, in their order, or the entries of a history.  A name is         *)
(* "empty", "plain" or "jid", one that looks like the address of a chat.   *)
(***************************************************************************)
EXTENDS Naturals, Sequences

AllKinds == {"connecting", "connected", "disconnected", "message", "receipt", "businessName",
             "contact", "picture", "historySync", "groupInfo", "pushName", "unknown"}
Subscriptions == {"CONNECTION_UPDATE", "MESSAGES_UPSERT", "MESSAGES_UPDATE", "CONTACTS_UPSERT"}

\* The event name an instance subscribes to in Webhook.Events.
Subscription(kind) ==
    CASE kind \in {"connecting", "connected", "disconnected"} -> "CONNECTION_UPDATE"
      [] kind = "message" -> "MESSAGES_UPSERT"
      [] kind = "receipt" -> "MESSAGES_UPDATE"
      [] OTHER -> "CONTACTS_UPSERT"

\* canIgnoreGroup, and the stricter test of handleGroupInfoEvent.
Ignored(e, conf) ==
    /\ conf.groupsIgnore
    /\ \/ e.kind \in {"message", "receipt", "contact", "pushName"} /\ e.group
       \/ e.kind = "groupInfo"

Wanted(e, conf) ==
    /\ e.kind # "unknown"
    /\ Subscription(e.kind) \in conf.events
    /\ ~Ignored(e, conf)

\* A message of somebody else is confirmed when the instance reads by itself.
AutoRead(e, conf) == e.kind = "message" /\ ~e.own /\ conf.autoRead

\* The webhooks an event is emitted to.  Three handlers emit to the URL of the
\* instance without asking whether there is one, and to no other.
Targets(e, conf, globalUrl) ==
    IF e.kind \in {"businessName", "groupInfo", "pushName"}
      THEN {"instance"}
      ELSE {w \in {"instance", "global"} : IF w = "global" THEN globalUrl ELSE conf.url}

Among(x, seq) == \E k \in DOMAIN seq : seq[k] = x

\* The first name that is not empty.
FirstIs(name, names) ==
    \E k \in DOMAIN names : /\ names[k] = name
                            /\ \A j \in 1..(k - 1) : names[j] = "empty"

\* convertEventMessage: nothing without a body, and nothing of a status.
ConvertsMessage(parts) == parts # <<>> /\ ~Among("status", parts)

\* convertEventReceipt: only two types of receipts are passed on, with an entry for
\* every message they name: a receipt that names none makes no payload.
ConvertsReceipt(types) == Among("read", types) \/ Among("delivered", types)

\* convertContactHistorySync: nameless entries are skipped, but one whose name is
\* an address or whose id cannot be parsed gives up the whole history.
ConvertsHistory(entries) ==
    Among("plain", entries) /\ ~Among("jid", entries) /\ ~Among("badId", entries)

\* convertContact, convertGroupInfo and convertPushName: a name, and no address.
ConvertsContact(names) == FirstIs("plain", names)

\* convertBusinessName: without any name the contact is passed on nameless.
ConvertsBusinessName(names) == ~FirstIs("jid", names)

\* convertPicture: the picture has an URL.
ConvertsPicture(pic) == Among("url", pic)

Converts(e) ==
    CASE e.kind = "message" -> ConvertsMessage(e.about)
      [] e.kind = "receipt" -> ConvertsReceipt(e.about)
      [] e.kind \in {"contact", "groupInfo", "pushName"} -> ConvertsContact(e.about)
      [] e.kind = "businessName" -> ConvertsBusinessName(e.about)
      [] e.kind = "picture" -> ConvertsPicture(e.about)
      [] e.kind = "historySync" -> ConvertsHistory(e.about)
      [] OTHER -> TRUE

\* convertEventMessage and getPic ask the client of the instance; the others do
\* without a picture when there is none.
NeedsClient(e) == e.kind \in {"message", "picture"}
=============================================================================
