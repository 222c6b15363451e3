--------------------------- MODULE EventPipeline ---------------------------
(***************************************************************************)
(* The way of a WhatsApp event to the webhooks (event_emitter.go): the     *)
(* client's dispatcher calls Handle, which takes a slot of the handler     *)
(* semaphore and starts a goroutine; the goroutine looks the instance up,  *)
(* starts the automatic receipts of a message, converts the event and puts *)
(* one item per webhook, that of the instance and the global one, into the *)
(* bounded emitter channel; the one emitter goroutine posts the items.     *)
(*                                                                         *)
(* <<i, n>> names the n-th event that the library hands to Handle for      *)
(* instance i.  <<i, 0>> is the "connecting" notification that LoadMiau    *)
(* sends from a goroutine of its own when it reconnects i.                 *)
(***************************************************************************)
EXTENDS Conversion, FiniteSets

CONSTANTS
    Ids,           \* instances
    MaxEvents,     \* events of one instance (bound)
    Events,        \* the events that occur, see Conversion (bound)
    Configs,       \* settings an instance may have: url (is there one?), events,
                   \* groupsIgnore, autoRead
    GlobalUrl,     \* is there an env.GlobalWebhookURL?
    SemaphoreSize, \* env.HandlerSemaphoreSize
    BufferSize,    \* env.EmitterBufferSize
    MaxOpen,       \* connections the process may have open (bound)
    Faults         \* what may fail: "lookup", "client", "post"

ASSUME PipelineAssumption ==
    /\ Events \subseteq [kind : AllKinds \ {"connecting"}, group : BOOLEAN, own : BOOLEAN,
                         about : Seq(STRING)]
    /\ Configs \subseteq [url : BOOLEAN, groupsIgnore : BOOLEAN, autoRead : BOOLEAN,
                          events : SUBSET Subscriptions]
    /\ MaxEvents \in Nat /\ SemaphoreSize \in Nat \ {0} /\ BufferSize \in Nat \ {0}
    /\ MaxOpen \in Nat \ {0}
    /\ Faults \subseteq {"lookup", "client", "post"} /\ GlobalUrl \in BOOLEAN

VARIABLES
    config,   \* id -> the cached models.Instance
    task,     \* <<id, n>> -> the event, where its handler is, the webhooks it has
              \* still to emit to, and its two receipts
    queue,    \* the emitter channel: <<<<id, n>>, webhook>>
    alive,    \* startEmitter has not returned
    posting,  \* the item it is posting, if any
    open,     \* response bodies it has not closed
    delivered,\* the items the webhooks got
    failed    \* history: the items whose request failed

vars == <<config, task, queue, alive, posting, open, delivered, failed>>
emitter == <<alive, posting, open, delivered, failed>>

Places == Ids \X (0..MaxEvents)
NoEvent == [kind |-> "unknown", group |-> FALSE, own |-> FALSE, about |-> <<>>]
Connecting == [NoEvent EXCEPT !.kind = "connecting"]
NoTask == [event |-> NoEvent, at |-> "none", todo |-> {}, delivery |-> "none", read |-> "none"]

Init ==
    /\ config \in [Ids -> Configs]
    /\ \E reconnected \in SUBSET Ids :
          task = [s \in Places |->
             IF s[2] = 0 /\ s[1] \in reconnected
               THEN [NoTask EXCEPT !.event = Connecting, !.at = "load"] ELSE NoTask]
    /\ queue = <<>>
    /\ alive = TRUE /\ posting = {} /\ open = 0
    /\ delivered = {} /\ failed = {}

Goto(s, l) == task' = [task EXCEPT ![s].at = l]

\* The client calls the handler, which blocks until it has taken a slot.  The
\* library dispatches some events from goroutines of their own, so several calls
\* may be blocked.
Dispatch(i, n) ==
    /\ task[<<i, n>>].at = "none"
    /\ n > 1 => task[<<i, n - 1>>].at # "none"
    /\ \E e \in Events :
          task' = [task EXCEPT ![<<i, n>>] = [NoTask EXCEPT !.event = e, !.at = "acquire"]]
    /\ UNCHANGED <<config, queue, emitter>>

Holding == {s \in Places : s[2] # 0 /\ task[s].at \in {"load", "convert", "emit"}}

\* The slot of the semaphore is taken before the goroutine is started.
Acquire(s) ==
    /\ task[s].at = "acquire" /\ Cardinality(Holding) < SemaphoreSize
    /\ Goto(s, "load")
    /\ UNCHANGED <<config, queue, emitter>>

\* getInstanceCached and the tests of the handlers.  A message that is to be
\* confirmed gets two goroutines, one of them with a timer.  The lookup may find
\* no instance.
Route(s) ==
    LET e == task[s].event
        conf == config[s[1]] IN
    /\ task[s].at = "load"
    /\ \/ /\ Wanted(e, conf)
          /\ task' = [task EXCEPT ![s].at = "convert",
                                  ![s].delivery = IF AutoRead(e, conf) THEN "due" ELSE @,
                                  ![s].read = IF AutoRead(e, conf) THEN "timer" ELSE @]
       \/ ~Wanted(e, conf) /\ Goto(s, "done")
       \/ "lookup" \in Faults /\ Goto(s, "dropped")
    /\ UNCHANGED <<config, queue, emitter>>

\* The conversion, which downloads the file of a message or a picture; clients.Load
\* may find no client.
Convert(s) ==
    LET e == task[s].event IN
    /\ task[s].at = "convert"
    /\ \/ /\ Converts(e)
          /\ task' = [task EXCEPT ![s].at = "emit",
                                  ![s].todo = Targets(e, config[s[1]], GlobalUrl)]
       \/ ~Converts(e) /\ Goto(s, "done")
       \/ "client" \in Faults /\ NeedsClient(e) /\ Goto(s, "dropped")
    /\ UNCHANGED <<config, queue, emitter>>

\* Mutant: the global webhook comes first.
FollowingGlobal(todo) == IF "global" \in todo THEN "global" ELSE "instance"
\* The instance comes before the global webhook.
Following(todo) == IF "instance" \in todo THEN "instance" ELSE "global"

\* Mutant: the send does not wait for room in the channel.
EmitUnbounded(s) ==
    /\ task[s].at = "emit"
    /\ \/ /\ task[s].todo # {}
          /\ queue' = Append(queue, <<s, Following(task[s].todo)>>)
          /\ task' = [task EXCEPT ![s].todo = @ \ {Following(@)}]
       \/ task[s].todo = {} /\ Goto(s, "done") /\ UNCHANGED queue
    /\ UNCHANGED <<config, emitter>>
\* Mutant: an item is dropped when there is no room.
EmitDrops(s) ==
    /\ task[s].at = "emit"
    /\ \/ /\ task[s].todo # {}
          /\ queue' = IF Len(queue) < BufferSize THEN Append(queue, <<s, Following(task[s].todo)>>)
                                                 ELSE queue
          /\ task' = [task EXCEPT ![s].todo = @ \ {Following(@)}]
       \/ task[s].todo = {} /\ Goto(s, "done") /\ UNCHANGED queue
    /\ UNCHANGED <<config, emitter>>
\* Mutant: the instance gets the item of the global webhook, too.
EmitBoth(s) ==
    /\ task[s].at = "emit"
    /\ \/ /\ task[s].todo # {} /\ Len(queue) < BufferSize
          /\ queue' = Append(queue, <<s, "instance">>)
          /\ task' = [task EXCEPT ![s].todo = @ \ {Following(@)}]
       \/ task[s].todo = {} /\ Goto(s, "done") /\ UNCHANGED queue
    /\ UNCHANGED <<config, emitter>>
\* emit: a blocking send; the deferred receive frees the slot at the end.
Emit(s) ==
    /\ task[s].at = "emit"
    /\ \/ /\ task[s].todo # {} /\ Len(queue) < BufferSize
          /\ queue' = Append(queue, <<s, Following(task[s].todo)>>)
          /\ task' = [task EXCEPT ![s].todo = @ \ {Following(@)}]
       \/ task[s].todo = {} /\ Goto(s, "done") /\ UNCHANGED queue
    /\ UNCHANGED <<config, emitter>>

\* A receipt is sent through the client the instance has by then.  When there is none,
\* or MarkRead fails, that is logged: the receipt has been tried, and is not tried again.
SendDeliveryReceipt(s) ==
    /\ task[s].delivery = "due"
    /\ task' = [task EXCEPT ![s].delivery = "tried"]
    /\ UNCHANGED <<config, queue, emitter>>

\* Mutant: the receipt waits for the handler.
SendReadReceiptLast(s) ==
    /\ task[s].read = "timer" /\ task[s].at = "done"
    /\ task' = [task EXCEPT ![s].read = "tried"]
    /\ UNCHANGED <<config, queue, emitter>>
\* The timer of instance.ReadDelay, or of eight seconds, has fired.
SendReadReceipt(s) ==
    /\ task[s].read = "timer"
    /\ task' = [task EXCEPT ![s].read = "tried"]
    /\ UNCHANGED <<config, queue, emitter>>

Receive ==
    /\ alive /\ posting = {} /\ queue # <<>>
    /\ posting' = {Head(queue)}
    /\ queue' = Tail(queue)
    /\ UNCHANGED <<config, task, alive, open, delivered, failed>>

\* A request to the empty URL cannot be made.
Reachable(item) == item[2] = "global" \/ config[item[1][1]].url

\* httpClient.Do answers, with whatever status; nothing is sent again.  The body is
\* closed when startEmitter returns: one that was not read to its end keeps its
\* connection until then.
PostOk ==
    /\ \E item \in posting : Reachable(item)
    /\ open < MaxOpen /\ open' \in {open, open + 1}
    /\ delivered' = delivered \cup posting
    /\ posting' = {}
    /\ UNCHANGED <<config, task, queue, alive, failed>>

\* A request that cannot be made, or fails, for one because no more connection can
\* be opened: startEmitter returns.  A request that timed out may have arrived.
PostFail ==
    /\ \E item \in posting :
          /\ "post" \in Faults \/ ~Reachable(item) \/ open = MaxOpen
          /\ \/ UNCHANGED delivered
             \/ Reachable(item) /\ open < MaxOpen /\ delivered' = delivered \cup posting
    /\ failed' = failed \cup posting
    /\ posting' = {}
    /\ alive' = FALSE /\ open' = 0
    /\ UNCHANGED <<config, task, queue>>

Handler(s) == Acquire(s) \/ Route(s) \/ Convert(s) \/ Emit(s)
Emitter == Receive \/ PostOk \/ PostFail

Next ==
    \/ \E i \in Ids, n \in 1..MaxEvents : Dispatch(i, n)
    \/ \E s \in Places : Handler(s) \/ SendDeliveryReceipt(s) \/ SendReadReceipt(s)
    \/ Emitter

Spec == Init /\ [][Next]_vars

\* Goroutines are scheduled, timers fire and every request ends (the client has a
\* timeout).
FairSpec ==
    /\ Spec /\ WF_vars(Emitter)
    /\ \A s \in Places :
          WF_vars(Handler(s)) /\ WF_vars(SendDeliveryReceipt(s)) /\ WF_vars(SendReadReceipt(s))

(***************************************************************************)
(* Properties.                                                             *)
(***************************************************************************)

Webhooks == {"instance", "global"}
Items == Places \X Webhooks
TaskType == [event : Events \cup {NoEvent, Connecting}, todo : SUBSET Webhooks,
             at : {"none", "acquire", "load", "convert", "emit", "done", "dropped"},
             delivery : {"none", "due", "tried"},
             read : {"none", "timer", "tried"}]

\* The type invariant.
TypeOK ==
    /\ config \in [Ids -> Configs]
    /\ task \in [Places -> TaskType]
    /\ queue \in Seq(Items) /\ Len(queue) <= BufferSize
    /\ alive \in BOOLEAN /\ open \in 0..MaxOpen
    /\ posting \subseteq Items /\ delivered \subseteq Items /\ failed \subseteq Items
    /\ \A x, y \in posting : x = y

Waiting == {queue[k] : k \in DOMAIN queue}

\* Whatever fails, a webhook gets an event at most once: an item is still to be
\* emitted, in the channel (once), being posted or already there, and never in two
\* of these places.
AtMostOnce ==
    /\ \A j, k \in DOMAIN queue : queue[j] = queue[k] => j = k
    /\ Waiting \cap posting = {} /\ Waiting \cap delivered = {} /\ posting \cap delivered = {}
    /\ \A s \in Places : \A w \in task[s].todo :
          <<s, w>> \notin Waiting \cup posting \cup delivered

\* However small the semaphore and the channel are, an event that is wanted and
\* can be converted reaches the webhook of its instance, as long as the emitter
\* runs, the record is found and there is a client.
WantedIsDelivered ==
    \A s \in Places :
       (/\ task[s].at # "none" /\ config[s[1]].url
        /\ Wanted(task[s].event, config[s[1]]) /\ Converts(task[s].event))
          ~> (\/ <<s, "instance">> \in delivered
              \/ task[s].at = "dropped"
              \/ ~alive)

\* The read receipt of a message that a handler has taken up does not depend on the
\* webhooks: it is tried also when the channel is full and the
\* emitter is gone.
ReadFollows ==
    \A s \in Places :
       (/\ task[s].at \in {"convert", "emit"} /\ config[s[1]].autoRead
        /\ task[s].event.kind = "message" /\ ~task[s].event.own)
          ~> task[s].read = "tried"

\* MESSAGES_UPSERT is triggered for every message: only the failure of its own
\* request keeps one from the webhook.
MessagesArePosted ==
    \A s \in Places :
       (/\ task[s].at # "none" /\ task[s].event.kind = "message" /\ config[s[1]].url
        /\ Wanted(task[s].event, config[s[1]]) /\ Converts(task[s].event))
          ~> <<s, "instance">> \in delivered \cup failed

\* The mapping to the feed: what is due is fixed when the handler has converted its
\* event; what is being posted is still the first in line.
dueBar ==
    {n \in Items : LET t == task[n[1]] IN
        /\ t.at \in {"emit", "done"} /\ Converts(t.event)
        /\ Wanted(t.event, config[n[1][1]])
        /\ n[2] \in Targets(t.event, config[n[1][1]], GlobalUrl)}
closedBar == {s \in Places : task[s].at \in {"done", "dropped"}}
waitingBar == IF posting = {} THEN queue ELSE <<CHOOSE item \in posting : TRUE>> \o queue

Feed == INSTANCE WebhookFeed
    WITH Sources <- Places, due <- dueBar, closed <- closedBar, waiting <- waitingBar

\* However handlers block on the channel and requests fail, the webhooks see a feed: a
\* handler ends only when all that its event made due has been published, the webhook of
\* the instance comes first, the order of the channel is that of the requests, and
\* nothing is sent after the first failure.
RefinesFeed == Feed!Spec
=============================================================================
