------------------------------ MODULE Outbound ------------------------------
(***************************************************************************)
(* The requests that reach WhatsApp through a client: messages of five     *)
(* kinds (controllers/message.go, send.go), status posts (status.go), the  *)
(* presence in a chat and read marks (chat.go).  Each is one run of a      *)
(* handler; those with a file share the converter of Media.  A presence    *)
(* with a delay starts a goroutine that is to take the presence back.      *)
(*                                                                         *)
(* Which client the instance has at the moment is Session's business: here *)
(* clients.Load may find none at any time.                                 *)
(***************************************************************************)
EXTENDS Media

CONSTANTS
    Mixes,   \* the kinds of the requests that occur together: Reqs -> Kinds
    Numbers  \* the numbers the requests name: [digits, zero, group] (bound)

StatusKinds == {"statusText", "statusImage", "statusVideo", "statusAudio"}
Composed == {"text", "audio", "image", "video"}
Kinds == StatusKinds \cup Composed \cup {"document", "presence", "read"}

ASSUME OutboundAssumption ==
    /\ Mixes \subseteq [Reqs -> Kinds]
    /\ Numbers \subseteq [digits : Nat, zero : BOOLEAN, group : BOOLEAN]

VARIABLES
    chats,  \* the chats a read request has still to mark
    tried,  \* history: the chats it has tried to mark
    pause   \* the goroutine of a delayed presence: where it is, and the request
            \* that its echo.Context serves

vars == <<media, chats, tried, pause>>

Init ==
    /\ \E mix \in Mixes :
          send = [r \in Reqs |-> [kind |-> mix[r], at |-> "new", buf |-> NoArray, data |-> NoArray,
                                  out |-> {}, answer |-> "none"]]
    /\ NoFiles
    /\ cancelled = {}
    /\ chats = [r \in Reqs |-> {}] /\ tried = [r \in Reqs |-> {}]
    /\ pause = [r \in Reqs |-> [at |-> "none", ctx |-> NoReq]]

\* numberToJid: eleven to fifteen digits, the first of them not zero, and nothing
\* but the separators of a phone number; the address of a group has others.
IsNumber(n) == n.digits \in 11..15 /\ ~n.zero /\ ~n.group

First(kind) ==
    CASE kind = "read" -> "mark"
      [] kind \in Composed \cup {"presence"} -> "presence"
      [] OTHER -> "load"

\* echo takes the context of a request that is answered from a pool and hands it to
\* a later one, while the goroutine of the former has not yet looked at it.
Recycled(r, p) == pause[p].at = "start" /\ send[pause[p].ctx].at = "end" /\ p # r

\* Binding, validation and numberToJid.  A presence with a delay starts its goroutine
\* before the presence is sent.
Start(r) ==
    /\ send[r].at = "new"
    /\ \/ /\ \/ send[r].kind \in StatusKinds \cup {"read"}
             \/ \E n \in Numbers : IsNumber(n)
          /\ Goto(r, First(send[r].kind)) /\ UNCHANGED cancelled
          /\ \E c \in IF send[r].kind = "read" THEN SUBSET Numbers ELSE {{}} :
                chats' = [chats EXCEPT ![r] = c]
          /\ \E delayed \in BOOLEAN, taken \in {p \in Reqs : Recycled(r, p)} \cup {NoReq} :
                pause' = [p \in Reqs |->
                   IF p = taken THEN [at |-> "start", ctx |-> r]
                   ELSE IF p = r /\ delayed /\ send[r].kind = "presence"
                     THEN [at |-> "start", ctx |-> r] ELSE pause[p]]
       \/ /\ send[r].kind \in StatusKinds \cup {"read"} \/ \E n \in Numbers : ~IsNumber(n)
          /\ Fails(r) /\ UNCHANGED <<chats, pause>>
    /\ UNCHANGED <<memory, pool, tried>>

\* The HTTP server cancels the context, too, when the caller goes away.  Outside
\* the worker pool and the pause that only makes steps fail which may fail anyway.
Cancel(r) ==
    /\ \/ send[r].at \in {"submit", "wait"}
       \/ send[r].kind = "presence" /\ send[r].at = "presence"
    /\ r \notin cancelled
    /\ cancelled' = cancelled \cup {r}
    /\ UNCHANGED <<send, memory, pool, chats, tried, pause>>

\* ChatPresence.  Before a message its failure is logged, and saves the handler the
\* sleep; as a request of its own it is answered.
Presence(r) ==
    /\ send[r].at = "presence"
    /\ \/ send[r].kind = "presence" /\ \E answer \in {"ok", "failed"} : Answered(r, answer)
       \/ send[r].kind \in Composed /\ Goto(r, "load") /\ UNCHANGED cancelled
    /\ UNCHANGED <<memory, pool, chats, tried, pause>>

\* A text needs its client only.
Load(r) ==
    /\ send[r].at = "load" /\ send[r].kind \in {"text", "statusText"}
    /\ \/ Goto(r, "send") /\ UNCHANGED cancelled
       \/ Fails(r)
    /\ UNCHANGED <<memory, pool, chats, tried, pause>>

\* The picture or video of a status is read into memory of its own, whatever the
\* status of the response.
Fetch(r) ==
    /\ send[r].at = "load" /\ send[r].kind \in {"statusImage", "statusVideo"}
    /\ \/ send' = [send EXCEPT ![r].at = "upload", ![r].out = {r}] /\ UNCHANGED cancelled
       \/ Fails(r)
    /\ UNCHANGED <<memory, pool, chats, tried, pause>>

\* client.Upload, of a converted file or of the downloaded bytes of a document or
\* video.
Upload(r) ==
    /\ send[r].at = "upload"
    /\ \/ /\ send[r].kind \in {"document", "video"}
          /\ send' = [send EXCEPT ![r].at = "send", ![r].out = {bytes[send[r].data]}]
          /\ UNCHANGED cancelled
       \/ send[r].kind \notin {"document", "video"} /\ Goto(r, "send") /\ UNCHANGED cancelled
       \/ Fails(r)
    /\ UNCHANGED <<memory, pool, chats, tried, pause>>

\* client.SendMessage; an error does not tell whether the message was sent.
SendMessage(r) ==
    /\ send[r].at = "send"
    /\ \E answer \in {"ok", "failed"} : Answered(r, answer)
    /\ UNCHANGED <<memory, pool, chats, tried, pause>>

\* Mutant: the first mark that fails ends the request.
MarkStops(r) ==
    /\ send[r].at = "mark"
    /\ \/ \E n \in chats[r] :
             /\ tried' = [tried EXCEPT ![r] = @ \cup {n}]
             /\ \/ chats' = [chats EXCEPT ![r] = @ \ {n}]
                \/ chats' = [chats EXCEPT ![r] = {}]
             /\ UNCHANGED <<send, cancelled>>
       \/ chats[r] = {} /\ Answered(r, "ok") /\ UNCHANGED <<chats, tried>>
    /\ UNCHANGED <<memory, pool, pause>>
\* One turn of the loop of ReadMessages, over a map; a chat that is no number is
\* passed over, and a failed MarkRead is logged.  The answer is always the same.
Mark(r) ==
    /\ send[r].at = "mark"
    /\ \/ \E n \in chats[r] :
             /\ tried' = [tried EXCEPT ![r] = IF IsNumber(n) THEN @ \cup {n} ELSE @]
             /\ chats' = [chats EXCEPT ![r] = @ \ {n}]
             /\ UNCHANGED <<send, cancelled>>
       \/ chats[r] = {} /\ Answered(r, "ok") /\ UNCHANGED <<chats, tried>>
    /\ UNCHANGED <<memory, pool, pause>>

\* The goroutine of a delayed presence looks its request's context up when it runs,
\* then waits for its timer and that context, and sends the pause or nothing.
Pause(r) ==
    /\ \/ pause[r].at = "start" /\ pause' = [pause EXCEPT ![r].at = "wait"]
       \/ pause[r].at = "wait" /\ pause' = [pause EXCEPT ![r].at = "sent"]
       \/ /\ pause[r].at = "wait" /\ pause[r].ctx \in cancelled
          /\ pause' = [pause EXCEPT ![r].at = "dropped"]
    /\ UNCHANGED <<media, chats, tried>>

Convert(r) == File(r) /\ UNCHANGED <<chats, tried, pause>>

Handler(r) == \/ Start(r) \/ Presence(r) \/ Load(r) \/ Fetch(r) \/ Convert(r)
              \/ Upload(r) \/ SendMessage(r) \/ Mark(r)

Working(w) == Worker(w) /\ UNCHANGED <<chats, tried, pause>>
Alone(r) == WorkAlone(r) /\ UNCHANGED <<chats, tried, pause>>

Next ==
    \/ \E r \in Reqs : Cancel(r) \/ Handler(r) \/ Alone(r) \/ Pause(r)
    \/ \E w \in Workers : Working(w)

Spec == Init /\ [][Next]_vars

\* Goroutines are scheduled, timers fire and every transfer and conversion ends: the
\* client and the commands have timeouts.
FairSpec ==
    /\ Spec
    /\ \A r \in Reqs : WF_vars(Handler(r)) /\ WF_vars(Alone(r)) /\ WF_vars(Pause(r))
    /\ \A w \in Workers : WF_vars(Working(w))

(***************************************************************************)
(* Properties.                                                             *)
(***************************************************************************)

SendType == [kind : Kinds, buf : Buffers \cup {NoArray}, data : Arrays \cup {NoArray},
             at : {"new", "presence", "mark", "load", "copy", "submit", "wait", "probe", "opus",
                   "waveform", "upload", "send", "end"},
             out : SUBSET Content, answer : {"none", "ok", "failed"}]

\* The type invariant.
TypeOK ==
    /\ send \in [Reqs -> SendType]
    /\ array \in [Buffers -> Arrays \cup {NoArray}]
    /\ bytes \in [Arrays -> Content]
    /\ queue \in Seq(Reqs) /\ Len(queue) <= QueueSize
    /\ worker \in [Workers -> Reqs \cup {NoReq}]
    /\ fallback \subseteq Reqs
    /\ done \in [Reqs -> [is : {"empty", "error", "data"}, of : SUBSET Content]]
    /\ cancelled \subseteq Reqs
    /\ chats \in [Reqs -> SUBSET Numbers] /\ tried \in [Reqs -> SUBSET Numbers]
    /\ pause \in [Reqs -> [at : {"none", "start", "wait", "sent", "dropped"},
                           ctx : Reqs \cup {NoReq}]]

\* Every request is answered, though nothing cancels it.
RequestEnds == \A r \in Reqs : send[r].at # "new" ~> send[r].at = "end"

\* A worker is given back whoever waits for its task: also when the request has gone.
WorkerReturns == \A w \in Workers : worker[w] # NoReq ~> worker[w] = NoReq

\* Whatever fails for one chat of a read request, no other is passed over: one that is
\* a number is tried before the request is answered.
AllChatsTried ==
    [][\A r \in Reqs : send[r].at = "mark" =>
          /\ {n \in chats[r] : IsNumber(n)} \subseteq chats'[r] \cup tried'[r]
          /\ send'[r].at = "end" => chats'[r] = {}]_vars

\* A request sends the file it was asked to send, and not that of another one.
OwnMedia ==
    \A r \in Reqs : send[r].answer = "ok" => send[r].out \subseteq {r}

\* The presence of a request with a delay is taken back after the delay.
PauseFollows ==
    \A r \in Reqs : pause[r].at = "start" ~> pause[r].at = "sent" \/ send[r].answer = "failed"
=============================================================================
