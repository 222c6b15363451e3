--------------------------- MODULE OutboundProofs ---------------------------
(***************************************************************************)
(* Proofs about Outbound and Media, for every number of requests, workers, *)
(* buffers and arrays, and every mix of kinds.                             *)
(***************************************************************************)
EXTENDS Outbound, FiniteSetTheorems, TLAPS

(***************************************************************************)
(* The requests.  Ready strengthens their type: a request that reads a     *)
(* file has one.                                                           *)
(***************************************************************************)

Reading == {"submit", "wait", "probe", "opus", "waveform"}
Fresh == {"new", "presence", "mark", "load", "copy", "submit"}

Ready(t) ==
    /\ t.at = "copy" => t.buf \in Buffers
    /\ t.at \in Reading => t.data \in Arrays
    /\ t.at = "upload" /\ t.kind \in {"document", "video"} => t.data \in Arrays

Requests == send \in [Reqs -> SendType] /\ \A r \in Reqs : Ready(send[r])

\* r becomes t, which waits for no task unless r has been waiting before, and has
\* handed nothing to the pool unless r has not.
Becomes(r, t) ==
    /\ t \in SendType /\ Ready(t)
    /\ send' = [send EXCEPT ![r] = t]
    /\ t.at \in Fresh => send[r].at \in Fresh

Moves(r) == \E t : Becomes(r, t) /\ t.at # "wait"

LEMMA BecomesKeeps ==
  ASSUME Requests, NEW r \in Reqs, NEW t, Becomes(r, t)
  PROVE  /\ Requests'
         /\ send'[r] = t
         /\ \A q \in Reqs : q # r => send'[q] = send[q]
  <1>1. send' \in [Reqs -> SendType] /\ send'[r] = t
    BY DEF Becomes, Requests
  <1>2. \A q \in Reqs : q # r => send'[q] = send[q]
    BY DEF Becomes, Requests
  <1>3. \A q \in Reqs : Ready(send'[q])
    BY <1>1, <1>2 DEF Becomes, Requests
  <1>4. QED
    BY <1>1, <1>2, <1>3 DEF Requests, Ready

LEMMA GotoBecomes ==
  ASSUME Requests, NEW r \in Reqs, NEW l, Goto(r, l),
         l \in {"presence", "mark", "load", "submit", "wait", "opus", "upload", "send"},
         l \in Reading => send[r].data \in Arrays,
         l = "upload" => send[r].kind \notin {"document", "video"},
         l \in Fresh => send[r].at \in Fresh
  PROVE  Becomes(r, [send[r] EXCEPT !.at = l]) /\ [send[r] EXCEPT !.at = l].at = l
  <1>1. send[r] \in SendType
    BY DEF Requests
  <1>2. [send[r] EXCEPT !.at = l] \in SendType
    BY <1>1 DEF SendType
  <1>3. /\ [send[r] EXCEPT !.at = l].at = l
        /\ [send[r] EXCEPT !.at = l].kind = send[r].kind
        /\ [send[r] EXCEPT !.at = l].data = send[r].data
    BY <1>1 DEF SendType
  <1>4. Ready([send[r] EXCEPT !.at = l])
    BY <1>3 DEF Ready
  <1>5. send' = [send EXCEPT ![r] = [send[r] EXCEPT !.at = l]]
    BY DEF Goto
  <1>6. QED
    BY <1>2, <1>3, <1>4, <1>5 DEF Becomes

LEMMA GotoMoves ==
  ASSUME Requests, NEW r \in Reqs, NEW l, Goto(r, l),
         l \in {"presence", "mark", "load", "opus", "send"},
         l = "opus" => send[r].data \in Arrays,
         l \in Fresh => send[r].at \in Fresh
  PROVE  Moves(r)
  <1>1. l \in Reading => l = "opus"
    BY DEF Reading
  <1>2. Becomes(r, [send[r] EXCEPT !.at = l]) /\ [send[r] EXCEPT !.at = l].at = l
    BY <1>1, GotoBecomes
  <1>3. QED
    BY <1>2 DEF Moves

LEMMA AnsweredMoves ==
  ASSUME Requests, NEW r \in Reqs, NEW answer \in {"ok", "failed"}, Answered(r, answer)
  PROVE  Moves(r) /\ cancelled' = cancelled \cup {r}
  <1> DEFINE out == IF answer = "ok" THEN send[r].out ELSE {}
             t == [send[r] EXCEPT !.at = "end", !.answer = answer, !.data = NoArray, !.out = out]
  <1>1. send[r] \in SendType
    BY DEF Requests
  <1>2. out \in SUBSET Content
    BY <1>1 DEF SendType
  <1>3. send' = [send EXCEPT ![r] = t] /\ cancelled' = cancelled \cup {r}
    BY DEF Answered
  <1> HIDE DEF out
  <1>4. t \in SendType /\ t.at = "end"
    BY <1>1, <1>2 DEF SendType
  <1>5. Ready(t)
    BY <1>4 DEF Ready, Reading
  <1>6. QED
    BY <1>3, <1>4, <1>5 DEF Moves, Becomes, Fresh

LEMMA FailsMoves ==
  ASSUME Requests, NEW r \in Reqs, Fails(r)
  PROVE  Moves(r) /\ cancelled' = cancelled \cup {r}
  BY AnsweredMoves DEF Fails

(***************************************************************************)
(* The steps that leave the pool alone.                                    *)
(***************************************************************************)

Outside(r) == \/ Start(r) \/ Presence(r) \/ Load(r) \/ Fetch(r) \/ Upload(r)
              \/ SendMessage(r) \/ Mark(r)
              \/ Download(r) /\ UNCHANGED <<chats, tried, pause>>
              \/ Copied(r) /\ UNCHANGED <<chats, tried, pause>>
              \/ ConvertToOpus(r) /\ UNCHANGED <<chats, tried, pause>>

LEMMA StartMoves ==
  ASSUME Requests, NEW r \in Reqs, Start(r)
  PROVE  Moves(r) /\ cancelled \subseteq cancelled'
  <1>1. CASE Goto(r, First(send[r].kind)) /\ UNCHANGED cancelled
    <2>1. First(send[r].kind) \in {"mark", "presence", "load"}
      BY DEF First
    <2>2. send[r].at \in Fresh
      BY DEF Start, Fresh
    <2>3. QED
      BY <1>1, <2>1, <2>2, GotoMoves
  <1>2. CASE Fails(r)
    BY <1>2, FailsMoves
  <1>3. QED
    BY <1>1, <1>2 DEF Start

LEMMA PresenceMoves ==
  ASSUME Requests, NEW r \in Reqs, Presence(r)
  PROVE  Moves(r) /\ cancelled \subseteq cancelled'
  <1>1. CASE Goto(r, "load") /\ UNCHANGED cancelled
    <2>1. send[r].at \in Fresh
      BY DEF Presence, Fresh
    <2>2. QED
      BY <1>1, <2>1, GotoMoves
  <1>2. QED
    BY <1>1, AnsweredMoves DEF Presence

LEMMA LoadMoves ==
  ASSUME Requests, NEW r \in Reqs, Load(r)
  PROVE  Moves(r) /\ cancelled \subseteq cancelled'
  <1>1. CASE Goto(r, "send") /\ UNCHANGED cancelled
    BY <1>1, GotoMoves DEF Fresh
  <1>2. QED
    BY <1>1, FailsMoves DEF Load

LEMMA FetchMoves ==
  ASSUME Requests, NEW r \in Reqs, Fetch(r)
  PROVE  Moves(r) /\ cancelled \subseteq cancelled'
  <1>1. CASE send' = [send EXCEPT ![r].at = "upload", ![r].out = {r}] /\ UNCHANGED cancelled
    <2> DEFINE t == [send[r] EXCEPT !.at = "upload", !.out = {r}]
    <2>1. send[r] \in SendType /\ send[r].kind \in {"statusImage", "statusVideo"}
      BY DEF Requests, Fetch
    <2>2. t \in SendType /\ t.at = "upload" /\ t.kind = send[r].kind
      BY <2>1 DEF SendType, Content
    <2>3. Ready(t)
      BY <2>1, <2>2 DEF Ready, Reading
    <2>4. send' = [send EXCEPT ![r] = t]
      BY <1>1
    <2>5. QED
      BY <1>1, <2>2, <2>3, <2>4 DEF Moves, Becomes, Fresh
  <1>2. QED
    BY <1>1, FailsMoves DEF Fetch

\* The bytes that a request which has an array reads are those of some request, or
\* are being written.
LEMMA ReadsContent ==
  ASSUME bytes \in [Arrays -> Content], NEW a \in Arrays
  PROVE  bytes[a] \in Content
  OBVIOUS

LEMMA UploadMoves ==
  ASSUME Requests, bytes \in [Arrays -> Content], NEW r \in Reqs, Upload(r)
  PROVE  Moves(r) /\ cancelled \subseteq cancelled'
  <1>1. CASE /\ send[r].kind \in {"document", "video"}
             /\ send' = [send EXCEPT ![r].at = "send", ![r].out = {bytes[send[r].data]}]
             /\ UNCHANGED cancelled
    <2> DEFINE out == {bytes[send[r].data]}
               t == [send[r] EXCEPT !.at = "send", !.out = out]
    <2>1. send[r] \in SendType /\ send[r].data \in Arrays
      BY <1>1 DEF Requests, Ready, Upload
    <2>2. out \in SUBSET Content
      BY <2>1, ReadsContent
    <2>3. send' = [send EXCEPT ![r] = t]
      BY <1>1
    <2> HIDE DEF out
    <2>4. t \in SendType /\ t.at = "send"
      BY <2>1, <2>2 DEF SendType
    <2>5. QED
      BY <1>1, <2>3, <2>4 DEF Moves, Becomes, Ready, Reading, Fresh
  <1>2. CASE Goto(r, "send") /\ UNCHANGED cancelled
    BY <1>2, GotoMoves DEF Fresh
  <1>3. QED
    BY <1>1, <1>2, FailsMoves DEF Upload

LEMMA DownloadMoves ==
  ASSUME Requests, NEW r \in Reqs, Download(r)
  PROVE  Moves(r) /\ cancelled \subseteq cancelled'
  <1>1. ASSUME NEW b \in Buffers, UNCHANGED cancelled,
               send' = [send EXCEPT ![r].at = "copy", ![r].buf = b]
        PROVE  Moves(r) /\ cancelled \subseteq cancelled'
    <2> DEFINE t == [send[r] EXCEPT !.at = "copy", !.buf = b]
    <2>1. send[r] \in SendType /\ send[r].at \in Fresh
      BY DEF Requests, Download, Fresh
    <2>2. t \in SendType /\ t.at = "copy" /\ t.buf = b
      BY <2>1 DEF SendType
    <2>3. send' = [send EXCEPT ![r] = t]
      BY <1>1
    <2>4. QED
      BY <1>1, <2>1, <2>2, <2>3 DEF Moves, Becomes, Ready, Reading
  <1>2. QED
    BY <1>1, FailsMoves DEF Download

LEMMA CopiedMoves ==
  ASSUME Requests, NEW r \in Reqs, Copied(r)
  PROVE  Moves(r) /\ cancelled \subseteq cancelled'
  <1>1. ASSUME NEW a \in Arrays, UNCHANGED cancelled,
               send' = [send EXCEPT ![r].at = AfterDownload(send[r].kind), ![r].buf = NoArray,
                                    ![r].data = a]
        PROVE  Moves(r) /\ cancelled \subseteq cancelled'
    <2> DEFINE l == AfterDownload(send[r].kind)
               t == [send[r] EXCEPT !.at = l, !.buf = NoArray, !.data = a]
    <2>1. send[r] \in SendType /\ send[r].at \in Fresh
      BY DEF Requests, Copied, Fresh
    <2>2. l \in {"submit", "probe", "upload"}
      BY DEF AfterDownload
    <2>3. send' = [send EXCEPT ![r] = t]
      BY <1>1
    <2> HIDE DEF l
    <2>4. t \in SendType /\ t.at = l /\ t.data = a
      BY <2>1, <2>2 DEF SendType
    <2>5. QED
      BY <1>1, <2>1, <2>2, <2>3, <2>4 DEF Moves, Becomes, Ready
  <1>2. QED
    BY <1>1, FailsMoves DEF Copied

LEMMA ReadsMoves ==
  ASSUME Requests, bytes \in [Arrays -> Content], NEW r \in Reqs,
         send[r].at \in {"opus", "waveform"}, NEW l \in {"waveform", "upload"}, Reads(r, l)
  PROVE  Moves(r) /\ cancelled \subseteq cancelled'
  <1> DEFINE out == send[r].out \cup {bytes[send[r].data]}
             t == [send[r] EXCEPT !.at = l, !.out = out]
  <1>1. send[r] \in SendType /\ send[r].data \in Arrays
    BY DEF Requests, Ready, Reading
  <1>2. out \in SUBSET Content
    BY <1>1, ReadsContent DEF SendType
  <1>3. send' = [send EXCEPT ![r] = t]
    BY DEF Reads
  <1> HIDE DEF out
  <1>4. t \in SendType /\ t.at = l /\ t.data = send[r].data
    BY <1>1, <1>2 DEF SendType
  <1>5. QED
    BY <1>1, <1>3, <1>4 DEF Reads, Moves, Becomes, Ready, Reading, Fresh

LEMMA ConvertToOpusMoves ==
  ASSUME Requests, bytes \in [Arrays -> Content], NEW r \in Reqs, ConvertToOpus(r)
  PROVE  Moves(r) /\ cancelled \subseteq cancelled'
  <1>1. CASE send[r].at = "probe" /\ Goto(r, "opus") /\ UNCHANGED cancelled
    <2>1. send[r].data \in Arrays
      BY <1>1 DEF Requests, Ready, Reading
    <2>2. QED
      BY <1>1, <2>1, GotoMoves DEF Fresh
  <1>2. QED
    BY <1>1, ReadsMoves, FailsMoves DEF ConvertToOpus

LEMMA MarkMoves ==
  ASSUME Requests, NEW r \in Reqs, Mark(r)
  PROVE  (Moves(r) /\ cancelled \subseteq cancelled') \/ UNCHANGED <<send, cancelled>>
  BY AnsweredMoves DEF Mark

LEMMA SendMoves ==
  ASSUME Requests, NEW r \in Reqs, SendMessage(r)
  PROVE  Moves(r) /\ cancelled \subseteq cancelled'
  BY AnsweredMoves DEF SendMessage

LEMMA OutsideMoves ==
  ASSUME Requests, bytes \in [Arrays -> Content], NEW r \in Reqs, Outside(r)
  PROVE  (Moves(r) /\ cancelled \subseteq cancelled') \/ UNCHANGED <<send, cancelled>>
  BY StartMoves, PresenceMoves, LoadMoves, FetchMoves, UploadMoves, DownloadMoves, CopiedMoves,
     ConvertToOpusMoves, MarkMoves, SendMoves, Zenon DEF Outside

(***************************************************************************)
(* Types.                                                                  *)
(***************************************************************************)

Channels == [is : {"empty", "error", "data"}, of : SUBSET Content]
Pauses == [at : {"none", "start", "wait", "sent", "dropped"}, ctx : Reqs \cup {NoReq}]
FilesTyped == array \in [Buffers -> Arrays \cup {NoArray}] /\ bytes \in [Arrays -> Content]
QueueTyped == queue \in Seq(Reqs) /\ Len(queue) <= QueueSize
PoolTyped == /\ QueueTyped
             /\ worker \in [Workers -> Reqs \cup {NoReq}]
             /\ fallback \subseteq Reqs
             /\ done \in [Reqs -> Channels]
ChatsTyped == /\ chats \in [Reqs -> SUBSET Numbers]
              /\ tried \in [Reqs -> SUBSET Numbers]
PauseTyped == pause \in [Reqs -> Pauses]

Typed == /\ Requests /\ FilesTyped /\ PoolTyped /\ cancelled \subseteq Reqs
         /\ ChatsTyped /\ PauseTyped

LEMMA TypedIsTypeOK == Typed => TypeOK
  BY DEF Typed, Requests, FilesTyped, PoolTyped, QueueTyped, ChatsTyped, PauseTyped, Channels,
         Pauses, TypeOK

LEMMA QueueSizeType == QueueSize \in Nat
  BY FS_CardinalityType, MediaAssumption DEF QueueSize

LEMMA InitTyped == Init => Typed
  <1> SUFFICES ASSUME Init PROVE Typed
    OBVIOUS
  <1>1. Requests
    <2>1. PICK mix \in Mixes :
            send = [r \in Reqs |-> [kind |-> mix[r], at |-> "new", buf |-> NoArray,
                                    data |-> NoArray, out |-> {}, answer |-> "none"]]
      BY DEF Init
    <2>2. mix \in [Reqs -> Kinds]
      BY OutboundAssumption
    <2>3. QED
      BY <2>1, <2>2 DEF Requests, SendType, Ready, Reading
  <1>2. PoolTyped
    BY QueueSizeType DEF Init, NoFiles, PoolTyped, QueueTyped, Channels, Empty
  <1>3. FilesTyped
    BY DEF Init, NoFiles, FilesTyped, Content
  <1>4. PauseTyped
    BY DEF Init, PauseTyped, Pauses
  <1>5. QED
    BY <1>1, <1>2, <1>3, <1>4 DEF Init, Typed, ChatsTyped

LEMMA CancelledTyped ==
  ASSUME cancelled \subseteq Reqs, NEW r \in Reqs, NEW answer, Answered(r, answer)
  PROVE  cancelled' \subseteq Reqs
  BY DEF Answered

LEMMA FilesKept ==
  ASSUME Requests, FilesTyped, NEW r \in Reqs, Download(r) \/ Copied(r)
  PROVE  FilesTyped'
  <1>1. CASE Download(r)
    BY <1>1 DEF Download, FilesTyped, Content
  <1>2. ASSUME NEW a \in Arrays,
               array' = [array EXCEPT ![send[r].buf] = a],
               bytes' = [bytes EXCEPT ![a] = r]
        PROVE  FilesTyped'
    BY <1>2 DEF FilesTyped, Content
  <1>3. CASE Copied(r)
    BY <1>2, <1>3 DEF Copied, FilesTyped, memory
  <1>4. QED
    BY <1>1, <1>3

LEMMA StartKeepsRest ==
  ASSUME Typed, NEW r \in Reqs, Start(r)
  PROVE  ChatsTyped' /\ PauseTyped'
  <1>1. CASE UNCHANGED <<chats, pause>>
    BY <1>1 DEF Start, Typed, ChatsTyped, PauseTyped
  <1>2. ASSUME NEW c \in SUBSET Numbers, chats' = [chats EXCEPT ![r] = c]
        PROVE  ChatsTyped'
    BY <1>2 DEF Start, Typed, ChatsTyped
  <1>3. CASE ~UNCHANGED <<chats, pause>>
    <2>1. \E c \in IF send[r].kind = "read" THEN SUBSET Numbers ELSE {{}} :
             chats' = [chats EXCEPT ![r] = c]
      BY <1>3, Zenon DEF Start
    <2>2. ChatsTyped'
      BY <1>2, <2>1
    <2>3. PICK delayed \in BOOLEAN, taken \in {p \in Reqs : Recycled(r, p)} \cup {NoReq} :
             pause' = [p \in Reqs |->
                IF p = taken THEN [at |-> "start", ctx |-> r]
                ELSE IF p = r /\ delayed /\ send[r].kind = "presence"
                  THEN [at |-> "start", ctx |-> r] ELSE pause[p]]
      BY <1>3, Zenon DEF Start
    <2>4. PauseTyped'
      <3>1. [at |-> "start", ctx |-> r] \in Pauses
        BY DEF Pauses
      <3>2. QED
        BY <2>3, <3>1 DEF Typed, PauseTyped
    <2>5. QED
      BY <2>2, <2>4
  <1>4. QED
    BY <1>1, <1>3

LEMMA PauseKept ==
  ASSUME PauseTyped, NEW r \in Reqs, Pause(r)
  PROVE  PauseTyped'
  BY DEF Pause, PauseTyped, Pauses

LEMMA OutsideTyped ==
  ASSUME Typed, NEW r \in Reqs, Outside(r)
  PROVE  Typed' /\ UNCHANGED pool
  <1>1. Requests'
    <2>1. CASE Moves(r)
      BY <2>1, BecomesKeeps DEF Typed, Moves
    <2>2. CASE UNCHANGED <<send, cancelled>>
      BY <2>2 DEF Typed, Requests, Ready
    <2>3. QED
      BY <2>1, <2>2, OutsideMoves DEF Typed, FilesTyped
  <1>2. UNCHANGED pool
    BY DEF Outside, Start, Presence, Load, Fetch, Upload, SendMessage, Mark, Download, Copied,
           ConvertToOpus
  <1>3. PoolTyped'
    BY <1>2 DEF Typed, PoolTyped, QueueTyped, pool
  <1>4. FilesTyped'
    <2>1. CASE Download(r) \/ Copied(r)
      BY <2>1, FilesKept DEF Typed
    <2>2. CASE UNCHANGED memory
      BY <2>2 DEF memory, Typed, FilesTyped
    <2>3. QED
      BY <2>1, <2>2 DEF Outside, Start, Presence, Load, Fetch, Upload, SendMessage, Mark,
                        ConvertToOpus
  <1>5. cancelled' \subseteq Reqs
    <2>1. CASE UNCHANGED cancelled
      BY <2>1 DEF Typed
    <2>2. CASE \E answer \in {"ok", "failed"} : Answered(r, answer)
      BY <2>2, CancelledTyped DEF Typed
    <2>3. QED
      BY <2>1, <2>2 DEF Outside, Start, Presence, Load, Fetch, Upload, SendMessage, Mark,
                        Download, Copied, ConvertToOpus, Reads, Fails
  <1>6. ChatsTyped' /\ PauseTyped'
    <2>1. CASE Start(r)
      BY <2>1, StartKeepsRest
    <2>2. CASE Mark(r)
      BY <2>2 DEF Mark, Typed, ChatsTyped, PauseTyped
    <2>3. CASE UNCHANGED <<chats, tried, pause>>
      BY <2>3 DEF Typed, ChatsTyped, PauseTyped
    <2>4. QED
      BY <2>1, <2>2, <2>3 DEF Outside, Presence, Load, Fetch, Upload, SendMessage
  <1>7. QED
    BY <1>1, <1>2, <1>3, <1>4, <1>5, <1>6 DEF Typed

(***************************************************************************)
(* The pool.  Only a request that has just reached Submit hands a task in, *)
(* so TaskCarried needs that nothing of it is in the pool before.          *)
(***************************************************************************)

Waiting == {queue[k] : k \in DOMAIN queue}
Distinct == \A j, k \in DOMAIN queue : queue[j] = queue[k] => j = k
OneWorker == \A v, w \in Workers : worker[v] = worker[w] => v = w \/ worker[v] = NoReq
Nowhere(r) == r \notin Waiting /\ ~AtWork(r) /\ r \notin fallback /\ ~Reported(r)
Placed(r) ==
    /\ r \in Waiting => ~AtWork(r) /\ r \notin fallback /\ ~Reported(r)
    /\ AtWork(r) => r \notin fallback /\ ~Reported(r)
    /\ r \in fallback => ~Reported(r)
    /\ send[r].at = "wait" /\ r \notin cancelled => ~Nowhere(r)
    /\ send[r].at \in Fresh => Nowhere(r)

Carried == Distinct /\ OneWorker /\ \A r \in Reqs : Placed(r)

LEMMA CarriedIsTaskCarried == Carried => TaskCarried
  <1> SUFFICES ASSUME Carried PROVE TaskCarried
    OBVIOUS
  <1>1. \A r \in Reqs : Pooled(r) <=> r \in Waiting
    BY DEF Pooled, Waiting
  <1>2. QED
    BY <1>1 DEF Carried, Distinct, OneWorker, Placed, Nowhere, TaskCarried

\* A step that leaves the pool alone and starts neither to wait nor afresh.
LEMMA CalmStep ==
  ASSUME Carried, UNCHANGED pool, cancelled \subseteq cancelled',
         \A q \in Reqs : /\ send'[q].at = "wait" => send[q].at = "wait"
                         /\ send'[q].at \in Fresh => send[q].at \in Fresh
  PROVE  Carried'
  <1>1. /\ Waiting' = Waiting /\ Distinct' = Distinct /\ OneWorker' = OneWorker
        /\ fallback' = fallback
        /\ \A q \in Reqs : AtWork(q)' = AtWork(q) /\ Reported(q)' = Reported(q)
    BY DEF pool, Waiting, Distinct, OneWorker, AtWork, Reported
  <1>2. QED
    BY <1>1 DEF Carried, Placed, Nowhere

LEMMA MovesCalm ==
  ASSUME Requests, NEW r \in Reqs,
         (Moves(r) /\ cancelled \subseteq cancelled') \/ UNCHANGED <<send, cancelled>>
  PROVE  /\ cancelled \subseteq cancelled'
         /\ \A q \in Reqs : /\ send'[q].at = "wait" => send[q].at = "wait"
                            /\ send'[q].at \in Fresh => send[q].at \in Fresh
  BY BecomesKeeps DEF Moves, Becomes

LEMMA OutsideCarried ==
  ASSUME Typed, Carried, NEW r \in Reqs, Outside(r)
  PROVE  Carried'
  <1>1. (Moves(r) /\ cancelled \subseteq cancelled') \/ UNCHANGED <<send, cancelled>>
    BY OutsideMoves DEF Typed, FilesTyped
  <1>2. UNCHANGED pool
    BY OutsideTyped
  <1>3. Requests
    BY DEF Typed
  <1>4. QED
    BY <1>1, <1>2, <1>3, MovesCalm, CalmStep

LEMMA AppendDistinct ==
  ASSUME queue \in Seq(Reqs), Distinct, NEW r \in Reqs, r \notin Waiting,
         queue' = Append(queue, r)
  PROVE  Distinct' /\ Waiting' = Waiting \cup {r}
  BY DEF Distinct, Waiting

LEMMA TailDistinct ==
  ASSUME queue \in Seq(Reqs), Distinct, queue # <<>>, queue' = Tail(queue)
  PROVE  Distinct' /\ Waiting' = Waiting \ {Head(queue)} /\ Head(queue) \in Waiting
  <1>1. /\ Len(queue) \in Nat \ {0} /\ Head(queue) = queue[1]
        /\ queue' \in Seq(Reqs) /\ Len(queue') = Len(queue) - 1
        /\ \A k \in 1..Len(queue') : queue'[k] = queue[k + 1]
    OBVIOUS
  <1>2. DOMAIN queue = 1..Len(queue) /\ DOMAIN queue' = 1..Len(queue')
    BY <1>1
  <1>3. Distinct'
    BY <1>1, <1>2 DEF Distinct
  <1>4. Head(queue) \in Waiting
    BY <1>1, <1>2 DEF Waiting
  <1>5. ASSUME NEW x \in Waiting' PROVE x \in Waiting /\ x # Head(queue)
    <2>1. PICK k \in 1..Len(queue') : x = queue'[k]
      BY <1>2 DEF Waiting
    <2>2. x = queue[k + 1] /\ k + 1 \in DOMAIN queue /\ 1 \in DOMAIN queue /\ k + 1 # 1
      BY <1>1, <1>2, <2>1
    <2>3. QED
      BY <1>1, <2>2 DEF Waiting, Distinct
  <1>6. ASSUME NEW x \in Waiting, x # Head(queue) PROVE x \in Waiting'
    <2>1. PICK k \in 1..Len(queue) : x = queue[k]
      BY <1>2 DEF Waiting
    <2>2. k # 1
      BY <1>1, <1>6, <2>1
    <2>3. k - 1 \in 1..Len(queue') /\ queue'[k - 1] = queue[k]
      BY <1>1, <2>1, <2>2
    <2>4. QED
      BY <1>2, <2>1, <2>3 DEF Waiting
  <1>7. QED
    BY <1>3, <1>4, <1>5, <1>6

LEMMA SubmitKeeps ==
  ASSUME Typed, Carried, NEW r \in Reqs, Submit(r)
  PROVE  Requests' /\ PoolTyped' /\ cancelled' \subseteq Reqs /\ Carried'
  <1>1. Requests /\ PoolTyped /\ cancelled \subseteq Reqs /\ QueueSize \in Nat
    BY QueueSizeType DEF Typed
  <1>2. CASE Fails(r) /\ UNCHANGED <<queue, fallback>>
    <2>1. Moves(r) /\ cancelled' = cancelled \cup {r}
      BY <1>1, <1>2, FailsMoves
    <2>2. UNCHANGED pool
      BY <1>2 DEF Submit, pool
    <2>3. Requests'
      BY <1>1, <2>1, BecomesKeeps DEF Moves
    <2>4. Carried'
      BY <1>1, <2>1, <2>2, MovesCalm, CalmStep
    <2>5. QED
      BY <1>1, <2>1, <2>2, <2>3, <2>4 DEF pool, PoolTyped, QueueTyped
  <1>3. CASE /\ Goto(r, "wait") /\ UNCHANGED cancelled
             /\ \/ Len(queue) < QueueSize /\ queue' = Append(queue, r) /\ UNCHANGED fallback
                \/ fallback' = fallback \cup {r} /\ UNCHANGED queue
    <2>1. send[r].at = "submit" /\ send[r].data \in Arrays /\ Nowhere(r)
      BY <1>1 DEF Submit, Requests, Ready, Reading, Carried, Placed, Fresh
    <2>2. Becomes(r, [send[r] EXCEPT !.at = "wait"]) /\ [send[r] EXCEPT !.at = "wait"].at = "wait"
      BY <1>1, <1>3, <2>1, GotoBecomes DEF Fresh
    <2>3. Requests' /\ send'[r].at = "wait" /\ \A q \in Reqs : q # r => send'[q] = send[q]
      BY <1>1, <2>2, BecomesKeeps
    <2>4. UNCHANGED <<worker, done, cancelled>>
      BY <1>3 DEF Submit
    <2>5. /\ OneWorker' = OneWorker
          /\ \A q \in Reqs : AtWork(q)' = AtWork(q) /\ Reported(q)' = Reported(q)
      BY <2>4 DEF OneWorker, AtWork, Reported
    <2>6. CASE Len(queue) < QueueSize /\ queue' = Append(queue, r) /\ UNCHANGED fallback
      <3>1. PoolTyped'
        BY <1>1, <2>4, <2>6 DEF PoolTyped, QueueTyped, QueueSize
      <3>2. Distinct' /\ Waiting' = Waiting \cup {r}
        BY <1>1, <2>1, <2>6, AppendDistinct DEF PoolTyped, QueueTyped, Carried, Nowhere
      <3>3. Carried'
        BY <2>1, <2>3, <2>4, <2>5, <2>6, <3>2 DEF Carried, Placed, Nowhere, Fresh
      <3>4. QED
        BY <1>1, <2>3, <2>4, <3>1, <3>3
    <2>7. CASE fallback' = fallback \cup {r} /\ UNCHANGED queue
      <3>1. PoolTyped'
        BY <1>1, <2>4, <2>7 DEF PoolTyped, QueueTyped
      <3>2. Distinct' = Distinct /\ Waiting' = Waiting
        BY <2>7 DEF Distinct, Waiting
      <3>3. Carried'
        BY <2>1, <2>3, <2>4, <2>5, <2>7, <3>2 DEF Carried, Placed, Nowhere, Fresh
      <3>4. QED
        BY <1>1, <2>3, <2>4, <3>1, <3>3
    <2>8. QED
      BY <1>3, <2>6, <2>7
  <1>4. QED
    BY <1>2, <1>3 DEF Submit

LEMMA TakeKeeps ==
  ASSUME Typed, Carried, NEW w \in Workers, Take(w)
  PROVE  PoolTyped' /\ Carried'
  <1>1. PoolTyped /\ QueueSize \in Nat
    BY QueueSizeType DEF Typed
  <1>2. Head(queue) \in Reqs /\ Tail(queue) \in Seq(Reqs) /\ Len(Tail(queue)) <= QueueSize
    BY <1>1 DEF Take, PoolTyped, QueueTyped
  <1>3. PoolTyped'
    BY <1>1, <1>2 DEF Take, PoolTyped, QueueTyped, QueueSize
  <1>4. Distinct' /\ Waiting' = Waiting \ {Head(queue)} /\ Head(queue) \in Waiting
    BY <1>1, TailDistinct DEF Take, PoolTyped, QueueTyped, Carried
  <1>5. /\ worker' = [worker EXCEPT ![w] = Head(queue)] /\ worker[w] = NoReq
        /\ UNCHANGED <<send, fallback, done, cancelled>>
    BY DEF Take
  <1>6. ~AtWork(Head(queue)) /\ Head(queue) # NoReq
    BY <1>2, <1>4, MediaAssumption DEF Carried, Placed
  <1>7. OneWorker'
    BY <1>1, <1>5, <1>6 DEF OneWorker, Carried, AtWork, PoolTyped
  <1>8. \A q \in Reqs : AtWork(q)' <=> AtWork(q) \/ q = Head(queue)
    BY <1>1, <1>5, MediaAssumption DEF AtWork, PoolTyped
  <1>9. \A q \in Reqs : Reported(q)' = Reported(q)
    BY <1>5 DEF Reported
  <1>10. \A q \in Reqs : Placed(q)'
    BY <1>2, <1>4, <1>5, <1>8, <1>9 DEF Carried, Placed, Nowhere
  <1>11. QED
    BY <1>3, <1>4, <1>7, <1>10 DEF Carried

\* What the conversion of r does to its result channel.
LEMMA AnswerKeeps ==
  ASSUME Typed, NEW r \in Reqs, Answer(r)
  PROVE  /\ done' \in [Reqs -> Channels]
         /\ \A q \in Reqs : q # r => Reported(q)' = Reported(q)
         /\ \/ send[r].at = "wait" /\ Reported(r)'
            \/ r \in cancelled /\ Reported(r)' = Reported(r)
  <1>1. done \in [Reqs -> Channels]
    BY DEF Typed, PoolTyped
  <1>2. CASE r \in cancelled /\ UNCHANGED done
    BY <1>1, <1>2 DEF Reported
  <1>3. ASSUME send[r].at = "wait", NEW res \in {Data({bytes[send[r].data]}), Error},
               done' = [done EXCEPT ![r] = res]
        PROVE  /\ done' \in [Reqs -> Channels]
               /\ \A q \in Reqs : q # r => Reported(q)' = Reported(q)
               /\ send[r].at = "wait" /\ Reported(r)'
    <2>1. send[r].data \in Arrays
      BY <1>3 DEF Typed, Requests, Ready, Reading
    <2>2. bytes[send[r].data] \in Content
      BY <2>1, ReadsContent DEF Typed, FilesTyped
    <2>3. res \in Channels /\ res.is # "empty"
      BY <2>2 DEF Channels, Data, Error
    <2>4. QED
      BY <1>1, <1>3, <2>3 DEF Reported
  <1>4. QED
    BY <1>2, <1>3 DEF Answer

LEMMA WorkKeeps ==
  ASSUME Typed, Carried, NEW w \in Workers, Work(w)
  PROVE  PoolTyped' /\ Carried'
  <1>1. PICK r \in Reqs : r = worker[w] /\ Answer(r) /\ AtWork(r) /\ PoolTyped
    BY DEF Typed, PoolTyped, Work, AtWork
  <1>2. worker' = [worker EXCEPT ![w] = NoReq] /\ UNCHANGED <<send, queue, fallback, cancelled>>
    BY DEF Work
  <1>3. \A v \in Workers : v # w => worker[v] # r
    BY <1>1, MediaAssumption DEF Carried, OneWorker
  <1>4. /\ done' \in [Reqs -> Channels]
        /\ \A q \in Reqs : q # r => Reported(q)' = Reported(q)
        /\ \/ send[r].at = "wait" /\ Reported(r)'
           \/ r \in cancelled /\ Reported(r)' = Reported(r)
    BY <1>1, AnswerKeeps
  <1>5. PoolTyped'
    BY <1>1, <1>2, <1>4 DEF PoolTyped, QueueTyped, QueueSize
  <1>6. Distinct' = Distinct /\ Waiting' = Waiting
    BY <1>2 DEF Distinct, Waiting
  <1>7. OneWorker'
    BY <1>1, <1>2 DEF Carried, OneWorker, PoolTyped
  <1>8. \A q \in Reqs : AtWork(q)' <=> AtWork(q) /\ q # r
    BY <1>1, <1>2, <1>3, MediaAssumption DEF AtWork, PoolTyped
  <1>9. \A q \in Reqs : Placed(q)'
    BY <1>1, <1>2, <1>4, <1>6, <1>8 DEF Carried, Placed, Nowhere, Fresh
  <1>10. QED
    BY <1>5, <1>6, <1>7, <1>9 DEF Carried

LEMMA WorkAloneKeeps ==
  ASSUME Typed, Carried, NEW r \in Reqs, WorkAlone(r)
  PROVE  PoolTyped' /\ Carried'
  <1>1. /\ r \in fallback /\ Answer(r) /\ PoolTyped /\ fallback' = fallback \ {r}
        /\ UNCHANGED <<send, queue, worker, cancelled>>
    BY DEF Typed, WorkAlone
  <1>2. /\ done' \in [Reqs -> Channels]
        /\ \A q \in Reqs : q # r => Reported(q)' = Reported(q)
        /\ \/ send[r].at = "wait" /\ Reported(r)'
           \/ r \in cancelled /\ Reported(r)' = Reported(r)
    BY <1>1, AnswerKeeps
  <1>3. PoolTyped'
    BY <1>1, <1>2 DEF PoolTyped, QueueTyped, QueueSize
  <1>4. /\ Distinct' = Distinct /\ Waiting' = Waiting /\ OneWorker' = OneWorker
        /\ \A q \in Reqs : AtWork(q)' = AtWork(q)
    BY <1>1 DEF Distinct, Waiting, OneWorker, AtWork
  <1>5. \A q \in Reqs : Placed(q)'
    BY <1>1, <1>2, <1>4 DEF Carried, Placed, Nowhere, Fresh
  <1>6. QED
    BY <1>3, <1>4, <1>5 DEF Carried

LEMMA AwaitKeeps ==
  ASSUME Typed, Carried, NEW r \in Reqs, Await(r)
  PROVE  Requests' /\ PoolTyped' /\ cancelled' \subseteq Reqs /\ Carried'
  <1>1. /\ Requests /\ PoolTyped /\ cancelled \subseteq Reqs /\ send[r].at = "wait"
        /\ done' = [done EXCEPT ![r] = Empty] /\ UNCHANGED <<queue, worker, fallback>>
    BY DEF Typed, Await
  <1>2. Moves(r) /\ cancelled \subseteq cancelled' /\ cancelled' \subseteq Reqs
    <2>1. CASE Fails(r)
      BY <1>1, <2>1, FailsMoves
    <2>2. CASE /\ send' = [send EXCEPT ![r].at = "upload", ![r].out = done[r].of]
               /\ UNCHANGED cancelled
      <3> DEFINE out == done[r].of
                 t == [send[r] EXCEPT !.at = "upload", !.out = out]
      <3>1. send[r] \in SendType /\ send[r].data \in Arrays /\ out \in SUBSET Content
        BY <1>1 DEF Requests, Ready, Reading, PoolTyped, Channels
      <3>2. send' = [send EXCEPT ![r] = t]
        BY <2>2
      <3> HIDE DEF out
      <3>3. t \in SendType /\ t.at = "upload" /\ t.data = send[r].data
        BY <3>1 DEF SendType
      <3>4. QED
        BY <1>1, <2>2, <3>1, <3>2, <3>3 DEF Moves, Becomes, Ready, Reading, Fresh
    <2>3. QED
      BY <2>1, <2>2 DEF Await
  <1>3. Requests' /\ send'[r].at # "wait" /\ send'[r].at \notin Fresh
        /\ \A q \in Reqs : q # r => send'[q] = send[q]
    BY <1>1, <1>2, BecomesKeeps DEF Moves, Becomes, Fresh
  <1>4. PoolTyped'
    BY <1>1 DEF PoolTyped, QueueTyped, QueueSize, Channels, Empty
  <1>5. \A q \in Reqs : IF q = r THEN ~Reported(q)' ELSE Reported(q)' = Reported(q)
    BY <1>1 DEF Reported, PoolTyped, Empty
  <1>6. /\ Distinct' = Distinct /\ Waiting' = Waiting /\ OneWorker' = OneWorker
        /\ \A q \in Reqs : AtWork(q)' = AtWork(q)
    BY <1>1 DEF Distinct, Waiting, OneWorker, AtWork
  <1>7. \A q \in Reqs : Placed(q)'
    BY <1>1, <1>2, <1>3, <1>5, <1>6 DEF Carried, Placed, Nowhere
  <1>8. QED
    BY <1>2, <1>3, <1>4, <1>6, <1>7 DEF Carried

(***************************************************************************)
(* Every step.                                                             *)
(***************************************************************************)

LEMMA HandlerSteps ==
  ASSUME NEW r \in Reqs, Handler(r)
  PROVE  \/ Outside(r)
         \/ (Submit(r) \/ Await(r)) /\ UNCHANGED <<memory, chats, tried, pause>>
  BY DEF Handler, Outside, Convert, File, Submit, Await, memory

LEMMA NextKeeps == Typed /\ Carried /\ [Next]_vars => Typed' /\ Carried'
  <1> SUFFICES ASSUME Typed, Carried, [Next]_vars PROVE Typed' /\ Carried'
    OBVIOUS
  <1>1. ASSUME NEW r \in Reqs, Outside(r) PROVE Typed' /\ Carried'
    BY <1>1, OutsideTyped, OutsideCarried
  <1>2. ASSUME NEW r \in Reqs, Submit(r) \/ Await(r), UNCHANGED <<memory, chats, tried, pause>>
        PROVE  Typed' /\ Carried'
    <2>1. Requests' /\ PoolTyped' /\ cancelled' \subseteq Reqs /\ Carried'
      BY <1>2, SubmitKeeps, AwaitKeeps
    <2>2. FilesTyped' /\ ChatsTyped' /\ PauseTyped'
      BY <1>2 DEF memory, Typed, FilesTyped, ChatsTyped, PauseTyped
    <2>3. QED
      BY <2>1, <2>2 DEF Typed
  <1>3. ASSUME NEW w \in Workers, Working(w) PROVE Typed' /\ Carried'
    <2>1. PoolTyped' /\ Carried'
      BY <1>3, TakeKeeps, WorkKeeps DEF Working, Worker
    <2>2. UNCHANGED <<send, memory, cancelled, chats, tried, pause>>
      BY <1>3 DEF Working, Worker, Take, Work
    <2>3. QED
      BY <2>1, <2>2 DEF memory, Typed, Requests, Ready, FilesTyped, ChatsTyped, PauseTyped
  <1>4. ASSUME NEW r \in Reqs, Alone(r) PROVE Typed' /\ Carried'
    <2>1. PoolTyped' /\ Carried'
      BY <1>4, WorkAloneKeeps DEF Alone
    <2>2. UNCHANGED <<send, memory, cancelled, chats, tried, pause>>
      BY <1>4 DEF Alone, WorkAlone
    <2>3. QED
      BY <2>1, <2>2 DEF memory, Typed, Requests, Ready, FilesTyped, ChatsTyped, PauseTyped
  <1>5. ASSUME NEW r \in Reqs, Cancel(r) \/ Pause(r) PROVE Typed' /\ Carried'
    <2>1. UNCHANGED <<send, memory, pool, chats, tried>>
      BY <1>5 DEF Cancel, Pause, media
    <2>2. cancelled \subseteq cancelled' /\ cancelled' \subseteq Reqs
      BY <1>5 DEF Cancel, Pause, media, Typed
    <2>3. PauseTyped'
      BY <1>5, PauseKept DEF Cancel, Typed, PauseTyped
    <2>4. Carried'
      BY <2>1, <2>2, CalmStep
    <2>5. QED
      BY <2>1, <2>2, <2>3, <2>4 DEF memory, pool, Typed, Requests, Ready, FilesTyped, PoolTyped,
                                    QueueTyped, QueueSize, ChatsTyped
  <1>6. CASE UNCHANGED vars
    <2>1. UNCHANGED <<send, memory, pool, cancelled, chats, tried, pause>>
      BY <1>6 DEF vars, media
    <2>2. Carried'
      BY <2>1, CalmStep
    <2>3. QED
      BY <2>1, <2>2 DEF memory, pool, Typed, Requests, Ready, FilesTyped, PoolTyped, QueueTyped,
                        QueueSize, ChatsTyped, PauseTyped
  <1>7. QED
    BY <1>1, <1>2, <1>3, <1>4, <1>5, <1>6, HandlerSteps DEF Next

LEMMA InitCarried == Init => Carried
  <1> SUFFICES ASSUME Init PROVE Carried
    OBVIOUS
  <1>1. /\ queue = <<>> /\ worker = [w \in Workers |-> NoReq] /\ fallback = {}
        /\ done = [r \in Reqs |-> Empty] /\ \A r \in Reqs : send[r].at = "new"
    BY DEF Init, NoFiles
  <1>2. Waiting = {} /\ Distinct /\ OneWorker
    BY <1>1 DEF Waiting, Distinct, OneWorker
  <1>3. \A r \in Reqs : ~AtWork(r) /\ ~Reported(r)
    BY <1>1, MediaAssumption DEF AtWork, Reported, Empty
  <1>4. QED
    BY <1>1, <1>2, <1>3 DEF Carried, Placed, Nowhere

LEMMA Invariant == Spec => [](Typed /\ Carried)
  BY InitTyped, InitCarried, NextKeeps, PTL DEF Spec

\* Types.
THEOREM OutboundTypeCorrect == Spec => []TypeOK
  BY Invariant, TypedIsTypeOK, PTL

\* However many requests, workers and cancelled requests there are, the pool neither
\* loses the task that a request waits for nor has it converted twice.
THEOREM EveryTaskCarried == Spec => []TaskCarried
  BY Invariant, CarriedIsTaskCarried, PTL

(***************************************************************************)
(* The pool as one service.  Where a task is does not matter there, only   *)
(* that it is somewhere, and by Carried it is in one place at most: what   *)
(* takes it from there takes it out of the pool.                           *)
(***************************************************************************)

InPool(q) == q \in Waiting \/ AtWork(q) \/ q \in fallback
ServiceStep == Service!Next \/ UNCHANGED <<waitingBar, openBar, resultBar, cancelled>>

LEMMA BarMembers ==
  /\ waitingBar \subseteq Reqs /\ waitingBar' \subseteq Reqs
  /\ openBar \subseteq Reqs /\ openBar' \subseteq Reqs
  /\ \A q \in Reqs : /\ q \in waitingBar <=> send[q].at = "wait"
                     /\ q \in waitingBar' <=> send'[q].at = "wait"
                     /\ q \in openBar <=> InPool(q)
                     /\ q \in openBar' <=> InPool(q)'
  <1>1. \A q \in Reqs : (Pooled(q) <=> q \in Waiting) /\ (Pooled(q)' <=> q \in Waiting')
    BY DEF Pooled, Waiting
  <1>2. QED
    BY <1>1 DEF waitingBar, openBar, InPool

LEMMA SameBars ==
  /\ (\A q \in Reqs : send'[q].at = "wait" <=> send[q].at = "wait") => waitingBar' = waitingBar
  /\ (\A q \in Reqs : InPool(q)' <=> InPool(q)) => openBar' = openBar
  /\ done' = done => resultBar' = resultBar
  BY BarMembers DEF resultBar

LEMMA GotoAt ==
  ASSUME Requests, NEW r \in Reqs, NEW l, Goto(r, l)
  PROVE  send'[r].at = l /\ \A q \in Reqs : q # r => send'[q] = send[q]
  BY DEF Requests, SendType, Goto

LEMMA AnsweredAt ==
  ASSUME Requests, NEW r \in Reqs, Fails(r)
  PROVE  /\ send'[r].at = "end" /\ cancelled' = cancelled \cup {r}
         /\ \A q \in Reqs : q # r => send'[q] = send[q]
  BY DEF Requests, SendType, Fails, Answered

\* Outside the pool a request only ever ends its own context.
LEMMA OutsideCancels ==
  ASSUME NEW r \in Reqs, Outside(r)
  PROVE  send[r].at # "wait" /\ cancelled' \in {cancelled, cancelled \cup {r}}
  BY Zenon DEF Outside, Start, Presence, Load, Fetch, Upload, SendMessage, Mark, Download, Copied,
         ConvertToOpus, Reads, Fails, Answered, pool

LEMMA CancelServes ==
  ASSUME NEW r \in Reqs, UNCHANGED pool, cancelled' \in {cancelled, cancelled \cup {r}},
         \A q \in Reqs : send'[q].at = "wait" <=> send[q].at = "wait"
  PROVE  ServiceStep
  <1>1. \A q \in Reqs : InPool(q)' <=> InPool(q)
    BY DEF pool, InPool, Waiting, AtWork
  <1>2. UNCHANGED <<waitingBar, openBar, resultBar>>
    BY <1>1, SameBars DEF pool
  <1>3. CASE cancelled' = cancelled
    BY <1>2, <1>3 DEF ServiceStep
  <1>4. CASE cancelled' = cancelled \cup {r}
    BY <1>2, <1>4 DEF ServiceStep, Service!Next, Service!Cancel
  <1>5. QED
    BY <1>3, <1>4

LEMMA OutsideServes ==
  ASSUME Typed, NEW r \in Reqs, Outside(r)
  PROVE  ServiceStep
  <1>1. Requests /\ bytes \in [Arrays -> Content] /\ UNCHANGED pool
    BY OutsideTyped DEF Typed, FilesTyped
  <1>2. send[r].at # "wait" /\ cancelled' \in {cancelled, cancelled \cup {r}}
    BY OutsideCancels
  <1>3. Moves(r) \/ UNCHANGED send
    BY <1>1, OutsideMoves
  <1>4. \A q \in Reqs : send'[q].at = "wait" <=> send[q].at = "wait"
    BY <1>1, <1>2, <1>3, BecomesKeeps DEF Moves
  <1>5. QED
    BY <1>1, <1>2, <1>4, CancelServes

LEMMA SubmitServes ==
  ASSUME Typed, Carried, NEW r \in Reqs, Submit(r)
  PROVE  ServiceStep
  <1>1. Requests /\ PoolTyped /\ send[r].at = "submit" /\ Nowhere(r)
    BY DEF Typed, Submit, Carried, Placed, Fresh
  <1>2. UNCHANGED <<worker, done>>
    BY DEF Submit
  <1>3. CASE Fails(r) /\ UNCHANGED <<queue, fallback>>
    <2>1. \A q \in Reqs : send'[q].at = "wait" <=> send[q].at = "wait"
      BY <1>1, <1>3, AnsweredAt
    <2>2. cancelled' = cancelled \cup {r}
      BY <1>1, <1>3, AnsweredAt
    <2>3. QED
      BY <1>2, <1>3, <2>1, <2>2, CancelServes DEF pool
  <1>4. CASE /\ Goto(r, "wait") /\ UNCHANGED cancelled
             /\ \/ queue' = Append(queue, r) /\ UNCHANGED fallback
                \/ fallback' = fallback \cup {r} /\ UNCHANGED queue
    <2>1. send'[r].at = "wait" /\ \A q \in Reqs : q # r => send'[q] = send[q]
      BY <1>1, <1>4, GotoAt
    <2>2. \A q \in Reqs : AtWork(q)' = AtWork(q)
      BY <1>2 DEF AtWork
    <2>3. \A q \in Reqs : InPool(q)' <=> InPool(q) \/ q = r
      <3>1. CASE queue' = Append(queue, r) /\ UNCHANGED fallback
        BY <1>1, <2>2, <3>1, AppendDistinct DEF InPool, PoolTyped, QueueTyped, Nowhere, Carried
      <3>2. CASE fallback' = fallback \cup {r} /\ UNCHANGED queue
        BY <2>2, <3>2 DEF InPool, Waiting
      <3>3. QED
        BY <1>4, <3>1, <3>2
    <2>4. waitingBar' = waitingBar \cup {r} /\ openBar' = openBar \cup {r}
      BY <2>1, <2>3, BarMembers
    <2>5. r \notin waitingBar \cup openBar /\ resultBar[r] = "empty" /\ resultBar' = resultBar
      BY <1>1, <1>2, BarMembers, SameBars DEF Nowhere, InPool, Reported, resultBar
    <2>6. Service!HandIn(r)
      BY <1>4, <2>4, <2>5 DEF Service!HandIn
    <2>7. QED
      BY <2>6 DEF ServiceStep, Service!Next
  <1>5. QED
    BY <1>3, <1>4 DEF Submit

\* A task that moves from the queue to a worker stays in the pool.
LEMMA TakeServes ==
  ASSUME Typed, Carried, NEW w \in Workers, Take(w)
  PROVE  ServiceStep
  <1>1. /\ PoolTyped /\ queue \in Seq(Reqs) /\ worker[w] = NoReq
        /\ UNCHANGED <<send, fallback, done, cancelled>>
    BY DEF Typed, PoolTyped, QueueTyped, Take
  <1>2. Waiting' = Waiting \ {Head(queue)} /\ Head(queue) \in Waiting
    BY <1>1, TailDistinct DEF Take, Carried
  <1>3. \A q \in Reqs : AtWork(q)' <=> AtWork(q) \/ q = Head(queue)
    BY <1>1, MediaAssumption DEF Take, AtWork, PoolTyped
  <1>4. \A q \in Reqs : InPool(q)' <=> InPool(q)
    BY <1>1, <1>2, <1>3 DEF InPool
  <1>5. UNCHANGED <<waitingBar, openBar, resultBar>>
    BY <1>1, <1>4, SameBars
  <1>6. QED
    BY <1>1, <1>5 DEF ServiceStep

\* Whoever ends the task of r, it is gone from the pool then.
LEMMA AnswerServes ==
  ASSUME Typed, NEW r \in Reqs, Answer(r), InPool(r), UNCHANGED <<send, cancelled>>,
         \A q \in Reqs : InPool(q)' <=> InPool(q) /\ q # r
  PROVE  ServiceStep
  <1>1. done \in [Reqs -> Channels]
    BY DEF Typed, PoolTyped
  <1>2. waitingBar' = waitingBar
    BY SameBars
  <1>3. openBar' = openBar \ {r} /\ r \in openBar
    BY BarMembers
  <1>4. \/ /\ r \in waitingBar
           /\ \E res \in {"error", "data"} : resultBar' = [resultBar EXCEPT ![r] = res]
        \/ r \in cancelled /\ UNCHANGED resultBar
    <2>1. CASE r \in cancelled /\ UNCHANGED done
      BY <2>1, SameBars
    <2>2. ASSUME send[r].at = "wait", NEW res \in {Data({bytes[send[r].data]}), Error},
                 done' = [done EXCEPT ![r] = res]
          PROVE  /\ r \in waitingBar
                 /\ \E is \in {"error", "data"} : resultBar' = [resultBar EXCEPT ![r] = is]
      <3>1. res.is \in {"error", "data"}
        BY DEF Data, Error
      <3>2. \A q \in Reqs : done'[q].is = IF q = r THEN res.is ELSE done[q].is
        BY <1>1, <2>2
      <3>3. resultBar' = [resultBar EXCEPT ![r] = res.is]
        BY <3>2 DEF resultBar
      <3>4. QED
        BY <2>2, <3>1, <3>3, BarMembers
    <2>3. QED
      BY <2>1, <2>2 DEF Answer
  <1>5. Service!Run(r)
    BY <1>2, <1>3, <1>4 DEF Service!Run
  <1>6. QED
    BY <1>5 DEF ServiceStep, Service!Next

LEMMA WorkServes ==
  ASSUME Typed, Carried, NEW w \in Workers, Work(w)
  PROVE  ServiceStep
  <1>1. PICK r \in Reqs : r = worker[w] /\ Answer(r) /\ AtWork(r) /\ PoolTyped
    BY DEF Typed, PoolTyped, Work, AtWork
  <1>2. worker' = [worker EXCEPT ![w] = NoReq] /\ UNCHANGED <<send, queue, fallback, cancelled>>
    BY DEF Work
  <1>3. \A v \in Workers : v # w => worker[v] # r
    BY <1>1, MediaAssumption DEF Carried, OneWorker
  <1>4. \A q \in Reqs : AtWork(q)' <=> AtWork(q) /\ q # r
    BY <1>1, <1>2, <1>3, MediaAssumption DEF AtWork, PoolTyped
  <1>5. r \notin Waiting /\ r \notin fallback /\ Waiting' = Waiting
    BY <1>1, <1>2 DEF Carried, Placed, Waiting
  <1>6. InPool(r) /\ \A q \in Reqs : InPool(q)' <=> InPool(q) /\ q # r
    BY <1>1, <1>2, <1>4, <1>5 DEF InPool
  <1>7. QED
    BY <1>1, <1>2, <1>6, AnswerServes

LEMMA WorkAloneServes ==
  ASSUME Typed, Carried, NEW r \in Reqs, WorkAlone(r)
  PROVE  ServiceStep
  <1>1. /\ r \in fallback /\ Answer(r) /\ fallback' = fallback \ {r}
        /\ UNCHANGED <<send, queue, worker, cancelled>>
    BY DEF WorkAlone
  <1>2. /\ r \notin Waiting /\ ~AtWork(r) /\ Waiting' = Waiting
        /\ \A q \in Reqs : AtWork(q)' = AtWork(q)
    BY <1>1 DEF Carried, Placed, Waiting, AtWork
  <1>3. InPool(r) /\ \A q \in Reqs : InPool(q)' <=> InPool(q) /\ q # r
    BY <1>1, <1>2 DEF InPool
  <1>4. QED
    BY <1>1, <1>3, AnswerServes

LEMMA AwaitServes ==
  ASSUME Typed, NEW r \in Reqs, Await(r)
  PROVE  ServiceStep
  <1>1. /\ Requests /\ done \in [Reqs -> Channels] /\ send[r].at = "wait"
        /\ done' = [done EXCEPT ![r] = Empty] /\ UNCHANGED <<queue, worker, fallback>>
    BY DEF Typed, PoolTyped, Await
  <1>2. resultBar' = [resultBar EXCEPT ![r] = "empty"] /\ resultBar[r] = done[r].is
    BY <1>1 DEF resultBar, Empty
  <1>3. \A q \in Reqs : InPool(q)' <=> InPool(q)
    BY <1>1 DEF InPool, Waiting, AtWork
  <1>4. openBar' = openBar /\ r \in waitingBar
    BY <1>1, <1>3, SameBars, BarMembers
  <1>5. ASSUME send'[r].at # "wait", \A q \in Reqs : q # r => send'[q] = send[q]
        PROVE  waitingBar' = waitingBar \ {r}
    BY <1>5, BarMembers
  <1>6. CASE (r \in cancelled \/ done[r].is = "error") /\ Fails(r)
    <2>1. waitingBar' = waitingBar \ {r} /\ cancelled' = cancelled \cup {r}
      BY <1>1, <1>5, <1>6, AnsweredAt
    <2>2. Service!GiveUp(r)
      BY <1>2, <1>4, <1>6, <2>1 DEF Service!GiveUp
    <2>3. QED
      BY <2>2 DEF ServiceStep, Service!Next
  <1>7. CASE /\ done[r].is = "data" /\ UNCHANGED cancelled
             /\ send' = [send EXCEPT ![r].at = "upload", ![r].out = done[r].of]
    <2>1. send'[r].at = "upload" /\ \A q \in Reqs : q # r => send'[q] = send[q]
      BY <1>1, <1>7 DEF Requests, SendType
    <2>2. Service!Collect(r)
      BY <1>2, <1>4, <1>5, <1>7, <2>1 DEF Service!Collect
    <2>3. QED
      BY <2>2 DEF ServiceStep, Service!Next
  <1>8. QED
    BY <1>6, <1>7 DEF Await

LEMMA NextServes ==
  ASSUME Typed, Carried, [Next]_vars
  PROVE  ServiceStep
  <1>1. ASSUME NEW r \in Reqs, Handler(r) PROVE ServiceStep
    BY <1>1, HandlerSteps, OutsideServes, SubmitServes, AwaitServes
  <1>2. ASSUME NEW r \in Reqs, Alone(r) PROVE ServiceStep
    BY <1>2, WorkAloneServes DEF Alone
  <1>3. ASSUME NEW w \in Workers, Working(w) PROVE ServiceStep
    BY <1>3, TakeServes, WorkServes DEF Working, Worker
  <1>4. ASSUME NEW r \in Reqs, Cancel(r) PROVE ServiceStep
    BY <1>4, CancelServes DEF Cancel
  <1>5. ASSUME UNCHANGED media PROVE ServiceStep
    <2>1. UNCHANGED <<send, pool, cancelled>> /\ \A q \in Reqs : InPool(q)' <=> InPool(q)
      BY <1>5 DEF media, pool, InPool, Waiting, AtWork
    <2>2. QED
      BY <2>1, SameBars DEF pool, ServiceStep
  <1>6. QED
    BY <1>1, <1>2, <1>3, <1>4, <1>5 DEF Next, Pause, vars

LEMMA InitServes == Init => Service!Init
  <1> SUFFICES ASSUME Init PROVE Service!Init
    OBVIOUS
  <1>1. /\ queue = <<>> /\ worker = [w \in Workers |-> NoReq] /\ fallback = {} /\ cancelled = {}
        /\ done = [r \in Reqs |-> Empty] /\ \A r \in Reqs : send[r].at = "new"
    BY DEF Init, NoFiles
  <1>2. \A q \in Reqs : ~InPool(q)
    BY <1>1, MediaAssumption DEF InPool, Waiting, AtWork
  <1>3. waitingBar = {} /\ openBar = {}
    BY <1>1, <1>2, BarMembers
  <1>4. resultBar = [r \in Reqs |-> "empty"]
    BY <1>1 DEF resultBar, Empty
  <1>5. QED
    BY <1>1, <1>3, <1>4 DEF Service!Init

\* Queue, workers and extra goroutines together run every task once, for the request that
\* handed it in, and no request that gives up takes another one's task along.
THEOREM PoolIsService == Spec => RefinesService
  <1>1. Typed /\ Carried /\ [Next]_vars => [Service!Next]_(Service!vars)
    BY NextServes DEF ServiceStep, Service!vars
  <1>2. QED
    BY <1>1, InitServes, Invariant, PTL DEF Spec, RefinesService, Service!Spec

(***************************************************************************)
(* The loop over the chats of a read request.                              *)
(***************************************************************************)

LEMMA OthersApart ==
  ASSUME Typed, NEW q \in Reqs, Handler(q), NEW r \in Reqs, r # q
  PROVE  send'[r] = send[r] /\ chats'[r] = chats[r]
  <1>1. Requests /\ chats \in [Reqs -> SUBSET Numbers]
    BY DEF Typed, ChatsTyped
  <1>2. CASE Outside(q)
    <2>1. send'[r] = send[r]
      <3>1. CASE Moves(q)
        BY <1>1, <3>1, BecomesKeeps DEF Moves
      <3>2. QED
        BY <1>1, <1>2, <3>1, OutsideMoves DEF Typed, FilesTyped
    <2>2. CASE Mark(q)
      BY <1>1, <2>1, <2>2 DEF Mark
    <2>3. CASE Start(q)
      <3>1. \/ \E c \in IF send[q].kind = "read" THEN SUBSET Numbers ELSE {{}} :
                  chats' = [chats EXCEPT ![q] = c]
            \/ UNCHANGED <<chats, pause>>
        BY <2>3, Zenon DEF Start
      <3>2. QED
        BY <1>1, <2>1, <3>1
    <2>4. CASE UNCHANGED chats
      BY <2>1, <2>4
    <2>5. QED
      BY <1>2, <2>2, <2>3, <2>4 DEF Outside, Presence, Load, Fetch, Upload, SendMessage
  <1>3. CASE Submit(q) /\ UNCHANGED chats
    BY <1>1, <1>3 DEF Submit, Goto, Fails, Answered, Requests
  <1>4. CASE Await(q) /\ UNCHANGED chats
    BY <1>1, <1>4 DEF Await, Fails, Answered, Requests
  <1>5. QED
    BY <1>2, <1>3, <1>4, HandlerSteps

LEMMA OnlyMark ==
  ASSUME NEW r \in Reqs, send[r].at = "mark", Handler(r)
  PROVE  Mark(r)
  BY DEF Handler, Start, Presence, Load, Fetch, Upload, SendMessage, Convert, File, Download,
         Copied, Submit, Await, ConvertToOpus

LEMMA MarkTries ==
  ASSUME Typed, NEW r \in Reqs, Mark(r)
  PROVE  /\ {n \in chats[r] : IsNumber(n)} \subseteq chats'[r] \cup tried'[r]
         /\ send'[r].at = "end" => chats'[r] = {}
  <1>1. /\ send \in [Reqs -> SendType] /\ chats \in [Reqs -> SUBSET Numbers]
        /\ tried \in [Reqs -> SUBSET Numbers] /\ send[r].at = "mark"
    BY DEF Typed, Requests, ChatsTyped, Mark
  <1>2. CASE chats[r] = {} /\ UNCHANGED <<chats, tried>>
    BY <1>2
  <1>3. ASSUME NEW n \in chats[r], UNCHANGED <<send, cancelled>>,
               tried' = [tried EXCEPT ![r] = IF IsNumber(n) THEN @ \cup {n} ELSE @],
               chats' = [chats EXCEPT ![r] = @ \ {n}]
        PROVE  /\ {m \in chats[r] : IsNumber(m)} \subseteq chats'[r] \cup tried'[r]
               /\ send'[r].at # "end"
    <2>1. chats'[r] = chats[r] \ {n} /\ (IsNumber(n) => n \in tried'[r])
      BY <1>1, <1>3
    <2>2. QED
      BY <1>1, <1>3, <2>1
  <1>4. QED
    BY <1>2, <1>3 DEF Mark

\* A chat whose address is no number, or whose mark fails, hides no other one.
THEOREM NoChatPassedOver == Spec => AllChatsTried
  <1> DEFINE Tries(r) ==
               send[r].at = "mark" =>
                  /\ {n \in chats[r] : IsNumber(n)} \subseteq chats'[r] \cup tried'[r]
                  /\ send'[r].at = "end" => chats'[r] = {}
  <1>1. ASSUME Typed, Next PROVE \A r \in Reqs : Tries(r)
    <2> SUFFICES ASSUME NEW r \in Reqs, send[r].at = "mark" PROVE Tries(r)
      OBVIOUS
    <2>1. CASE UNCHANGED <<send, chats>>
      BY <2>1
    <2>2. ASSUME NEW q \in Reqs, Handler(q) PROVE Tries(r)
      <3>1. CASE q = r
        BY <1>1, <2>2, <3>1, OnlyMark, MarkTries
      <3>2. CASE q # r
        <4>1. send'[r] = send[r] /\ chats'[r] = chats[r]
          BY <1>1, <2>2, <3>2, OthersApart
        <4>2. QED
          BY <4>1
      <3>3. QED
        BY <3>1, <3>2
    <2>3. ASSUME NEW q \in Reqs, Cancel(q) \/ Alone(q) \/ Pause(q) PROVE UNCHANGED <<send, chats>>
      BY <2>3 DEF Cancel, Alone, WorkAlone, Pause, media
    <2>4. ASSUME NEW w \in Workers, Working(w) PROVE UNCHANGED <<send, chats>>
      BY <2>4 DEF Working, Worker, Take, Work
    <2>5. QED
      BY <1>1, <2>1, <2>2, <2>3, <2>4 DEF Next
  <1>2. QED
    BY <1>1, Invariant, PTL DEF Spec, AllChatsTried
=============================================================================
