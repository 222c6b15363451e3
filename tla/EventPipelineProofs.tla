------------------------ MODULE EventPipelineProofs ------------------------
(***************************************************************************)
(* Proofs about EventPipeline, for every number of instances and events,   *)
(* every kind of events and settings, and every size of the semaphore and  *)
(* of the channel.                                                         *)
(***************************************************************************)
EXTENDS EventPipeline, TLAPS

(***************************************************************************)
(* Types.                                                                  *)
(***************************************************************************)

LEMMA GotoTyped ==
  ASSUME task \in [Places -> TaskType], NEW s \in Places,
         NEW l \in {"none", "acquire", "load", "convert", "emit", "done", "dropped"}, Goto(s, l)
  PROVE  task' \in [Places -> TaskType]
  BY DEF Goto, TaskType

LEMMA FollowingTyped ==
  ASSUME NEW todo \in SUBSET Webhooks, todo # {}
  PROVE  Following(todo) \in todo
  BY DEF Following, Webhooks

LEMMA TargetsTyped ==
  ASSUME NEW e, NEW conf, NEW g
  PROVE  Targets(e, conf, g) \in SUBSET Webhooks
  BY DEF Targets, Webhooks

LEMMA InitTyped == Init => TypeOK
  <1> SUFFICES ASSUME Init PROVE TypeOK
    OBVIOUS
  <1>1. NoTask \in TaskType /\ [NoTask EXCEPT !.event = Connecting, !.at = "load"] \in TaskType
    BY DEF NoTask, TaskType
  <1>2. task \in [Places -> TaskType]
    BY <1>1 DEF Init
  <1>3. queue \in Seq(Items) /\ Len(queue) <= BufferSize
    BY PipelineAssumption DEF Init
  <1>4. QED
    BY <1>2, <1>3, PipelineAssumption DEF Init, TypeOK

LEMMA EmitTyped ==
  ASSUME TypeOK, NEW s \in Places, Emit(s)
  PROVE  TypeOK'
  <1>1. CASE /\ task[s].todo # {} /\ Len(queue) < BufferSize
             /\ queue' = Append(queue, <<s, Following(task[s].todo)>>)
             /\ task' = [task EXCEPT ![s].todo = @ \ {Following(@)}]
    <2>1. task[s].todo \in SUBSET Webhooks
      BY DEF TypeOK, TaskType
    <2>2. <<s, Following(task[s].todo)>> \in Items
      BY <1>1, <2>1, FollowingTyped DEF Items
    <2>3. queue' \in Seq(Items) /\ Len(queue') <= BufferSize
      BY <1>1, <2>2, PipelineAssumption DEF TypeOK
    <2>4. task' \in [Places -> TaskType]
      BY <1>1, <2>1 DEF TypeOK, TaskType
    <2>5. QED
      BY <2>3, <2>4 DEF Emit, TypeOK, emitter
  <1>2. CASE task[s].todo = {} /\ Goto(s, "done") /\ UNCHANGED queue
    BY <1>2, GotoTyped DEF Emit, TypeOK, emitter
  <1>3. QED
    BY <1>1, <1>2 DEF Emit

LEMMA HandlerTyped ==
  ASSUME TypeOK, NEW s \in Places, Handler(s)
  PROVE  TypeOK'
  <1>1. CASE Acquire(s)
    BY <1>1, GotoTyped DEF Acquire, TypeOK, emitter
  <1>2. CASE Route(s)
    <2>1. task' \in [Places -> TaskType]
      <3>1. CASE task' = [task EXCEPT ![s].at = "convert",
               ![s].delivery = IF AutoRead(task[s].event, config[s[1]]) THEN "due" ELSE @,
               ![s].read = IF AutoRead(task[s].event, config[s[1]]) THEN "timer" ELSE @]
        <4> DEFINE read == AutoRead(task[s].event, config[s[1]])
                   d == IF read THEN "due" ELSE task[s].delivery
                   r == IF read THEN "timer" ELSE task[s].read
        <4>1. task[s] \in TaskType
          BY DEF TypeOK
        <4>2. d \in {"none", "due", "tried"} /\ r \in {"none", "timer", "tried"}
          BY <4>1 DEF TaskType
        <4>3. task' = [task EXCEPT ![s] = [task[s] EXCEPT !.at = "convert", !.delivery = d,
                                                          !.read = r]]
          BY <3>1
        <4> HIDE DEF d, r
        <4>4. [task[s] EXCEPT !.at = "convert", !.delivery = d, !.read = r] \in TaskType
          BY <4>1, <4>2 DEF TaskType
        <4>5. QED
          BY <4>3, <4>4 DEF TypeOK
      <3>2. CASE Goto(s, "done") \/ Goto(s, "dropped")
        BY <3>2, GotoTyped DEF TypeOK
      <3>3. QED
        BY <1>2, <3>1, <3>2 DEF Route
    <2>2. QED
      BY <1>2, <2>1 DEF Route, TypeOK, emitter
  <1>3. CASE Convert(s)
    <2>1. task' \in [Places -> TaskType]
      <3>1. CASE task' = [task EXCEPT ![s].at = "emit",
               ![s].todo = Targets(task[s].event, config[s[1]], GlobalUrl)]
        <4> DEFINE targets == Targets(task[s].event, config[s[1]], GlobalUrl)
        <4>1. targets \in SUBSET Webhooks
          BY TargetsTyped
        <4>2. task' = [task EXCEPT ![s] = [task[s] EXCEPT !.at = "emit", !.todo = targets]]
          BY <3>1
        <4> HIDE DEF targets
        <4>3. [task[s] EXCEPT !.at = "emit", !.todo = targets] \in TaskType
          BY <4>1 DEF TypeOK, TaskType
        <4>4. QED
          BY <4>2, <4>3 DEF TypeOK
      <3>2. CASE Goto(s, "done") \/ Goto(s, "dropped")
        BY <3>2, GotoTyped DEF TypeOK
      <3>3. QED
        BY <1>3, <3>1, <3>2 DEF Convert
    <2>2. QED
      BY <1>3, <2>1 DEF Convert, TypeOK, emitter
  <1>4. QED
    BY <1>1, <1>2, <1>3, EmitTyped DEF Handler

LEMMA EmitterTyped ==
  ASSUME TypeOK, Emitter
  PROVE  TypeOK'
  <1>1. CASE Receive
    <2>1. Head(queue) \in Items /\ Tail(queue) \in Seq(Items) /\ Len(Tail(queue)) <= BufferSize
      BY <1>1, PipelineAssumption DEF Receive, TypeOK
    <2>2. QED
      BY <1>1, <2>1 DEF Receive, TypeOK
  <1>2. CASE PostOk
    BY <1>2, PipelineAssumption DEF PostOk, TypeOK
  <1>3. CASE PostFail
    <2>1. delivered' \subseteq Items
      BY <1>3 DEF PostFail, TypeOK
    <2>2. /\ posting' = {} /\ failed' = failed \cup posting /\ alive' = FALSE /\ open' = 0
          /\ UNCHANGED <<config, task, queue>>
      BY <1>3 DEF PostFail
    <2>3. alive' \in BOOLEAN
      BY <2>2
    <2>4. open' \in 0..MaxOpen
      BY <2>2, PipelineAssumption
    <2>5. QED
      BY <2>1, <2>2, <2>3, <2>4 DEF TypeOK
  <1>4. QED
    BY <1>1, <1>2, <1>3 DEF Emitter

LEMMA NextTyped == TypeOK /\ [Next]_vars => TypeOK'
  <1> SUFFICES ASSUME TypeOK, [Next]_vars PROVE TypeOK'
    OBVIOUS
  <1>1. ASSUME NEW i \in Ids, NEW n \in 1..MaxEvents, Dispatch(i, n) PROVE TypeOK'
    <2>1. PICK e \in Events :
            task' = [task EXCEPT ![<<i, n>>] = [NoTask EXCEPT !.event = e, !.at = "acquire"]]
      BY <1>1 DEF Dispatch
    <2>2. [NoTask EXCEPT !.event = e, !.at = "acquire"] \in TaskType
      BY DEF NoTask, TaskType
    <2>3. task' \in [Places -> TaskType]
      BY <2>1, <2>2 DEF TypeOK
    <2>4. QED
      BY <1>1, <2>3 DEF Dispatch, TypeOK, emitter
  <1>2. ASSUME NEW s \in Places, SendDeliveryReceipt(s) \/ SendReadReceipt(s) PROVE TypeOK'
    <2>1. task' \in [Places -> TaskType]
      BY <1>2 DEF SendDeliveryReceipt, SendReadReceipt, TypeOK, TaskType
    <2>2. QED
      BY <1>2, <2>1 DEF SendDeliveryReceipt, SendReadReceipt, TypeOK, emitter
  <1>3. CASE UNCHANGED vars
    BY <1>3 DEF vars, emitter, TypeOK
  <1>4. QED
    BY <1>1, <1>2, <1>3, HandlerTyped, EmitterTyped DEF Next

\* The variables keep their types: in particular the channel never holds more than it
\* has room for, and the emitter posts one item at a time.
THEOREM PipelineTypeCorrect == Spec => []TypeOK
  <1>1. QED BY InitTyped, NextTyped, PTL DEF Spec

(***************************************************************************)
(* At most once.  AtMostOnce says nothing of the items of an event that is *)
(* not yet converted; they are nowhere, and the conversion may put them    *)
(* on the list of what is to be emitted.                                   *)
(***************************************************************************)

Distinct == \A j, k \in DOMAIN queue : queue[j] = queue[k] => j = k
Taken == Waiting \cup posting \cup delivered
Before == {"none", "acquire", "load", "convert"}
NotYet ==
    \A s \in Places : task[s].at \in Before =>
       task[s].todo = {} /\ \A w \in Webhooks : <<s, w>> \notin Taken
Once == AtMostOnce /\ NotYet

LEMMA AppendDistinct ==
  ASSUME queue \in Seq(Items), Distinct, NEW item \in Items, item \notin Waiting,
         queue' = Append(queue, item)
  PROVE  Distinct' /\ Waiting' = Waiting \cup {item}
  BY DEF Distinct, Waiting

LEMMA TailDistinct ==
  ASSUME queue \in Seq(Items), Distinct, queue # <<>>, queue' = Tail(queue)
  PROVE  Distinct' /\ Waiting' = Waiting \ {Head(queue)} /\ Head(queue) \in Waiting
  <1>1. /\ Len(queue) \in Nat \ {0} /\ Head(queue) = queue[1]
        /\ queue' \in Seq(Items) /\ Len(queue') = Len(queue) - 1
        /\ \A k \in 1..Len(queue') : queue'[k] = queue[k + 1]
    OBVIOUS
  <1>2. DOMAIN queue = 1..Len(queue) /\ DOMAIN queue' = 1..Len(queue')
    BY <1>1
  <1>3. Distinct'
    BY <1>1, <1>2 DEF Distinct
  <1>4. Head(queue) \in Waiting
    BY <1>1, <1>2 DEF Waiting
  <1>5. ASSUME NEW x \in Waiting' PROVE x \in Waiting /\ x # Head(queue)
    <2>1. PICK k \in 1..Len(queue') : x = queue'[k]
      BY <1>2 DEF Waiting
    <2>2. x = queue[k + 1] /\ k + 1 \in DOMAIN queue /\ 1 \in DOMAIN queue /\ k + 1 # 1
      BY <1>1, <1>2, <2>1
    <2>3. QED
      BY <1>1, <2>2 DEF Waiting, Distinct
  <1>6. ASSUME NEW x \in Waiting, x # Head(queue) PROVE x \in Waiting'
    <2>1. PICK k \in 1..Len(queue) : x = queue[k]
      BY <1>2 DEF Waiting
    <2>2. k - 1 \in 1..Len(queue') /\ queue'[k - 1] = x
      BY <1>1, <1>6, <2>1
    <2>3. QED
      BY <1>2, <2>2 DEF Waiting
  <1>7. QED
    BY <1>3, <1>4, <1>5, <1>6

\* Steps that leave the channel and the emitter alone.
LEMMA StillOnce ==
  ASSUME TypeOK, Once, NEW s \in Places, NEW t, task' = [task EXCEPT ![s] = t],
         UNCHANGED <<queue, posting, delivered>>,
         t.at \in Before => task[s].at \in Before,
         t.todo \subseteq task[s].todo \/ task[s].at \in Before,
         t.at \in Before => t.todo = {},
         t.todo \subseteq Webhooks
  PROVE  Once'
  <1>1. Waiting' = Waiting /\ Taken' = Taken /\ Distinct' = Distinct
    BY DEF Waiting, Taken, Distinct
  <1>2. ASSUME NEW q \in Places PROVE task'[q] = IF q = s THEN t ELSE task[q]
    BY DEF TypeOK
  <1>3. NotYet'
    BY <1>1, <1>2 DEF Once, NotYet
  <1>4. ASSUME NEW q \in Places, NEW w \in task'[q].todo PROVE <<q, w>> \notin Taken
    <2>1. CASE q # s
      BY <1>2, <1>4, <2>1 DEF Once, AtMostOnce, Taken
    <2>2. CASE q = s /\ task[s].at \in Before
      BY <1>2, <1>4, <2>2 DEF Once, NotYet
    <2>3. CASE q = s /\ t.todo \subseteq task[s].todo
      BY <1>2, <1>4, <2>3 DEF Once, AtMostOnce, Taken
    <2>4. QED
      BY <2>1, <2>2, <2>3
  <1>5. AtMostOnce'
    BY <1>1, <1>4 DEF Once, AtMostOnce, Taken, Distinct
  <1>6. QED
    BY <1>3, <1>5 DEF Once

LEMMA GotoOnce ==
  ASSUME TypeOK, Once, NEW s \in Places, NEW l, Goto(s, l),
         UNCHANGED <<queue, posting, delivered>>,
         l \in Before => task[s].at \in Before
  PROVE  Once'
  <1> DEFINE t == [task[s] EXCEPT !.at = l]
  <1>1. task[s] \in TaskType
    BY DEF TypeOK
  <1>2. t.at = l /\ t.todo = task[s].todo /\ t.todo \subseteq Webhooks
    BY <1>1 DEF TaskType
  <1>3. task' = [task EXCEPT ![s] = t]
    BY DEF Goto
  <1>4. l \in Before => t.todo = {}
    BY <1>2 DEF Once, NotYet
  <1> HIDE DEF t
  <1>5. QED
    BY <1>2, <1>3, <1>4, StillOnce

LEMMA EmitOnce ==
  ASSUME TypeOK, Once, NEW s \in Places, Emit(s)
  PROVE  Once'
  <1>1. CASE task[s].todo = {} /\ Goto(s, "done") /\ UNCHANGED queue
    BY <1>1, GotoOnce DEF Emit, emitter, Before
  <1>2. CASE /\ task[s].todo # {} /\ Len(queue) < BufferSize
             /\ queue' = Append(queue, <<s, Following(task[s].todo)>>)
             /\ task' = [task EXCEPT ![s].todo = @ \ {Following(@)}]
    <2> DEFINE w == Following(task[s].todo)
    <2>1. task[s] \in TaskType /\ task[s].todo \in SUBSET Webhooks /\ task[s].at = "emit"
      BY DEF TypeOK, TaskType, Emit
    <2>2. w \in task[s].todo /\ <<s, w>> \in Items
      BY <1>2, <2>1, FollowingTyped DEF Items
    <2> HIDE DEF w
    <2>3. <<s, w>> \notin Taken
      BY <2>2 DEF Once, AtMostOnce, Taken
    <2>4. queue' = Append(queue, <<s, w>>)
      BY <1>2 DEF w
    <2>5. Distinct' /\ Waiting' = Waiting \cup {<<s, w>>}
      BY <2>2, <2>3, <2>4, AppendDistinct DEF TypeOK, Once, AtMostOnce, Taken, Distinct
    <2>6. UNCHANGED <<posting, delivered>>
      BY DEF Emit, emitter
    <2>7. Taken' = Taken \cup {<<s, w>>}
      BY <2>5, <2>6 DEF Taken
    <2>8. ASSUME NEW q \in Places
          PROVE  /\ task'[q].at = task[q].at
                 /\ task'[q].todo = IF q = s THEN task[s].todo \ {w} ELSE task[q].todo
      <3>1. task' = [task EXCEPT ![s] = [task[s] EXCEPT !.todo = task[s].todo \ {w}]]
        BY <1>2 DEF w
      <3>2. [task[s] EXCEPT !.todo = task[s].todo \ {w}].todo = task[s].todo \ {w}
        BY <2>1 DEF TaskType
      <3>3. QED
        BY <2>1, <3>1, <3>2 DEF TypeOK, TaskType
    <2>9. NotYet'
      <3>1. ASSUME NEW q \in Places, task'[q].at \in Before
            PROVE  task'[q].todo = {} /\ \A v \in Webhooks : <<q, v>> \notin Taken'
        <4>1. q # s
          BY <2>1, <2>8, <3>1 DEF Before
        <4>2. QED
          BY <2>7, <2>8, <3>1, <4>1 DEF Once, NotYet
      <3>2. QED
        BY <3>1 DEF NotYet
    <2>10. ASSUME NEW q \in Places, NEW v \in task'[q].todo PROVE <<q, v>> \notin Taken'
      <3>1. v \in task[q].todo /\ (q = s => v # w)
        BY <2>8, <2>10
      <3>2. <<q, v>> \notin Taken
        BY <3>1 DEF Once, AtMostOnce, Taken
      <3>3. QED
        BY <2>7, <3>1, <3>2
    <2>11. AtMostOnce'
      BY <2>3, <2>5, <2>6, <2>10 DEF Once, AtMostOnce, Taken, Distinct
    <2>12. QED
      BY <2>9, <2>11 DEF Once
  <1>3. QED
    BY <1>1, <1>2 DEF Emit

LEMMA EmitterOnce ==
  ASSUME TypeOK, Once, Emitter
  PROVE  Once'
  <1>1. CASE Receive
    <2>1. /\ Distinct' /\ Waiting' = Waiting \ {Head(queue)} /\ Head(queue) \in Waiting
          /\ posting' = {Head(queue)} /\ posting = {} /\ UNCHANGED <<task, delivered>>
      BY <1>1, TailDistinct DEF Receive, TypeOK, Once, AtMostOnce, Distinct
    <2>2. Taken' = Taken
      BY <2>1 DEF Taken
    <2>3. QED
      BY <2>1, <2>2 DEF Once, AtMostOnce, NotYet, Taken, Distinct
  <1>2. CASE PostOk \/ PostFail
    <2>1. /\ posting' = {} /\ delivered' \subseteq delivered \cup posting
          /\ UNCHANGED <<task, queue>>
      BY <1>2 DEF PostOk, PostFail
    <2>2. Waiting' = Waiting /\ Taken' \subseteq Taken /\ Distinct' = Distinct
      BY <2>1 DEF Waiting, Taken, Distinct
    <2>3. NotYet'
      BY <2>1, <2>2 DEF Once, NotYet
    <2>4. QED
      BY <2>1, <2>2, <2>3 DEF Once, AtMostOnce, Taken, Distinct
  <1>3. QED
    BY <1>1, <1>2 DEF Emitter

LEMMA NextOnce == TypeOK /\ Once /\ [Next]_vars => Once'
  <1> SUFFICES ASSUME TypeOK, Once, [Next]_vars PROVE Once'
    OBVIOUS
  <1>1. ASSUME NEW i \in Ids, NEW n \in 1..MaxEvents, Dispatch(i, n) PROVE Once'
    <2>1. PICK e \in Events :
            task' = [task EXCEPT ![<<i, n>>] = [NoTask EXCEPT !.event = e, !.at = "acquire"]]
      BY <1>1 DEF Dispatch
    <2> DEFINE t == [NoTask EXCEPT !.event = e, !.at = "acquire"]
    <2>2. t.at = "acquire" /\ t.todo = {}
      BY DEF NoTask
    <2>3. <<i, n>> \in Places /\ task[<<i, n>>].at \in Before
      BY <1>1, PipelineAssumption DEF Dispatch, Places, Before
    <2>4. UNCHANGED <<queue, posting, delivered>> /\ task' = [task EXCEPT ![<<i, n>>] = t]
      BY <1>1, <2>1 DEF Dispatch, emitter
    <2> HIDE DEF t
    <2>5. QED
      BY <2>2, <2>3, <2>4, StillOnce
  <1>2. ASSUME NEW s \in Places, Acquire(s) PROVE Once'
    BY <1>2, GotoOnce DEF Acquire, emitter, Before
  <1>3. ASSUME NEW s \in Places, Route(s) PROVE Once'
    <2>0. UNCHANGED <<queue, posting, delivered>> /\ task[s].at \in Before
      BY <1>3 DEF Route, emitter, Before
    <2>1. CASE Goto(s, "done") \/ Goto(s, "dropped")
      BY <2>0, <2>1, GotoOnce
    <2>2. CASE task' = [task EXCEPT ![s].at = "convert",
               ![s].delivery = IF AutoRead(task[s].event, config[s[1]]) THEN "due" ELSE @,
               ![s].read = IF AutoRead(task[s].event, config[s[1]]) THEN "timer" ELSE @]
      <3> DEFINE t == [task[s] EXCEPT !.at = "convert",
                  !.delivery = IF AutoRead(task[s].event, config[s[1]]) THEN "due" ELSE @,
                  !.read = IF AutoRead(task[s].event, config[s[1]]) THEN "timer" ELSE @]
      <3>1. task[s] \in TaskType
        BY DEF TypeOK
      <3>2. t.todo = task[s].todo /\ t.todo = {}
        BY <2>0, <3>1 DEF TaskType, Once, NotYet
      <3>3. task' = [task EXCEPT ![s] = t]
        BY <2>2
      <3> HIDE DEF t
      <3>4. QED
        BY <2>0, <3>2, <3>3, StillOnce
    <2>3. QED
      BY <1>3, <2>1, <2>2 DEF Route
  <1>4. ASSUME NEW s \in Places, Convert(s) PROVE Once'
    <2>0. UNCHANGED <<queue, posting, delivered>> /\ task[s].at \in Before
      BY <1>4 DEF Convert, emitter, Before
    <2>1. CASE Goto(s, "done") \/ Goto(s, "dropped")
      BY <2>0, <2>1, GotoOnce
    <2>2. CASE task' = [task EXCEPT ![s].at = "emit",
               ![s].todo = Targets(task[s].event, config[s[1]], GlobalUrl)]
      <3> DEFINE targets == Targets(task[s].event, config[s[1]], GlobalUrl)
                 t == [task[s] EXCEPT !.at = "emit", !.todo = targets]
      <3>1. task[s] \in TaskType
        BY DEF TypeOK
      <3>2. targets \subseteq Webhooks
        BY TargetsTyped
      <3>3. task' = [task EXCEPT ![s] = t]
        BY <2>2
      <3> HIDE DEF targets
      <3>4. t.at = "emit" /\ t.todo = targets
        BY <3>1 DEF TaskType
      <3> HIDE DEF t
      <3>5. t.at \notin Before
        BY <3>4 DEF Before
      <3>6. QED
        BY <2>0, <3>2, <3>3, <3>4, <3>5, StillOnce
    <2>3. QED
      BY <1>4, <2>1, <2>2 DEF Convert
  <1>5. ASSUME NEW s \in Places, SendDeliveryReceipt(s) \/ SendReadReceipt(s) PROVE Once'
    <2>1. task[s] \in TaskType
      BY DEF TypeOK
    <2>2. PICK t \in TaskType : /\ task' = [task EXCEPT ![s] = t]
                                /\ t.at = task[s].at /\ t.todo = task[s].todo
      <3>1. CASE SendDeliveryReceipt(s)
        <4> DEFINE t == [task[s] EXCEPT !.delivery = "tried"]
        <4>1. t \in TaskType /\ t.at = task[s].at /\ t.todo = task[s].todo
          BY <2>1 DEF TaskType
        <4>2. task' = [task EXCEPT ![s] = t]
          BY <3>1 DEF SendDeliveryReceipt
        <4>3. QED BY <4>1, <4>2
      <3>2. CASE SendReadReceipt(s)
        <4> DEFINE t == [task[s] EXCEPT !.read = "tried"]
        <4>1. t \in TaskType /\ t.at = task[s].at /\ t.todo = task[s].todo
          BY <2>1 DEF TaskType
        <4>2. task' = [task EXCEPT ![s] = t]
          BY <3>2 DEF SendReadReceipt
        <4>3. QED BY <4>1, <4>2
      <3>3. QED BY <1>5, <3>1, <3>2
    <2>3. UNCHANGED <<queue, posting, delivered>>
      BY <1>5 DEF SendDeliveryReceipt, SendReadReceipt, emitter
    <2>4. t.todo \subseteq Webhooks /\ (t.at \in Before => t.todo = {})
      BY <2>2 DEF TaskType, Once, NotYet
    <2>5. QED
      BY <2>2, <2>3, <2>4, StillOnce
  <1>6. CASE UNCHANGED vars
    BY <1>6 DEF vars, emitter, Once, AtMostOnce, NotYet, Taken, Waiting
  <1>7. QED
    BY <1>1, <1>2, <1>3, <1>4, <1>5, <1>6, EmitOnce, EmitterOnce DEF Next, Handler

\* Whatever fails and however the handlers are scheduled, no webhook gets an event twice.
THEOREM DeliveredOnce == Spec => []AtMostOnce
  <1>1. Init => Once
    <2> SUFFICES ASSUME Init PROVE Once
      OBVIOUS
    <2>1. queue = <<>> /\ posting = {} /\ delivered = {} /\ Waiting = {}
      BY DEF Init, Waiting
    <2>2. \A s \in Places : task[s].todo = {}
      BY DEF Init, NoTask
    <2>3. QED
      BY <2>1, <2>2 DEF Once, AtMostOnce, NotYet, Taken
  <1>2. Once => AtMostOnce
    BY DEF Once
  <1>3. QED
    BY <1>1, <1>2, InitTyped, NextTyped, NextOnce, PTL DEF Spec

(***************************************************************************)
(* The feed.  What is due has been published or is left to be emitted; the *)
(* list of what is left is empty where nothing is due.                     *)
(***************************************************************************)

Out == Waiting \cup posting \cup delivered \cup failed
Left == {n \in Items : n[2] \in task[n[1]].todo}
Owed(t, conf) ==
    {w \in Webhooks : /\ t.at \in {"emit", "done"} /\ Converts(t.event) /\ Wanted(t.event, conf)
                      /\ w \in Targets(t.event, conf, GlobalUrl)}
Promised ==
    /\ dueBar = Out \cup Left /\ Out \cap Left = {}
    /\ \A s \in Places : <<s, "instance">> \in Left => <<s, "global">> \notin Out
    /\ \A s \in Places : task[s].at = "convert" => Wanted(task[s].event, config[s[1]])
    /\ posting # {} => alive

FeedVars == <<dueBar, closedBar, waitingBar, delivered, failed, alive>>
FeedStep == Feed!Next \/ UNCHANGED FeedVars

\* The mapped state, one task at a time.
LEMMA MappedTasks ==
  ASSUME NEW s \in Places, NEW w \in Webhooks
  PROVE  /\ <<s, w>> \in dueBar <=> w \in Owed(task[s], config[s[1]])
         /\ <<s, w>> \in Left <=> w \in task[s].todo
         /\ s \in closedBar <=> task[s].at \in {"done", "dropped"}
  <1>1. <<s, w>> \in Items /\ <<s, w>>[1] = s /\ <<s, w>>[2] = w
    BY DEF Items
  <1>2. QED
    BY <1>1, Zenon DEF dueBar, Left, Owed, closedBar

LEMMA MappedTypes == dueBar \subseteq Items /\ Left \subseteq Items /\ closedBar \subseteq Places
  BY DEF dueBar, Left, closedBar

\* The mapped state after a step of s, the task of which becomes t.
LEMMA MappedStep ==
  ASSUME TypeOK, NEW s \in Places, NEW t, task' = [task EXCEPT ![s] = t], config' = config
  PROVE  /\ \A q \in Places, w \in Webhooks :
              /\ q # s => /\ <<q, w>> \in dueBar' <=> <<q, w>> \in dueBar
                          /\ <<q, w>> \in Left' <=> <<q, w>> \in Left
                          /\ q \in closedBar' <=> q \in closedBar
              /\ q = s => /\ <<q, w>> \in dueBar' <=> w \in Owed(t, config[s[1]])
                          /\ <<q, w>> \in Left' <=> w \in t.todo
                          /\ q \in closedBar' <=> t.at \in {"done", "dropped"}
         /\ dueBar' \subseteq Items /\ Left' \subseteq Items /\ closedBar' \subseteq Places
  <1>1. ASSUME NEW q \in Places PROVE task'[q] = IF q = s THEN t ELSE task[q]
    BY DEF TypeOK
  <1>2. ASSUME NEW q \in Places, NEW w \in Webhooks
        PROVE  /\ <<q, w>> \in dueBar' <=> w \in Owed(task'[q], config[q[1]])
               /\ <<q, w>> \in Left' <=> w \in task'[q].todo
               /\ q \in closedBar' <=> task'[q].at \in {"done", "dropped"}
    <2>1. <<q, w>> \in Items /\ <<q, w>>[1] = q /\ <<q, w>>[2] = w
      BY DEF Items
    <2>2. QED
      BY <2>1, Zenon DEF dueBar, Left, Owed, closedBar
  <1>3. dueBar' \subseteq Items /\ Left' \subseteq Items /\ closedBar' \subseteq Places
    BY DEF dueBar, Left, closedBar
  <1>4. QED
    BY <1>1, <1>2, <1>3, MappedTasks, Zenon

\* Nothing is due, left or out for a task that has not been converted.
LEMMA NothingYet ==
  ASSUME TypeOK, Promised, NEW s \in Places, task[s].at \in Before
  PROVE  /\ s \notin closedBar /\ task[s].todo = {}
         /\ \A w \in Webhooks : <<s, w>> \notin dueBar /\ <<s, w>> \notin Out
  <1>1. task[s].at \notin {"emit", "done", "dropped"}
    BY DEF Before
  <1>2. Owed(task[s], config[s[1]]) = {}
    BY <1>1 DEF Owed
  <1>3. \A w \in Webhooks : <<s, w>> \notin dueBar
    BY <1>2, MappedTasks
  <1>4. s \notin closedBar
    BY <1>1 DEF closedBar
  <1>5. \A w \in Webhooks : <<s, w>> \notin Out /\ <<s, w>> \notin Left
    BY <1>3 DEF Promised
  <1>6. task[s].todo \subseteq Webhooks
    BY DEF TypeOK, TaskType
  <1>7. task[s].todo = {}
    BY <1>5, <1>6, MappedTasks
  <1>8. QED
    BY <1>3, <1>4, <1>5, <1>7

\* What is out, or first in line, in the terms of the feed.
LEMMA WaitingIs ==
  ASSUME TypeOK
  PROVE  /\ {waitingBar[k] : k \in DOMAIN waitingBar} = Waiting \cup posting
         /\ Feed!Published = Out
         /\ waitingBar \in Seq(Items)
  <1>1. CASE posting = {}
    BY <1>1 DEF TypeOK, waitingBar, Waiting, Feed!Published, Out
  <1>2. CASE posting # {}
    <2> DEFINE x == CHOOSE item \in posting : TRUE
    <2>1. x \in posting /\ posting = {x} /\ x \in Items
      BY <1>2 DEF TypeOK
    <2>2. waitingBar = <<x>> \o queue
      BY <1>2 DEF waitingBar
    <2> HIDE DEF x
    <2>3. queue \in Seq(Items) /\ Len(queue) \in Nat /\ DOMAIN queue = 1..Len(queue)
      BY DEF TypeOK
    <2>4. /\ waitingBar \in Seq(Items) /\ DOMAIN waitingBar = 1..(Len(queue) + 1)
          /\ waitingBar[1] = x /\ \A k \in 1..Len(queue) : waitingBar[k + 1] = queue[k]
      BY <2>1, <2>2, <2>3
    <2>5. ASSUME NEW k \in DOMAIN waitingBar PROVE waitingBar[k] \in Waiting \cup posting
      <3>1. CASE k = 1
        BY <2>1, <2>4, <3>1
      <3>2. CASE k # 1
        <4>1. k - 1 \in 1..Len(queue) /\ k = (k - 1) + 1
          BY <2>3, <2>4, <3>2
        <4>2. waitingBar[k] = queue[k - 1]
          BY <2>4, <4>1
        <4>3. QED
          BY <2>3, <4>1, <4>2 DEF Waiting
      <3>3. QED
        BY <3>1, <3>2
    <2>6. ASSUME NEW k \in DOMAIN queue
          PROVE  k + 1 \in DOMAIN waitingBar /\ waitingBar[k + 1] = queue[k]
      BY <2>3, <2>4
    <2>7. 1 \in DOMAIN waitingBar /\ waitingBar[1] = x
      BY <2>3, <2>4
    <2>8. {waitingBar[k] : k \in DOMAIN waitingBar} = Waiting \cup posting
      BY <2>1, <2>5, <2>6, <2>7 DEF Waiting
    <2>9. QED
      BY <2>4, <2>8 DEF Feed!Published, Out
  <1>3. QED
    BY <1>1, <1>2

LEMMA InOrder ==
  ASSUME NEW q \in Seq(Items), NEW x \in Items
  PROVE  /\ Head(<<x>> \o q) = x /\ Tail(<<x>> \o q) = q /\ <<x>> \o q # <<>>
         /\ \A y \in Items : Append(<<x>> \o q, y) = <<x>> \o Append(q, y)
         /\ q # <<>> => <<Head(q)>> \o Tail(q) = q
  OBVIOUS
LEMMA SameItems ==
  ASSUME NEW X \in SUBSET Items, NEW Y \in SUBSET Items,
         \A q \in Places, w \in Webhooks : <<q, w>> \in X <=> <<q, w>> \in Y
  PROVE  X = Y
  BY DEF Items

LEMMA SameOut ==
  ASSUME UNCHANGED <<queue, posting, delivered, failed>>
  PROVE  Out' = Out /\ waitingBar' = waitingBar
  BY DEF Out, Waiting, waitingBar

\* Steps between two stages before the conversion, and those of the receipts.
LEMMA QuietRefines ==
  ASSUME TypeOK, Promised, NEW s \in Places, NEW t, task' = [task EXCEPT ![s] = t],
         UNCHANGED <<config, queue, emitter>>,
         \/ t.at = task[s].at /\ t.event = task[s].event /\ t.todo = task[s].todo
         \/ /\ task[s].at \in Before /\ t.at \in Before /\ t.todo = {}
            /\ t.at = "convert" => Wanted(t.event, config[s[1]])
  PROVE  Promised' /\ UNCHANGED FeedVars
  <1>1. UNCHANGED <<config, queue, alive, posting, delivered, failed>>
    BY DEF emitter
  <1>2. /\ Owed(t, config[s[1]]) = Owed(task[s], config[s[1]])
        /\ t.todo = task[s].todo
        /\ t.at \in {"done", "dropped"} <=> task[s].at \in {"done", "dropped"}
        /\ t.at = "convert" => Wanted(t.event, config[s[1]])
    <2>1. CASE t.at = task[s].at /\ t.event = task[s].event /\ t.todo = task[s].todo
      BY <2>1, Zenon DEF Owed, Promised
    <2>2. CASE /\ task[s].at \in Before /\ t.at \in Before /\ t.todo = {}
               /\ t.at = "convert" => Wanted(t.event, config[s[1]])
      <3>1. task[s].todo = {}
        BY <2>2, NothingYet
      <3>2. QED
        BY <2>2, <3>1 DEF Owed, Before
    <2>3. QED
      BY <2>1, <2>2
  <1>3. \A q \in Places, w \in Webhooks :
          /\ <<q, w>> \in dueBar' <=> <<q, w>> \in dueBar
          /\ <<q, w>> \in Left' <=> <<q, w>> \in Left
          /\ q \in closedBar' <=> q \in closedBar
    BY <1>1, <1>2, MappedStep, MappedTasks
  <1>4. dueBar' = dueBar /\ Left' = Left
    <2>1. dueBar \in SUBSET Items /\ dueBar' \in SUBSET Items /\ Left \in SUBSET Items /\ Left' \in SUBSET Items
      BY <1>1, MappedStep, MappedTypes
    <2>2. QED
      BY <1>3, <2>1, SameItems, Zenon
  <1>5. closedBar' = closedBar
    BY <1>1, <1>3, MappedStep, MappedTypes DEF Webhooks
  <1>6. Out' = Out /\ waitingBar' = waitingBar
    BY <1>1, SameOut
  <1>7. ASSUME NEW q \in Places, task'[q].at = "convert"
        PROVE  Wanted(task'[q].event, config'[q[1]])
    <2>1. task'[q] = IF q = s THEN t ELSE task[q]
      BY DEF TypeOK
    <2>2. QED
      BY <1>1, <1>2, <1>7, <2>1 DEF Promised
  <1>8. Promised'
    BY <1>1, <1>4, <1>6, <1>7 DEF Promised
  <1>9. QED
    BY <1>1, <1>4, <1>5, <1>6, <1>8 DEF FeedVars

\* A handler that ends has nothing left to emit.
LEMMA EndRefines ==
  ASSUME TypeOK, Promised, NEW s \in Places, NEW t, task' = [task EXCEPT ![s] = t],
         UNCHANGED <<config, queue, emitter>>,
         t.at \in {"done", "dropped"}, t.todo = {}, task[s].todo = {},
         Owed(t, config[s[1]]) = Owed(task[s], config[s[1]])
  PROVE  Promised' /\ Feed!Close(s)
  <1>1. UNCHANGED <<config, queue, alive, posting, delivered, failed>>
    BY DEF emitter
  <1>2. \A q \in Places, w \in Webhooks :
          /\ <<q, w>> \in dueBar' <=> <<q, w>> \in dueBar
          /\ <<q, w>> \in Left' <=> <<q, w>> \in Left
          /\ q \in closedBar' <=> q \in closedBar \cup {s}
    BY <1>1, MappedStep, MappedTasks
  <1>3. dueBar' = dueBar /\ Left' = Left
    <2>1. dueBar \in SUBSET Items /\ dueBar' \in SUBSET Items /\ Left \in SUBSET Items /\ Left' \in SUBSET Items
      BY <1>1, MappedStep, MappedTypes
    <2>2. QED
      BY <1>2, <2>1, SameItems, Zenon
  <1>4. closedBar' = closedBar \cup {s}
    <2>1. closedBar' \subseteq Places /\ closedBar \cup {s} \subseteq Places
      BY <1>1, MappedStep, MappedTypes
    <2>2. \A q \in Places : q \in closedBar' <=> q \in closedBar \cup {s}
      BY <1>2 DEF Webhooks
    <2>3. QED
      BY <2>1, <2>2
  <1>5. Out' = Out /\ waitingBar' = waitingBar
    BY <1>1, SameOut
  <1>6. ASSUME NEW q \in Places, task'[q].at = "convert"
        PROVE  Wanted(task'[q].event, config'[q[1]])
    <2>1. task'[q] = IF q = s THEN t ELSE task[q]
      BY DEF TypeOK
    <2>2. QED
      BY <1>1, <1>6, <2>1 DEF Promised
  <1>7. Promised'
    BY <1>1, <1>3, <1>5, <1>6 DEF Promised
  <1>8. dueBar \cap Feed!NoticesOf(s) \subseteq Feed!Published
    <2>1. \A w \in Webhooks : <<s, w>> \notin Left
      BY MappedTasks
    <2>2. dueBar \cap Feed!NoticesOf(s) \subseteq Out
      BY <2>1 DEF Promised, Feed!NoticesOf, Webhooks
    <2>3. QED
      BY <2>2, WaitingIs
  <1>9. QED
    BY <1>1, <1>3, <1>4, <1>5, <1>7, <1>8 DEF Feed!Close

\* A conversion makes due what the handler is to emit.
LEMMA AcceptRefines ==
  ASSUME TypeOK, Promised, NEW s \in Places, NEW t, task' = [task EXCEPT ![s] = t],
         UNCHANGED <<config, queue, emitter>>,
         task[s].at \in Before, t.at = "emit", t.todo = Owed(t, config[s[1]])
  PROVE  Promised' /\ Feed!Accept(s)
  <1>1. UNCHANGED <<config, queue, alive, posting, delivered, failed>>
    BY DEF emitter
  <1>2. /\ s \notin closedBar /\ \A w \in Webhooks : <<s, w>> \notin dueBar /\ <<s, w>> \notin Out
        /\ \A w \in Webhooks : <<s, w>> \notin Left
    BY NothingYet, MappedTasks
  <1> DEFINE new == {n \in {s} \X Webhooks : n[2] \in t.todo}
  <1>3. t.todo \subseteq Webhooks
    BY DEF Owed
  <1>4. \A w \in Webhooks : <<s, w>> \in new <=> w \in t.todo
    OBVIOUS
  <1>5. new \subseteq Items /\ \A q \in Places, w \in Webhooks : <<q, w>> \in new => q = s
    BY DEF Items
  <1> HIDE DEF new
  <1>6. \A q \in Places, w \in Webhooks :
          /\ <<q, w>> \in dueBar' <=> <<q, w>> \in dueBar \cup new
          /\ <<q, w>> \in Left' <=> <<q, w>> \in Left \cup new
          /\ q \in closedBar' <=> q \in closedBar
    BY <1>1, <1>2, <1>4, <1>5, MappedStep
  <1>7. dueBar' = dueBar \cup new
    <2>1. (dueBar \cup new) \in SUBSET Items /\ dueBar' \in SUBSET Items
      BY <1>1, <1>5, MappedStep, MappedTypes
    <2>2. \A q \in Places, w \in Webhooks : <<q, w>> \in dueBar' <=> <<q, w>> \in dueBar \cup new
      BY <1>6
    <2>3. QED
      BY <2>1, <2>2, SameItems, Zenon
  <1>8. Left' = Left \cup new
    <2>1. (Left \cup new) \in SUBSET Items /\ Left' \in SUBSET Items
      BY <1>1, <1>5, MappedStep, MappedTypes
    <2>2. \A q \in Places, w \in Webhooks : <<q, w>> \in Left' <=> <<q, w>> \in Left \cup new
      BY <1>6
    <2>3. QED
      BY <2>1, <2>2, SameItems, Zenon
  <1>9. closedBar' = closedBar
    BY <1>1, <1>6, MappedStep, MappedTypes DEF Webhooks
  <1>10. Out' = Out /\ waitingBar' = waitingBar
    BY <1>1, SameOut
  <1>11. ASSUME NEW q \in Places, task'[q].at = "convert"
        PROVE  Wanted(task'[q].event, config'[q[1]])
    <2>1. task'[q] = IF q = s THEN t ELSE task[q]
      BY DEF TypeOK
    <2>2. QED
      BY <1>1, <1>11, <2>1 DEF Promised
  <1>12. Out \cap new = {}
    BY <1>2, <1>5 DEF Items
  <1>13. \A q \in Places : <<q, "instance">> \in Left' => <<q, "global">> \notin Out'
    BY <1>2, <1>5, <1>8, <1>10 DEF Promised, Webhooks
  <1>14. Promised'
    BY <1>1, <1>7, <1>8, <1>10, <1>11, <1>12, <1>13 DEF Promised
  <1>15. /\ new \in SUBSET Feed!NoticesOf(s) /\ dueBar \cap Feed!NoticesOf(s) = {}
    BY <1>2 DEF Feed!NoticesOf, Webhooks, new
  <1>16. QED
    BY <1>1, <1>2, <1>7, <1>9, <1>10, <1>14, <1>15 DEF Feed!Accept
\* What a handler sends into the channel is due and new, and not that of the instance
\* after the global one.
LEMMA PublishRefines ==
  ASSUME TypeOK, Promised, NEW s \in Places, Emit(s), task[s].todo # {},
         queue' = Append(queue, <<s, Following(task[s].todo)>>),
         task' = [task EXCEPT ![s].todo = @ \ {Following(@)}]
  PROVE  Promised' /\ \E w \in Webhooks : Feed!Publish(s, w)
  <1> DEFINE w == Following(task[s].todo)
             t == [task[s] EXCEPT !.todo = task[s].todo \ {w}]
             item == <<s, w>>
  <1>1. UNCHANGED <<config, alive, posting, delivered, failed>> /\ task[s].at = "emit"
    BY DEF Emit, emitter
  <1>2. task[s] \in TaskType /\ task[s].todo \in SUBSET Webhooks
    BY DEF TypeOK, TaskType
  <1>3. w \in task[s].todo /\ w \in Webhooks /\ (w = "global" => "instance" \notin task[s].todo)
    BY <1>2, FollowingTyped DEF Following
  <1>4. t.at = task[s].at /\ t.event = task[s].event /\ t.todo = task[s].todo \ {w}
    BY <1>2 DEF TaskType
  <1>5. task' = [task EXCEPT ![s] = t] /\ queue' = Append(queue, item)
    OBVIOUS
  <1>6. Owed(t, config[s[1]]) = Owed(task[s], config[s[1]])
    BY <1>4, Zenon DEF Owed
  <1>7. item \in Items /\ item \in Left /\ item \notin Out /\ item \in dueBar
    <2>1. item \in Items /\ item \in Left
      BY <1>3, MappedTasks DEF Items
    <2>2. QED
      BY <2>1 DEF Promised
  <1> HIDE DEF w, t
  <1>8. \A q \in Places, v \in Webhooks :
          /\ <<q, v>> \in dueBar' <=> <<q, v>> \in dueBar
          /\ <<q, v>> \in Left' <=> <<q, v>> \in Left \ {item}
          /\ q \in closedBar' <=> q \in closedBar
    BY <1>1, <1>4, <1>5, <1>6, MappedStep, MappedTasks
  <1>9. dueBar' = dueBar
    <2>1. dueBar \in SUBSET Items /\ dueBar' \in SUBSET Items
      BY <1>1, <1>5, MappedStep, MappedTypes
    <2>2. QED
      BY <1>8, <2>1, SameItems, Zenon
  <1>10. Left' = Left \ {item}
    <2>1. (Left \ {item}) \in SUBSET Items /\ Left' \in SUBSET Items
      BY <1>1, <1>5, MappedStep, MappedTypes
    <2>2. \A q \in Places, v \in Webhooks : <<q, v>> \in Left' <=> <<q, v>> \in Left \ {item}
      BY <1>8
    <2>3. QED
      BY <2>1, <2>2, SameItems, Zenon
  <1>11. closedBar' = closedBar
    BY <1>1, <1>5, <1>8, MappedStep, MappedTypes DEF Webhooks
  <1>12. queue \in Seq(Items)
    BY DEF TypeOK
  <1>13. Waiting' = Waiting \cup {item}
    BY <1>5, <1>7, <1>12 DEF Waiting
  <1>14. Out' = Out \cup {item}
    BY <1>1, <1>13 DEF Out
  <1>15. waitingBar' = Append(waitingBar, item)
    <2>1. CASE posting = {}
      BY <1>1, <1>5, <2>1 DEF waitingBar
    <2>2. CASE posting # {}
      <3> DEFINE x == CHOOSE i \in posting : TRUE
      <3>1. x \in Items
        BY <2>2 DEF TypeOK
      <3>2. waitingBar = <<x>> \o queue
        BY <2>2 DEF waitingBar
      <3>3. waitingBar' = <<x>> \o queue'
        BY <1>1, <2>2 DEF waitingBar
      <3> HIDE DEF x, item
      <3>4. QED
        BY <1>5, <1>7, <1>12, <3>1, <3>2, <3>3, InOrder
    <2>3. QED
      BY <2>1, <2>2
  <1>16. w = "instance" => <<s, "global">> \notin Out
    BY <1>7 DEF Promised
  <1>17. ASSUME NEW q \in Places, <<q, "instance">> \in Left' PROVE <<q, "global">> \notin Out'
    <2>1. <<q, "instance">> \in Left /\ <<q, "global">> \notin Out
      BY <1>10, <1>17 DEF Promised
    <2>2. <<q, "global">> # item
      BY <1>3, <2>1, MappedTasks DEF Webhooks
    <2>3. QED
      BY <1>14, <2>1, <2>2
  <1>18. ASSUME NEW q \in Places, task'[q].at = "convert"
         PROVE  Wanted(task'[q].event, config'[q[1]])
    <2>1. task'[q] = IF q = s THEN t ELSE task[q]
      BY <1>5 DEF TypeOK
    <2>2. QED
      BY <1>1, <1>4, <1>18, <2>1 DEF Promised
  <1>19. Promised'
    BY <1>1, <1>7, <1>9, <1>10, <1>14, <1>17, <1>18 DEF Promised
  <1>20. s \notin closedBar
    BY <1>1 DEF closedBar
  <1>21. Feed!Publish(s, w)
    BY <1>1, <1>7, <1>9, <1>11, <1>15, <1>16, <1>20, WaitingIs DEF Feed!Publish
  <1>22. QED
    BY <1>3, <1>19, <1>21

LEMMA GotoIs ==
  ASSUME TypeOK, NEW s \in Places, NEW l, Goto(s, l)
  PROVE  \E t : /\ task' = [task EXCEPT ![s] = t]
               /\ t.at = l /\ t.event = task[s].event /\ t.todo = task[s].todo
  <1> DEFINE t == [task[s] EXCEPT !.at = l]
  <1>1. t.at = l /\ t.event = task[s].event /\ t.todo = task[s].todo
    BY DEF TypeOK, TaskType
  <1>2. task' = [task EXCEPT ![s] = t]
    BY DEF Goto
  <1>3. QED
    BY <1>1, <1>2

\* A handler that gives up before it has emitted.
LEMMA GiveUpRefines ==
  ASSUME TypeOK, Promised, NEW s \in Places, NEW l \in {"done", "dropped"}, Goto(s, l),
         UNCHANGED <<config, queue, emitter>>, task[s].at \in Before,
         l = "done" => ~(Converts(task[s].event) /\ Wanted(task[s].event, config[s[1]]))
  PROVE  Promised' /\ Feed!Close(s)
  <1>1. PICK t : /\ task' = [task EXCEPT ![s] = t]
                 /\ t.at = l /\ t.event = task[s].event /\ t.todo = task[s].todo
    BY GotoIs
  <1>2. task[s].todo = {}
    BY NothingYet
  <1>3. Owed(t, config[s[1]]) = Owed(task[s], config[s[1]])
    BY <1>1 DEF Owed, Before
  <1>4. QED
    BY <1>1, <1>2, <1>3, EndRefines

LEMMA HandlerRefines ==
  ASSUME TypeOK, Promised, NEW s \in Places, Handler(s)
  PROVE  Promised' /\ FeedStep
  <1>0. \A w \in Webhooks : w \in {"instance", "global"}
    BY DEF Webhooks
  <1>1. CASE Acquire(s)
    <2>1. task[s].at \in Before /\ Goto(s, "load") /\ UNCHANGED <<config, queue, emitter>>
      BY <1>1 DEF Acquire, Before
    <2>2. PICK t : /\ task' = [task EXCEPT ![s] = t]
                   /\ t.at = "load" /\ t.event = task[s].event /\ t.todo = task[s].todo
      BY <2>1, GotoIs
    <2>3. "load" \in Before /\ t.todo = {}
      BY <2>1, <2>2, NothingYet DEF Before
    <2>4. QED
      BY <2>1, <2>2, <2>3, QuietRefines DEF FeedStep
  <1>2. CASE Route(s)
    <2>0. task[s].at \in Before /\ UNCHANGED <<config, queue, emitter>>
      BY <1>2 DEF Route, Before
    <2>1. CASE ~Wanted(task[s].event, config[s[1]]) /\ Goto(s, "done")
      BY <2>0, <2>1, GiveUpRefines DEF FeedStep, Feed!Next
    <2>2. CASE Goto(s, "dropped")
      BY <2>0, <2>2, GiveUpRefines DEF FeedStep, Feed!Next
    <2>3. CASE /\ Wanted(task[s].event, config[s[1]])
               /\ task' = [task EXCEPT ![s].at = "convert",
                     ![s].delivery = IF AutoRead(task[s].event, config[s[1]]) THEN "due" ELSE @,
                     ![s].read = IF AutoRead(task[s].event, config[s[1]]) THEN "timer" ELSE @]
      <3> DEFINE t == [task[s] EXCEPT !.at = "convert",
                  !.delivery = IF AutoRead(task[s].event, config[s[1]]) THEN "due" ELSE @,
                  !.read = IF AutoRead(task[s].event, config[s[1]]) THEN "timer" ELSE @]
      <3>1. t.at = "convert" /\ t.event = task[s].event /\ t.todo = task[s].todo
        BY DEF TypeOK, TaskType
      <3>2. task' = [task EXCEPT ![s] = t]
        BY <2>3
      <3> HIDE DEF t
      <3>3. t.at \in Before /\ t.todo = {} /\ Wanted(t.event, config[s[1]])
        BY <2>0, <2>3, <3>1, NothingYet DEF Before
      <3>4. QED
        BY <2>0, <3>2, <3>3, QuietRefines DEF FeedStep
    <2>4. QED
      BY <1>2, <2>1, <2>2, <2>3 DEF Route
  <1>3. CASE Convert(s)
    <2>0. /\ task[s].at \in Before /\ UNCHANGED <<config, queue, emitter>>
          /\ Wanted(task[s].event, config[s[1]])
      BY <1>3 DEF Convert, Before, Promised
    <2>1. CASE ~Converts(task[s].event) /\ Goto(s, "done")
      BY <2>0, <2>1, GiveUpRefines DEF FeedStep, Feed!Next
    <2>2. CASE Goto(s, "dropped")
      BY <2>0, <2>2, GiveUpRefines DEF FeedStep, Feed!Next
    <2>3. CASE /\ Converts(task[s].event)
               /\ task' = [task EXCEPT ![s].at = "emit",
                     ![s].todo = Targets(task[s].event, config[s[1]], GlobalUrl)]
      <3> DEFINE targets == Targets(task[s].event, config[s[1]], GlobalUrl)
                 t == [task[s] EXCEPT !.at = "emit", !.todo = targets]
      <3>1. targets \subseteq Webhooks
        BY TargetsTyped
      <3> HIDE DEF targets
      <3>2. t.at = "emit" /\ t.event = task[s].event /\ t.todo = targets
        BY DEF TypeOK, TaskType
      <3>3. task' = [task EXCEPT ![s] = t]
        BY <2>3 DEF targets
      <3> HIDE DEF t
      <3>4. t.todo = Owed(t, config[s[1]])
        <4>1. Targets(t.event, config[s[1]], GlobalUrl) = targets
          BY <3>2 DEF targets
        <4>2. QED
          BY <2>0, <2>3, <3>1, <3>2, <4>1 DEF Owed
      <3>5. QED
        BY <2>0, <3>2, <3>3, <3>4, AcceptRefines DEF FeedStep, Feed!Next
    <2>4. QED
      BY <1>3, <2>1, <2>2, <2>3 DEF Convert
  <1>4. CASE Emit(s)
    <2>1. CASE task[s].todo = {} /\ Goto(s, "done") /\ UNCHANGED queue
      <3>1. task[s].at = "emit" /\ UNCHANGED <<config, queue, emitter>>
        BY <1>4, <2>1 DEF Emit
      <3>2. PICK t : /\ task' = [task EXCEPT ![s] = t]
                     /\ t.at = "done" /\ t.event = task[s].event /\ t.todo = task[s].todo
        BY <2>1, GotoIs
      <3>3. Owed(t, config[s[1]]) = Owed(task[s], config[s[1]])
        BY <3>1, <3>2 DEF Owed
      <3>4. QED
        BY <2>1, <3>1, <3>2, <3>3, EndRefines DEF FeedStep, Feed!Next
    <2>2. CASE /\ task[s].todo # {} /\ Len(queue) < BufferSize
               /\ queue' = Append(queue, <<s, Following(task[s].todo)>>)
               /\ task' = [task EXCEPT ![s].todo = @ \ {Following(@)}]
      BY <1>0, <1>4, <2>2, PublishRefines DEF FeedStep, Feed!Next
    <2>3. QED
      BY <1>4, <2>1, <2>2 DEF Emit
  <1>5. QED
    BY <1>1, <1>2, <1>3, <1>4 DEF Handler
\* Only the end of a request is a step of the feed: its item leaves the line.
LEMMA EmitterRefines ==
  ASSUME TypeOK, Promised, Emitter
  PROVE  Promised' /\ FeedStep
  <1>0. queue \in Seq(Items) /\ posting \subseteq Items
    BY DEF TypeOK
  <1>1. UNCHANGED <<config, task>>
    BY DEF Emitter, Receive, PostOk, PostFail
  <1>2. dueBar' = dueBar /\ closedBar' = closedBar /\ Left' = Left
    BY <1>1 DEF dueBar, closedBar, Left
  <1>3. CASE Receive
    <2>1. /\ alive /\ posting = {} /\ queue # <<>> /\ posting' = {Head(queue)}
          /\ queue' = Tail(queue) /\ UNCHANGED <<alive, delivered, failed>>
      BY <1>3 DEF Receive
    <2>2. Waiting' \cup posting' = Waiting
      <3>1. /\ Len(queue) \in Nat \ {0} /\ Head(queue) = queue[1] /\ DOMAIN queue = 1..Len(queue)
            /\ DOMAIN queue' = 1..(Len(queue) - 1)
            /\ \A k \in 1..(Len(queue) - 1) : queue'[k] = queue[k + 1]
        BY <1>0, <2>1
      <3>2. ASSUME NEW k \in DOMAIN queue PROVE queue[k] \in Waiting' \cup posting'
        <4>1. CASE k = 1
          BY <2>1, <3>1, <4>1
        <4>2. CASE k # 1
          <5>1. k - 1 \in DOMAIN queue' /\ queue'[k - 1] = queue[k]
            BY <3>1, <3>2, <4>2
          <5>2. QED
            BY <5>1 DEF Waiting
        <4>3. QED
          BY <4>1, <4>2
      <3>3. ASSUME NEW k \in DOMAIN queue' PROVE queue'[k] \in Waiting
        <4>1. k + 1 \in DOMAIN queue /\ queue'[k] = queue[k + 1]
          BY <3>1, <3>3
        <4>2. QED
          BY <4>1 DEF Waiting
      <3>4. Head(queue) \in Waiting
        BY <3>1 DEF Waiting
      <3>5. QED
        BY <2>1, <3>2, <3>3, <3>4 DEF Waiting
    <2>3. Out' = Out
      BY <2>1, <2>2 DEF Out
    <2>4. Head(queue) \in Items /\ <<Head(queue)>> \o Tail(queue) = queue
      <3>1. Head(queue) \in Items
        BY <1>0, <2>1
      <3>2. QED
        BY <1>0, <2>1, <3>1, InOrder
    <2>5. waitingBar' = <<Head(queue)>> \o Tail(queue) /\ waitingBar = queue
      BY <2>1 DEF waitingBar
    <2>6. UNCHANGED FeedVars
      BY <1>2, <2>1, <2>4, <2>5 DEF FeedVars
    <2>7. Promised'
      BY <1>1, <1>2, <2>1, <2>3 DEF Promised
    <2>8. QED
      BY <2>6, <2>7 DEF FeedStep
  <1>4. CASE PostOk \/ PostFail
    <2>1. /\ posting # {} /\ posting' = {} /\ UNCHANGED queue
          /\ delivered' \cup failed' = delivered \cup failed \cup posting
      BY <1>4 DEF PostOk, PostFail
    <2>2. Waiting' = Waiting
      BY <2>1 DEF Waiting
    <2>3. Out' = Out
      BY <2>1, <2>2 DEF Out
    <2>4. Promised'
      BY <1>1, <1>2, <2>1, <2>3 DEF Promised
    <2> DEFINE x == CHOOSE item \in posting : TRUE
    <2>5. x \in posting /\ posting = {x} /\ x \in Items
      BY <2>1 DEF TypeOK
    <2>6. waitingBar = <<x>> \o queue
      BY <2>1 DEF waitingBar
    <2>7. waitingBar' = queue
      BY <2>1 DEF waitingBar
    <2> HIDE DEF x
    <2>8. waitingBar # <<>> /\ Head(waitingBar) = x /\ waitingBar' = Tail(waitingBar)
      BY <1>0, <2>5, <2>6, <2>7, InOrder
    <2>9. alive
      BY <2>1 DEF Promised
    <2>10. CASE PostOk
      <3>1. delivered' = delivered \cup {x} /\ UNCHANGED <<failed, alive>>
        BY <2>5, <2>10 DEF PostOk
      <3>2. Feed!Deliver
        BY <1>2, <2>8, <2>9, <3>1 DEF Feed!Deliver
      <3>3. QED
        BY <2>4, <3>2 DEF FeedStep, Feed!Next
    <2>11. CASE PostFail
      <3>1. /\ failed' = failed \cup {x} /\ alive' = FALSE
            /\ delivered' \in {delivered, delivered \cup {x}}
        BY <2>5, <2>11 DEF PostFail
      <3>2. Feed!Break
        BY <1>2, <2>8, <2>9, <3>1 DEF Feed!Break
      <3>3. QED
        BY <2>4, <3>2 DEF FeedStep, Feed!Next
    <2>12. QED
      BY <1>4, <2>10, <2>11
  <1>5. QED
    BY <1>3, <1>4 DEF Emitter

LEMMA NextRefines == TypeOK /\ Promised /\ [Next]_vars => Promised' /\ FeedStep
  <1> SUFFICES ASSUME TypeOK, Promised, [Next]_vars PROVE Promised' /\ FeedStep
    OBVIOUS
  <1>1. ASSUME NEW i \in Ids, NEW n \in 1..MaxEvents, Dispatch(i, n) PROVE Promised' /\ FeedStep
    <2>1. PICK e \in Events :
            task' = [task EXCEPT ![<<i, n>>] = [NoTask EXCEPT !.event = e, !.at = "acquire"]]
      BY <1>1 DEF Dispatch
    <2> DEFINE t == [NoTask EXCEPT !.event = e, !.at = "acquire"]
    <2>2. t.at = "acquire" /\ t.todo = {}
      BY DEF NoTask
    <2>3. <<i, n>> \in Places /\ task[<<i, n>>].at \in Before
      BY <1>1, PipelineAssumption DEF Dispatch, Places, Before
    <2>4. UNCHANGED <<config, queue, emitter>> /\ task' = [task EXCEPT ![<<i, n>>] = t]
      BY <1>1, <2>1 DEF Dispatch
    <2> HIDE DEF t
    <2>5. t.at \in Before
      BY <2>2 DEF Before
    <2>6. QED
      BY <2>2, <2>3, <2>4, <2>5, QuietRefines DEF FeedStep
  <1>2. ASSUME NEW s \in Places, SendDeliveryReceipt(s) \/ SendReadReceipt(s)
        PROVE  Promised' /\ FeedStep
    <2>1. task[s] \in TaskType
      BY DEF TypeOK
    <2>2. PICK t \in TaskType : /\ task' = [task EXCEPT ![s] = t] /\ t.at = task[s].at
                                /\ t.event = task[s].event /\ t.todo = task[s].todo
      <3>1. CASE SendDeliveryReceipt(s)
        <4> DEFINE t == [task[s] EXCEPT !.delivery = "tried"]
        <4>1. t \in TaskType /\ t.at = task[s].at /\ t.event = task[s].event /\ t.todo = task[s].todo
          BY <2>1 DEF TaskType
        <4>2. task' = [task EXCEPT ![s] = t]
          BY <3>1 DEF SendDeliveryReceipt
        <4>3. QED BY <4>1, <4>2
      <3>2. CASE SendReadReceipt(s)
        <4> DEFINE t == [task[s] EXCEPT !.read = "tried"]
        <4>1. t \in TaskType /\ t.at = task[s].at /\ t.event = task[s].event /\ t.todo = task[s].todo
          BY <2>1 DEF TaskType
        <4>2. task' = [task EXCEPT ![s] = t]
          BY <3>2 DEF SendReadReceipt
        <4>3. QED BY <4>1, <4>2
      <3>3. QED BY <1>2, <3>1, <3>2
    <2>3. UNCHANGED <<config, queue, emitter>>
      BY <1>2 DEF SendDeliveryReceipt, SendReadReceipt
    <2>4. QED
      BY <2>2, <2>3, QuietRefines DEF FeedStep
  <1>3. CASE UNCHANGED vars
    <2>1. UNCHANGED <<config, task, queue, alive, posting, delivered, failed>>
      BY <1>3 DEF vars, emitter
    <2>2. dueBar' = dueBar /\ Left' = Left /\ closedBar' = closedBar
      BY <2>1 DEF dueBar, Left, closedBar
    <2>3. Out' = Out /\ waitingBar' = waitingBar
      BY <2>1, SameOut
    <2>4. QED
      BY <2>1, <2>2, <2>3 DEF Promised, FeedStep, FeedVars
  <1>4. QED
    BY <1>1, <1>2, <1>3, HandlerRefines, EmitterRefines DEF Next

LEMMA InitRefines == Init => Promised /\ Feed!Init
  <1> SUFFICES ASSUME Init PROVE Promised /\ Feed!Init
    OBVIOUS
  <1>1. \A s \in Places : task[s].at \in {"none", "load"} /\ task[s].todo = {}
    BY DEF Init, NoTask
  <1>2. dueBar = {} /\ closedBar = {} /\ Left = {}
    BY <1>1, Zenon DEF dueBar, closedBar, Left, Items
  <1>3. Out = {} /\ waitingBar = <<>>
    BY DEF Init, Out, Waiting, waitingBar
  <1>4. \A s \in Places : task[s].at # "convert"
    BY <1>1
  <1>5. posting = {} /\ delivered = {} /\ failed = {} /\ alive = TRUE
    BY DEF Init
  <1>6. QED
    BY <1>2, <1>3, <1>4, <1>5 DEF Promised, Feed!Init

\* For every number of instances and events and every size of the semaphore and of the
\* channel, the webhooks see a feed: all that a handler made due is published before it
\* ends, the instance's before the global one, requests follow the order of the channel,
\* and none follows a failure.
THEOREM PipelineIsFeed == Spec => RefinesFeed
  <1>1. TypeOK /\ Promised /\ [Next]_vars => [Feed!Next]_FeedVars
    BY NextRefines DEF FeedStep
  <1>2. TypeOK /\ Promised /\ [Next]_vars => Promised'
    BY NextRefines
  <1>3. QED
    BY <1>1, <1>2, InitRefines, InitTyped, NextTyped, PTL
       DEF Spec, RefinesFeed, Feed!Spec, Feed!vars, FeedVars
=============================================================================
