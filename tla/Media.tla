------------------------------- MODULE Media -------------------------------
(***************************************************************************)
(* How the file of a request becomes the bytes that are uploaded: it is    *)
(* downloaded into a pooled buffer (converter.go, buffer_pool.go) and      *)
(* converted, an image by the worker pool (worker_pool.go), audio by the   *)
(* request itself.  Outbound has the requests and the specification.       *)
(*                                                                         *)
(* The bytes of a file are named by the request that asked for it.  Memory *)
(* is modelled by arrays, because download returns a slice of the array    *)
(* behind a buffer that it gives back to the pool.                         *)
(***************************************************************************)
EXTENDS Naturals, Sequences, FiniteSets

CONSTANTS
    Reqs,    \* requests
    Workers, \* env.ConverterWorkers goroutines
    Buffers, \* buffers of the pool (bound)
    Arrays,  \* arrays behind the buffers (bound)
    NoReq, Partial, NoArray

ASSUME MediaAssumption ==
    /\ NoReq \notin Reqs /\ Partial \notin Reqs /\ Partial # NoReq
    /\ NoArray \notin Arrays
    /\ IsFiniteSet(Workers)

VARIABLES
    send,     \* the requests: kind, where, the buffer it fills, the array its input
              \* lies in, whose bytes its output was made of, and its answer
    array,    \* the array behind each buffer
    bytes,    \* whose bytes an array holds; Partial while it is written to
    queue,    \* WorkerPool.contextQueue
    worker,   \* the task of each worker
    fallback, \* tasks that SubmitWithContext runs in goroutines of their own
    done,     \* the result channel of each task
    cancelled \* requests whose context is done

memory == <<array, bytes>>
pool == <<queue, worker, fallback, done>>
media == <<send, memory, pool, cancelled>>

QueueSize == 2 * Cardinality(Workers)

\* What a channel offers: nothing, an error or a result.
Empty == [is |-> "empty", of |-> {}]
Error == [is |-> "error", of |-> {}]
Data(of) == [is |-> "data", of |-> of]

NoFiles ==
    /\ array = [b \in Buffers |-> NoArray]
    /\ bytes = [a \in Arrays |-> Partial]
    /\ queue = <<>>
    /\ worker = [w \in Workers |-> NoReq]
    /\ fallback = {}
    /\ done = [r \in Reqs |-> Empty]

Goto(r, l) == send' = [send EXCEPT ![r].at = l]

\* The request is answered; the HTTP server cancels its context.
Answered(r, answer) ==
    /\ send' = [send EXCEPT ![r] = [@ EXCEPT !.at = "end", !.answer = answer, !.data = NoArray,
                                             !.out = IF answer = "ok" THEN send[r].out ELSE {}]]
    /\ cancelled' = cancelled \cup {r}
\* Any step may fail.
Fails(r) == Answered(r, "failed")

\* The kinds of files that pass through the converter.
Converted == {"image", "audio", "document", "video", "statusAudio"}

\* clients.Load, the GET and, if that is answered with 200, GetBuffer: any buffer
\* nobody fills.  io.Copy starts to write into the array the buffer has.
Download(r) ==
    /\ send[r].at = "load" /\ send[r].kind \in Converted
    /\ \/ Fails(r) /\ UNCHANGED bytes
       \/ \E b \in Buffers :
             /\ UNCHANGED cancelled
             /\ \A q \in Reqs : send[q].at = "copy" => send[q].buf # b
             /\ send' = [send EXCEPT ![r].at = "copy", ![r].buf = b]
             /\ bytes' = [a \in Arrays |-> IF a = array[b] THEN Partial ELSE bytes[a]]
    /\ UNCHANGED <<array, pool>>

Referenced(a) == (\E b \in Buffers : array[b] = a) \/ (\E r \in Reqs : send[r].data = a)
AfterDownload(kind) ==
    CASE kind = "image" -> "submit"
      [] kind \in {"audio", "statusAudio"} -> "probe"
      [] OTHER -> "upload"

\* io.Copy ends, in the same array or, if the file did not fit, in a new one; the
\* slice is returned and the deferred PutBuffer gives the buffer back.
Copied(r) ==
    LET b == send[r].buf IN
    /\ send[r].at = "copy"
    /\ \/ Fails(r) /\ UNCHANGED memory
       \/ \E a \in Arrays :
             /\ UNCHANGED cancelled
             /\ a = array[b] \/ ~Referenced(a)
             /\ array' = [array EXCEPT ![b] = a]
             /\ bytes' = [bytes EXCEPT ![a] = r]
             /\ send' = [send EXCEPT ![r].at = AfterDownload(send[r].kind), ![r].buf = NoArray,
                               ![r].data = a]
    /\ UNCHANGED pool

\* Mutant: the queue is one longer than the channel.
SubmitOver(r) ==
    /\ send[r].at = "submit" /\ Goto(r, "wait")
    /\ IF Len(queue) <= QueueSize
         THEN queue' = Append(queue, r) /\ UNCHANGED fallback
         ELSE fallback' = fallback \cup {r} /\ UNCHANGED queue
    /\ UNCHANGED <<memory, worker, done, cancelled>>
\* Mutant: a task that finds the queue full is not run.
SubmitDrops(r) ==
    /\ send[r].at = "submit" /\ Goto(r, "wait")
    /\ queue' = IF Len(queue) < QueueSize THEN Append(queue, r) ELSE queue
    /\ UNCHANGED <<memory, worker, fallback, done, cancelled>>
\* SubmitWithContext: the select takes any case that is ready, and the default,
\* a goroutine for this task, when none is.
Submit(r) ==
    /\ send[r].at = "submit"
    /\ \/ r \in cancelled /\ Fails(r) /\ UNCHANGED <<queue, fallback>>
       \/ /\ Len(queue) < QueueSize
          /\ queue' = Append(queue, r)
          /\ Goto(r, "wait") /\ UNCHANGED <<fallback, cancelled>>
       \/ /\ r \notin cancelled /\ Len(queue) = QueueSize
          /\ fallback' = fallback \cup {r}
          /\ Goto(r, "wait") /\ UNCHANGED <<queue, cancelled>>
    /\ UNCHANGED <<memory, worker, done>>

Take(w) ==
    /\ worker[w] = NoReq /\ queue # <<>>
    /\ worker' = [worker EXCEPT ![w] = Head(queue)]
    /\ queue' = Tail(queue)
    /\ UNCHANGED <<send, memory, fallback, done, cancelled>>

\* Mutant: the worker waits for a receiver.
AnswerWaits(r) ==
    /\ send[r].at = "wait"
    /\ \E res \in {Data({bytes[send[r].data]}), Error} : done' = [done EXCEPT ![r] = res]
\* Mutant: only a successful conversion is reported.
AnswerData(r) ==
    \/ /\ send[r].at = "wait"
       /\ \E res \in {Data({bytes[send[r].data]}), Empty} : done' = [done EXCEPT ![r] = res]
    \/ r \in cancelled /\ UNCHANGED done
\* The conversion reads its input and succeeds or fails; the result goes into a
\* channel of its own that has room for it.  When the context is done it may be
\* dropped, and when the request is answered nobody receives it any more.
Answer(r) ==
    \/ /\ send[r].at = "wait"
       /\ \E res \in {Data({bytes[send[r].data]}), Error} : done' = [done EXCEPT ![r] = res]
    \/ r \in cancelled /\ UNCHANGED done

Work(w) ==
    /\ worker[w] # NoReq /\ Answer(worker[w])
    /\ worker' = [worker EXCEPT ![w] = NoReq]
    /\ UNCHANGED <<send, memory, queue, fallback, cancelled>>

WorkAlone(r) ==
    /\ r \in fallback /\ Answer(r)
    /\ fallback' = fallback \ {r}
    /\ UNCHANGED <<send, memory, queue, worker, cancelled>>

\* The end of ProcessMedia.
Await(r) ==
    /\ send[r].at = "wait"
    /\ \/ (r \in cancelled \/ done[r].is = "error") /\ Fails(r)
       \/ /\ done[r].is = "data"
          /\ send' = [send EXCEPT ![r].at = "upload", ![r].out = done[r].of]
          /\ UNCHANGED cancelled
    /\ done' = [done EXCEPT ![r] = Empty]
    /\ UNCHANGED <<memory, queue, worker, fallback>>

Reads(r, next) ==
    /\ send' = [send EXCEPT ![r].at = next, ![r].out = @ \cup {bytes[send[r].data]}]
    /\ UNCHANGED cancelled

\* convertToOpus reads its input for the duration, which it can do without, for the
\* audio and for the waveform.
ConvertToOpus(r) ==
    /\ \/ send[r].at = "probe" /\ Goto(r, "opus") /\ UNCHANGED cancelled
       \/ send[r].at = "opus" /\ (Reads(r, "waveform") \/ Fails(r))
       \/ send[r].at = "waveform" /\ (Reads(r, "upload") \/ Fails(r))
    /\ UNCHANGED <<memory, pool>>

\* The converter's part of a request, and a worker.
File(r) == Download(r) \/ Copied(r) \/ Submit(r) \/ Await(r) \/ ConvertToOpus(r)
Worker(w) == Take(w) \/ Work(w)

(***************************************************************************)
(* Properties of the pool; the specification that has them is Outbound's.  *)
(***************************************************************************)

Content == Reqs \cup {Partial}
Pooled(r) == \E k \in DOMAIN queue : queue[k] = r
AtWork(r) == \E w \in Workers : worker[w] = r
Reported(r) == done[r].is # "empty"

\* A task that a request waits for is in exactly one place, the queue, a worker, a
\* goroutine of its own or the answer, also when the queue is full and when other
\* requests give up; nothing is converted twice.
TaskCarried ==
    /\ \A j, k \in DOMAIN queue : queue[j] = queue[k] => j = k
    /\ \A v, w \in Workers : worker[v] = worker[w] => v = w \/ worker[v] = NoReq
    /\ \A r \in Reqs :
          /\ Pooled(r) => ~AtWork(r) /\ r \notin fallback /\ ~Reported(r)
          /\ AtWork(r) => r \notin fallback /\ ~Reported(r)
          /\ r \in fallback => ~Reported(r)
          /\ send[r].at = "wait" /\ r \notin cancelled
                => Pooled(r) \/ AtWork(r) \/ r \in fallback \/ Reported(r)

waitingBar == {r \in Reqs : send[r].at = "wait"}
openBar == {r \in Reqs : Pooled(r) \/ AtWork(r) \/ r \in fallback}
resultBar == [r \in Reqs |-> done[r].is]

Service == INSTANCE TaskService WITH waiting <- waitingBar, open <- openBar, result <- resultBar

\* The queue, its workers and the goroutines beside them are one service that runs every
\* task once and keeps its result for the request that waits, whatever its neighbours do.
RefinesService == Service!Spec
=============================================================================
