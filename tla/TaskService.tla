----------------------------- MODULE TaskService -----------------------------
(***************************************************************************)
(* What a request may rely on when it hands a conversion to the worker     *)
(* pool, however long the queue is and whoever does the work: its task is  *)
(* run once, and the result is there until the request takes it.  Only     *)
(* when the context of the request is done may the request leave before,   *)
(* and only then may its task end without a result.                        *)
(***************************************************************************)
CONSTANT Reqs

VARIABLES
    waiting,  \* requests that have handed in a task and wait for its result
    open,     \* tasks that have been handed in and not come to their end
    result,   \* what is there for each request: "empty", "error" or "data"
    cancelled \* requests whose context is done

vars == <<waiting, open, result, cancelled>>

Init ==
    /\ waiting = {} /\ open = {} /\ cancelled = {}
    /\ result = [r \in Reqs |-> "empty"]

HandIn(r) ==
    /\ r \notin waiting \cup open /\ result[r] = "empty"
    /\ waiting' = waiting \cup {r} /\ open' = open \cup {r}
    /\ UNCHANGED <<result, cancelled>>

Run(r) ==
    /\ r \in open
    /\ open' = open \ {r}
    /\ \/ /\ r \in waiting
          /\ \E res \in {"error", "data"} : result' = [result EXCEPT ![r] = res]
       \/ r \in cancelled /\ UNCHANGED result
    /\ UNCHANGED <<waiting, cancelled>>

Collect(r) ==
    /\ r \in waiting /\ result[r] = "data"
    /\ waiting' = waiting \ {r}
    /\ result' = [result EXCEPT ![r] = "empty"]
    /\ UNCHANGED <<open, cancelled>>

\* The request answers with an error, which ends its context.
GiveUp(r) ==
    /\ r \in waiting /\ (result[r] = "error" \/ r \in cancelled)
    /\ waiting' = waiting \ {r}
    /\ result' = [result EXCEPT ![r] = "empty"]
    /\ cancelled' = cancelled \cup {r}
    /\ UNCHANGED open

Cancel(r) ==
    /\ cancelled' = cancelled \cup {r}
    /\ UNCHANGED <<waiting, open, result>>

Next == \E r \in Reqs : HandIn(r) \/ Run(r) \/ Collect(r) \/ GiveUp(r) \/ Cancel(r)

Spec == Init /\ [][Next]_vars
=============================================================================
