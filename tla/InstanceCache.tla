--------------------------- MODULE InstanceCache ---------------------------
(***************************************************************************)
(* The cache of instance records between Redis and the event handlers:     *)
(* getInstanceCached (event_emitter.go) fills it and starts a goroutine    *)
(* that drops the entry after ten seconds; UpdateWebhook writes the record *)
(* and then calls InvalidateCache; the other writers of records leave the  *)
(* cache alone.  Keys do not interact, so this is one instance.            *)
(***************************************************************************)
EXTENDS Naturals

CONSTANTS
    Readers,    \* event handlers that look the instance up at the same time (bound)
    Writers,    \* requests that change the record at the same time (bound)
    MaxVersion, \* changes of the record (bound)
    MaxTimers   \* expiry goroutines at the same time (bound)

ASSUME CacheAssumption == MaxVersion \in Nat \ {0} /\ MaxTimers \in Nat \ {0}

\* A record is named by its version.  0 stands for no record and for no entry.
None == 0

VARIABLES
    version, \* versions written so far
    stored,  \* the record in Redis
    entry,   \* instanceCache
    timers,  \* goroutines that will delete the entry
    reader,  \* getInstanceCached: where it is and the record it listed
    writer,  \* where the writer is and the version it wrote
    applied, \* history: the newest version whose UpdateWebhook was answered
    since,   \* history: since[r] is applied at the start of the lookup of r
    answer   \* history: what the last lookup of r returned

vars == <<version, stored, entry, timers, reader, writer, applied, since, answer>>

Init ==
    /\ version = 1 /\ stored = 1
    /\ entry = None /\ timers = 0
    /\ reader = [r \in Readers |-> [at |-> "idle", got |-> None]]
    /\ writer = [w \in Writers |-> [at |-> "idle", wrote |-> None]]
    /\ applied = None
    /\ since = [r \in Readers |-> None]
    /\ answer = [r \in Readers |-> None]

Begin(r) ==
    /\ reader[r].at = "idle"
    /\ reader' = [reader EXCEPT ![r] = [at |-> "load", got |-> None]]
    /\ since' = [since EXCEPT ![r] = applied]
    /\ answer' = [answer EXCEPT ![r] = None]
    /\ UNCHANGED <<version, stored, entry, timers, writer, applied>>

Return(r, v) ==
    /\ reader' = [reader EXCEPT ![r].at = "idle"]
    /\ answer' = [answer EXCEPT ![r] = v]

\* Mutant: a hit is stored again, with a timer of its own.
LoadRenews(r) ==
    /\ reader[r].at = "load"
    /\ reader' = [reader EXCEPT ![r] =
          IF entry # None THEN [at |-> "store", got |-> entry] ELSE [at |-> "list", got |-> None]]
    /\ UNCHANGED <<version, stored, entry, timers, writer, applied, since, answer>>
Load(r) ==
    /\ reader[r].at = "load"
    /\ IF entry # None
         THEN Return(r, entry)
         ELSE reader' = [reader EXCEPT ![r].at = "list"] /\ UNCHANGED answer
    /\ UNCHANGED <<version, stored, entry, timers, writer, applied, since>>

\* repo.List: SCAN finds the key; when it does not, or Redis fails, nothing is cached.
Scan(r) ==
    /\ reader[r].at = "list"
    /\ \/ /\ stored # None
          /\ reader' = [reader EXCEPT ![r].at = "get"]
          /\ UNCHANGED answer
       \/ Return(r, None)
    /\ UNCHANGED <<version, stored, entry, timers, writer, applied, since>>

\* Mutant: the length of the result is not looked at.
GetUnchecked(r) ==
    /\ reader[r].at = "get"
    /\ reader' = [reader EXCEPT ![r] = [at |-> "store", got |-> stored]]
    /\ UNCHANGED <<version, stored, entry, timers, writer, applied, since, answer>>
\* MGET: the record may be gone by then.
Get(r) ==
    /\ reader[r].at = "get"
    /\ \/ /\ stored # None
          /\ reader' = [reader EXCEPT ![r] = [at |-> "store", got |-> stored]]
          /\ UNCHANGED answer
       \/ Return(r, None)
    /\ UNCHANGED <<version, stored, entry, timers, writer, applied, since>>

\* instanceCache.Store.
Store(r) ==
    /\ reader[r].at = "store"
    /\ entry' = reader[r].got
    /\ reader' = [reader EXCEPT ![r].at = "arm"]
    /\ UNCHANGED <<version, stored, timers, writer, applied, since, answer>>

\* Mutant: no goroutine is started.
ArmNot(r) ==
    /\ reader[r].at = "arm" /\ Return(r, reader[r].got)
    /\ UNCHANGED <<version, stored, entry, timers, writer, applied, since>>
\* go func: a timer of its own for every entry that was stored.
Arm(r) ==
    /\ reader[r].at = "arm" /\ timers < MaxTimers
    /\ timers' = timers + 1
    /\ Return(r, reader[r].got)
    /\ UNCHANGED <<version, stored, entry, writer, applied, since>>

\* Mutant: the select takes the branch of the shutdown.
ExpireShutdown ==
    /\ timers > 0 /\ timers' = timers - 1
    /\ UNCHANGED <<version, stored, entry, reader, writer, applied, since, answer>>
\* The ten seconds of some timer are over; it deletes whatever entry there is.
Expire ==
    /\ timers > 0
    /\ timers' = timers - 1
    /\ entry' = None
    /\ UNCHANGED <<version, stored, reader, writer, applied, since, answer>>

\* Create, Update, UpdateReadSettings and the login observer.
Write ==
    /\ version < MaxVersion
    /\ version' = version + 1
    /\ stored' = version + 1
    /\ UNCHANGED <<entry, timers, reader, writer, applied, since, answer>>

Delete ==
    /\ stored # None
    /\ stored' = None
    /\ UNCHANGED <<version, entry, timers, reader, writer, applied, since, answer>>

\* UpdateWebhook: repo.Update, then InvalidateCache, then the answer.
WriteWebhook(w) ==
    /\ writer[w].at = "idle" /\ stored # None /\ version < MaxVersion
    /\ version' = version + 1
    /\ stored' = version + 1
    /\ writer' = [writer EXCEPT ![w] = [at |-> "invalidate", wrote |-> version + 1]]
    /\ UNCHANGED <<entry, timers, reader, applied, since, answer>>

InvalidateCache(w) ==
    /\ writer[w].at = "invalidate"
    /\ entry' = None
    /\ applied' = IF applied < writer[w].wrote THEN writer[w].wrote ELSE applied
    /\ writer' = [writer EXCEPT ![w] = [at |-> "idle", wrote |-> None]]
    /\ UNCHANGED <<version, stored, timers, reader, since, answer>>

Reader(r) == Load(r) \/ Scan(r) \/ Get(r) \/ Store(r) \/ Arm(r)

Next ==
    \/ \E r \in Readers : Begin(r) \/ Reader(r)
    \/ \E w \in Writers : WriteWebhook(w) \/ InvalidateCache(w)
    \/ Expire \/ Write \/ Delete

Spec == Init /\ [][Next]_vars

\* The lookups run on and the timers fire.
FairSpec == Spec /\ WF_vars(Expire) /\ \A r \in Readers : WF_vars(Reader(r))

(***************************************************************************)
(* Properties.                                                             *)
(***************************************************************************)

\* The type invariant: with the types of the variables, that a lookup which goes on to
\* the cache carries a record.
TypeOK ==
    /\ version \in 1..MaxVersion /\ stored \in {None, version}
    /\ entry \in 0..MaxVersion /\ timers \in 0..MaxTimers
    /\ reader \in [Readers -> [at : {"idle", "load", "list", "get", "store", "arm"},
                               got : 0..MaxVersion]]
    /\ \A r \in Readers : reader[r].at \in {"store", "arm"} => reader[r].got # None
    /\ writer \in [Writers -> [at : {"idle", "invalidate"}, wrote : 0..MaxVersion]]
    /\ applied \in 0..MaxVersion
    /\ since \in [Readers -> 0..MaxVersion]
    /\ answer \in [Readers -> 0..MaxVersion]

\* An entry never lives on for good: while there is one, a goroutine that will
\* delete it is waiting or about to be started, although timers of older entries
\* and InvalidateCache delete entries that are not theirs.
EntryWillExpire ==
    entry # None => timers > 0 \/ \E r \in Readers : reader[r].at = "arm"

\* Lookups on their way to store a record that is not the one in Redis any more.
Late == {r \in Readers : reader[r].at = "store" /\ reader[r].got # stored}

\* An old record does not keep itself alive: while the record in Redis stays the same no
\* lookup turns late, and the cache comes to hold an old one only from a lookup that was
\* late already, which is late no more then.  So after a change the cache goes wrong at
\* most as many times as there were lookups under way.
StaleDiesOut ==
    [][stored' = stored =>
          /\ Late' \subseteq Late
          /\ entry' \notin {entry, None, stored} => Late' # Late]_vars

\* Once the record stops changing, the cache is right or empty for good: no
\* lookup that is still on its way leaves an old record, or a deleted one, behind.
CacheSettles == <>[](entry \in {None, stored})

\* After UpdateWebhook has been answered, no event is handled with older settings.
AppliedAtOnce ==
    \A r \in Readers : answer[r] # None => answer[r] >= since[r]
=============================================================================
