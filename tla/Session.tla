------------------------------ MODULE Session ------------------------------
(***************************************************************************)
(* The life cycle of the WhatsApp sessions of the gateway: the maps that   *)
(* lib/whatsmiau/whatsmeow.go shares between the HTTP handlers of          *)
(* server/controllers/instance.go and the QR observers those handlers      *)
(* start, the RemoteJID field of the instance records in Redis and the SQL *)
(* device store that both outlive the process.                             *)
(*                                                                         *)
(* The maps are concurrent (xsync), so one Load, Store, Delete or          *)
(* LoadOrStore is one step and everything between two of them is open to   *)
(* the other goroutines.  The WhatsApp client is a library: what it does   *)
(* is modelled from the calls the source makes on it.                      *)
(***************************************************************************)
EXTENDS Naturals, FiniteSets

CONSTANTS
    Ids,        \* instance ids
    Clients,    \* client objects one process may allocate (bound)
    Jids,       \* device identities WhatsApp may hand out (bound)
    Reqs,       \* HTTP requests in flight at the same time (bound)
    Ops,        \* the endpoints that are called
    MaxCodes,   \* QR codes one login attempt emits (bound)
    MaxCrashes, \* times the process is killed (bound)
    NoClient, NoJid, NoId, Absent

AllOps == {"create", "connect", "pair", "logout", "delete"}

ASSUME SessionAssumption ==
    /\ NoClient \notin Clients
    /\ NoId \notin Ids
    /\ NoJid \notin Jids /\ Absent \notin Jids /\ NoJid # Absent
    /\ Ops \subseteq AllOps
    /\ MaxCodes \in Nat /\ MaxCrashes \in Nat

VARIABLES
    repo,            \* id -> Absent, or the RemoteJID of its record (NoJid is "")
    devices,         \* identities in the SQL device store
    clients,         \* Whatsmiau.clients
    qrCache,         \* Whatsmiau.qrCache; a code is named by the client it pairs
    observerRunning, \* Whatsmiau.observerRunning
    client,          \* the client objects of this process
    qrChan,          \* what the QR channel of a client has to offer
    req,             \* the handlers in flight
    obs,             \* obs[r]: the observeConnection goroutine r started
    owner,           \* history: the instance an identity was paired for
    up,              \* the process is running
    crashes          \* history: times it was killed

shared == <<clients, qrCache, observerRunning>>
stored == <<repo, devices>>

history == <<owner, up, crashes>>
vars == <<repo, devices, clients, qrCache, observerRunning, client, qrChan,
          req, obs, owner, up, crashes>>

Unallocated == [home |-> NoId, dev |-> NoJid, link |-> "off", hooked |-> FALSE]
NoChan == [item |-> "none", left |-> 0]
IdleReq == [op |-> "none", at |-> "idle", id |-> NoId, cl |-> NoClient]
IdleObs == [at |-> "idle", id |-> NoId, cl |-> NoClient, jid |-> NoJid]

\* The steps between LoadOrStore and the deferred Delete of observerRunning.
Active == {"chan", "dial", "wait", "hook", "list", "set", "expire", "release"}

Init ==
    /\ repo \in [Ids -> {Absent, NoJid}]
    /\ devices = {}
    /\ clients = [i \in Ids |-> NoClient]
    /\ qrCache = [i \in Ids |-> NoClient]
    /\ observerRunning = [i \in Ids |-> FALSE]
    /\ client = [c \in Clients |-> Unallocated]
    /\ qrChan = [c \in Clients |-> NoChan]
    /\ req = [r \in Reqs |-> IdleReq]
    /\ obs = [r \in Reqs |-> IdleObs]
    /\ owner = [j \in Jids |-> NoId]
    /\ up = TRUE
    /\ crashes = 0

Exists(i) == repo[i] # Absent
IsConnected(c) == client[c].link \in {"open", "code", "auth"}
IsLoggedIn(c) == client[c].link \in {"auth", "lost"}
Live == {c \in Clients : client[c].home # NoId}

Status(i) ==
    LET c == clients[i] IN
    IF c = NoClient THEN "closed"
    ELSE IF IsConnected(c) /\ IsLoggedIn(c) THEN "open"
    ELSE IF qrCache[i] # NoClient /\ IsConnected(c) THEN "qr-code"
    ELSE IF IsLoggedIn(c) THEN "connecting"
    ELSE "closed"

Goto(r, l) == req' = [req EXCEPT ![r].at = l]
Return(r) == req' = [req EXCEPT ![r] = IdleReq]
ObsGoto(r, l) == obs' = [obs EXCEPT ![r].at = l]
SetLink(c, l) == client' = [client EXCEPT ![c].link = l]
Unmap(i) == clients' = [clients EXCEPT ![i] = NoClient]

(***************************************************************************)
(* HTTP handlers.                                                          *)
(***************************************************************************)

\* A handler starts with repo.List; when that makes it answer at once (not
\* found, already exists, Redis down) nothing has happened.  PairingCode does
\* not look at the repository.
Begin(r, op, i) ==
    /\ up /\ req[r].at = "idle" /\ obs[r].at = "idle"
    /\ op \in {"connect", "logout", "delete"} => Exists(i)
    /\ op = "create" => ~Exists(i)
    /\ req' = [req EXCEPT ![r] = [op |-> op, id |-> i, cl |-> NoClient,
                                  at |-> IF op = "create" THEN "create" ELSE "load"]]
    /\ UNCHANGED <<stored, shared, client, qrChan, obs, history>>

\* db.Set of repo.Create: the existence check was the earlier List.
CreateSet(r) ==
    /\ req[r].at = "create"
    /\ repo' = [repo EXCEPT ![req[r].id] = NoJid]
    /\ Return(r)
    /\ UNCHANGED <<devices, shared, client, qrChan, obs, history>>

\* Mutant: the ok of the Load is ignored.
LoadUnchecked(r) ==
    /\ req[r].at = "load"
    /\ req' = [req EXCEPT ![r].cl = clients[req[r].id],
           ![r].at = IF req[r].op \in {"connect", "pair"} THEN "check" ELSE "logout"]
    /\ UNCHANGED <<stored, shared, client, qrChan, obs, history>>

\* clients.Load at the head of Connect, PairPhone, Logout and Disconnect.
Load(r) ==
    LET c == clients[req[r].id] IN
    /\ req[r].at = "load"
    /\ \/ /\ c # NoClient
          /\ req' = [req EXCEPT ![r].cl = c,
                 ![r].at = IF req[r].op \in {"connect", "pair"} THEN "check" ELSE "logout"]
       \/ c = NoClient /\ req[r].op \in {"connect", "pair"} /\ Goto(r, "new")
       \/ c = NoClient /\ req[r].op = "logout" /\ Return(r)
       \/ c = NoClient /\ req[r].op = "delete" /\ Goto(r, "disconnect")
    /\ UNCHANGED <<stored, shared, client, qrChan, obs, history>>

\* NewDevice, NewClient, AddEventHandler and clients.Store.
New(r) ==
    /\ req[r].at = "new"
    /\ \E c \in Clients \ Live :
          /\ client' = [client EXCEPT ![c] = [Unallocated EXCEPT !.home = req[r].id,
                                                                !.hooked = TRUE]]
          /\ clients' = [clients EXCEPT ![req[r].id] = c]
          /\ req' = [req EXCEPT ![r].cl = c, ![r].at = "check"]
    /\ UNCHANGED <<stored, qrCache, observerRunning, qrChan, obs, history>>

\* Connect: a logged-in client answers at once.
ConnectCheck(r) ==
    /\ req[r].op = "connect" /\ req[r].at = "check"
    /\ IF IsLoggedIn(req[r].cl) THEN Return(r) ELSE Goto(r, "qr")
    /\ UNCHANGED <<stored, shared, client, qrChan, obs, history>>

\* Connect: a cached code is the answer, otherwise an observer is started for
\* the client this request holds and the request polls the cache.
ConnectQr(r) ==
    /\ req[r].at = "qr"
    /\ IF qrCache[req[r].id] # NoClient
         THEN Return(r) /\ UNCHANGED obs
         ELSE /\ Goto(r, "poll")
              /\ obs' = [obs EXCEPT ![r] = [at |-> "start", id |-> req[r].id,
                                            cl |-> req[r].cl, jid |-> NoJid]]
    /\ UNCHANGED <<stored, shared, client, qrChan, history>>

\* observeAndQrCode: the poll finds a code, or the 60 second context ends.
ConnectPoll(r) ==
    /\ req[r].at = "poll" /\ qrCache[req[r].id] # NoClient
    /\ Return(r)
    /\ UNCHANGED <<stored, shared, client, qrChan, obs, history>>

ConnectTimeout(r) ==
    /\ req[r].at = "poll"
    /\ Return(r)
    /\ UNCHANGED <<stored, shared, client, qrChan, obs, history>>

\* PairPhone: refuse a logged-in client; dial when there is no connection, and
\* answer with the error when the dial fails.
PairCheck(r) ==
    LET c == req[r].cl IN
    /\ req[r].op = "pair" /\ req[r].at = "check"
    /\ \/ IsLoggedIn(c) /\ Return(r) /\ UNCHANGED client
       \/ ~IsLoggedIn(c) /\ IsConnected(c) /\ Goto(r, "pair") /\ UNCHANGED client
       \/ ~IsConnected(c) /\ Goto(r, "pair") /\ SetLink(c, "open")
       \/ ~IsConnected(c) /\ Return(r) /\ UNCHANGED client
    /\ UNCHANGED <<stored, shared, qrChan, obs, history>>

\* client.PairPhone succeeds (a code is now outstanding) or fails, and then the
\* client is disconnected ...
PairCode(r) ==
    LET c == req[r].cl IN
    /\ req[r].at = "pair"
    /\ \/ client[c].link \in {"open", "code"} /\ client[c].dev = NoJid
          /\ SetLink(c, "code") /\ Return(r)
       \/ SetLink(c, "off") /\ Goto(r, "undo")
    /\ UNCHANGED <<stored, shared, qrChan, obs, history>>

\* ... and whatever client the map holds for the id by then is dropped.
PairUndo(r) ==
    /\ req[r].at = "undo"
    /\ Unmap(req[r].id)
    /\ Return(r)
    /\ UNCHANGED <<stored, qrCache, observerRunning, client, qrChan, obs, history>>

\* client.Logout: removes the device at the server, then locally, and drops the
\* connection.  It needs an identity and an authenticated connection.
LogoutOk(c) ==
    /\ client[c].link = "auth"
    /\ devices' = devices \ {client[c].dev}
    /\ client' = [client EXCEPT ![c].link = "off", ![c].dev = NoJid]

\* The Logout handler reports a failure, the Delete handler goes on regardless.
LogoutCall(r) ==
    /\ req[r].at = "logout"
    /\ LogoutOk(req[r].cl) \/ UNCHANGED <<devices, client>>
    /\ IF req[r].op = "delete" THEN Goto(r, "disconnect") ELSE Return(r)
    /\ UNCHANGED <<repo, shared, qrChan, obs, history>>

\* Disconnect loads the map again: it may find another client than Logout did.
DeleteDisconnect(r) ==
    LET c == clients[req[r].id] IN
    /\ req[r].at = "disconnect"
    /\ IF c = NoClient THEN Goto(r, "dlist") /\ UNCHANGED client
                       ELSE Goto(r, "unmap") /\ SetLink(c, "off")
    /\ UNCHANGED <<stored, shared, qrChan, obs, history>>

DeleteUnmap(r) ==
    /\ req[r].at = "unmap"
    /\ Unmap(req[r].id)
    /\ Goto(r, "unqr")
    /\ UNCHANGED <<stored, qrCache, observerRunning, client, qrChan, obs, history>>

DeleteUnqr(r) ==
    /\ req[r].at = "unqr"
    /\ qrCache' = [qrCache EXCEPT ![req[r].id] = NoClient]
    /\ Goto(r, "dlist")
    /\ UNCHANGED <<stored, clients, observerRunning, client, qrChan, obs, history>>

\* repo.Delete: List again, then Del; either may fail.
DeleteList(r) ==
    /\ req[r].at = "dlist"
    /\ (Exists(req[r].id) /\ Goto(r, "del")) \/ Return(r)
    /\ UNCHANGED <<stored, shared, client, qrChan, obs, history>>

DeleteDel(r) ==
    /\ req[r].at = "del"
    /\ repo' = [repo EXCEPT ![req[r].id] = Absent]
    /\ Return(r)
    /\ UNCHANGED <<devices, shared, client, qrChan, obs, history>>

(***************************************************************************)
(* observeConnection.                                                      *)
(***************************************************************************)

\* Mutant: a Store in the place of LoadOrStore.
ObsStartStore(r) ==
    /\ obs[r].at = "start" /\ ObsGoto(r, "chan")
    /\ observerRunning' = [observerRunning EXCEPT ![obs[r].id] = TRUE]
    /\ UNCHANGED <<stored, clients, qrCache, client, qrChan, req, history>>

\* observerRunning.LoadOrStore: a second observer of the id gives up.
ObsStart(r) ==
    LET i == obs[r].id IN
    /\ obs[r].at = "start"
    /\ IF observerRunning[i]
         THEN obs' = [obs EXCEPT ![r] = IdleObs] /\ UNCHANGED observerRunning
         ELSE ObsGoto(r, "chan") /\ observerRunning' = [observerRunning EXCEPT ![i] = TRUE]
    /\ UNCHANGED <<stored, clients, qrCache, client, qrChan, req, history>>

\* GetQRChannel refuses a client that is connected or already has an identity.
ObsChan(r) ==
    LET c == obs[r].cl IN
    /\ obs[r].at = "chan"
    /\ IF IsConnected(c) \/ client[c].dev # NoJid
         THEN ObsGoto(r, "release") /\ UNCHANGED qrChan
         ELSE /\ ObsGoto(r, "dial")
              /\ qrChan' = [qrChan EXCEPT ![c] = [item |-> "empty", left |-> MaxCodes]]
    /\ UNCHANGED <<stored, shared, client, req, history>>

ObsDial(r) ==
    LET c == obs[r].cl IN
    /\ obs[r].at = "dial"
    /\ \/ IsConnected(c) /\ ObsGoto(r, "wait") /\ UNCHANGED client
       \/ ~IsConnected(c) /\ ObsGoto(r, "wait") /\ SetLink(c, "open")
       \/ ~IsConnected(c) /\ ObsGoto(r, "release") /\ UNCHANGED client
    /\ UNCHANGED <<stored, shared, qrChan, req, history>>

\* The link of a client that shows a code: a phone can scan it as long as the
\* connection it belongs to is open, and no phone has.
Shown(c) ==
    IF client[c].link = "open" /\ client[c].dev = NoJid THEN "code" ELSE client[c].link

\* A code arrives and is cached under the instance id, also when the client has been
\* paired in the meantime.
ObsCode(r) ==
    LET c == obs[r].cl IN
    /\ obs[r].at = "wait" /\ qrChan[c].item = "code"
    /\ qrChan' = [qrChan EXCEPT ![c].item = "empty"]
    /\ qrCache' = [qrCache EXCEPT ![obs[r].id] = c]
    /\ SetLink(c, Shown(c))
    /\ UNCHANGED <<stored, clients, observerRunning, req, obs, history>>

\* Any other event is taken for a login: without an identity the map entry is
\* dropped, with one the handlers are taken off the client to be put on again.
ObsEnd(r) ==
    LET c == obs[r].cl IN
    /\ obs[r].at = "wait" /\ qrChan[c].item = "end"
    /\ IF client[c].dev = NoJid
         THEN Unmap(obs[r].id) /\ ObsGoto(r, "release") /\ UNCHANGED client
         ELSE /\ client' = [client EXCEPT ![c].hooked = FALSE]
              /\ ObsGoto(r, "hook") /\ UNCHANGED clients
    /\ qrChan' = [qrChan EXCEPT ![c] = NoChan]
    /\ UNCHANGED <<stored, qrCache, observerRunning, req, history>>

\* Mutant: the handler is not put back.
ObsHookNot(r) ==
    /\ obs[r].at = "hook" /\ ObsGoto(r, "list")
    /\ UNCHANGED <<stored, shared, client, qrChan, req, history>>

ObsHook(r) ==
    /\ obs[r].at = "hook"
    /\ client' = [client EXCEPT ![obs[r].cl].hooked = TRUE]
    /\ ObsGoto(r, "list")
    /\ UNCHANGED <<stored, shared, qrChan, req, history>>

\* repo.Update: client.Store.ID.String() is evaluated, then the record is listed;
\* a missing record or a Redis error is only logged.
ObsList(r) ==
    LET j == client[obs[r].cl].dev IN
    /\ obs[r].at = "list" /\ j # NoJid
    /\ \/ Exists(obs[r].id) /\ obs' = [obs EXCEPT ![r].at = "set", ![r].jid = j]
       \/ ObsGoto(r, "release")
    /\ UNCHANGED <<stored, shared, client, qrChan, req, history>>

ObsSet(r) ==
    /\ obs[r].at = "set"
    /\ repo' = [repo EXCEPT ![obs[r].id] = obs[r].jid] \/ UNCHANGED repo
    /\ ObsGoto(r, "release")
    /\ UNCHANGED <<devices, shared, client, qrChan, req, history>>

\* Mutant: the select has no timer.
ObsNoTimer(r) == FALSE

\* Two minutes without an event: Logout (its error is ignored), Disconnect, ...
ObsTimeout(r) ==
    LET c == obs[r].cl IN
    /\ obs[r].at = "wait"
    /\ LogoutOk(c) \/ (SetLink(c, "off") /\ UNCHANGED devices)
    /\ ObsGoto(r, "expire")
    /\ qrChan' = [qrChan EXCEPT ![c] = NoChan]
    /\ UNCHANGED <<repo, shared, req, history>>

\* ... then clients.Delete.
ObsExpire(r) ==
    /\ obs[r].at = "expire"
    /\ Unmap(obs[r].id)
    /\ ObsGoto(r, "release")
    /\ UNCHANGED <<stored, qrCache, observerRunning, client, qrChan, req, history>>

ObsClosed(r) ==
    /\ obs[r].at = "wait" /\ qrChan[obs[r].cl].item = "closed"
    /\ Unmap(obs[r].id)
    /\ ObsGoto(r, "release")
    /\ qrChan' = [qrChan EXCEPT ![obs[r].cl] = NoChan]
    /\ UNCHANGED <<stored, qrCache, observerRunning, client, req, history>>

\* The deferred clean-up: the guard is released first, the cache cleared after.
ObsRelease(r) ==
    /\ obs[r].at = "release"
    /\ observerRunning' = [observerRunning EXCEPT ![obs[r].id] = FALSE]
    /\ ObsGoto(r, "clear")
    /\ UNCHANGED <<stored, clients, qrCache, client, qrChan, req, history>>

\* Mutant: the deferred function does not delete the code.
ObsClearForgets(r) ==
    /\ obs[r].at = "clear" /\ obs' = [obs EXCEPT ![r] = IdleObs]
    /\ UNCHANGED <<stored, shared, client, qrChan, req, history>>

ObsClear(r) ==
    /\ obs[r].at = "clear"
    /\ qrCache' = [qrCache EXCEPT ![obs[r].id] = NoClient]
    /\ obs' = [obs EXCEPT ![r] = IdleObs]
    /\ UNCHANGED <<stored, clients, observerRunning, client, qrChan, req, history>>

(***************************************************************************)
(* The WhatsApp client library and the network.                            *)
(***************************************************************************)

\* A QR code for an unpaired, connected client.
EmitCode(c) ==
    /\ qrChan[c].item = "empty" /\ qrChan[c].left > 0
    /\ IsConnected(c) /\ client[c].dev = NoJid
    /\ qrChan' = [qrChan EXCEPT ![c] = [item |-> "code", left |-> @.left - 1]]
    /\ UNCHANGED <<stored, shared, client, req, obs, history>>

\* The terminal event of a QR channel: success, error, or out of codes, in
\* which case the library disconnects the unpaired client.
QrEnd(c) ==
    /\ qrChan[c].item = "empty"
    /\ qrChan' = [qrChan EXCEPT ![c].item = "end"]
    /\ UNCHANGED client \/ (client[c].dev = NoJid /\ SetLink(c, "off"))
    /\ UNCHANGED <<stored, shared, req, obs, history>>

QrClose(c) ==
    /\ qrChan[c].item = "empty"
    /\ qrChan' = [qrChan EXCEPT ![c].item = "closed"]
    /\ UNCHANGED <<stored, shared, client, req, obs, history>>

\* The phone accepts a code: the device gets a fresh identity, is saved, and
\* the server closes the stream so that the client logs in again.
PairSuccess(c, j) ==
    /\ client[c].link = "code" /\ owner[j] = NoId
    /\ client' = [client EXCEPT ![c].dev = j, ![c].link = "drop"]
    /\ devices' = devices \cup {j}
    /\ owner' = [owner EXCEPT ![j] = client[c].home]
    /\ UNCHANGED <<repo, shared, qrChan, req, obs, up, crashes>>

Reconnect(c) ==
    /\ client[c].link \in {"drop", "lost"}
    /\ SetLink(c, "open")
    /\ UNCHANGED <<stored, shared, qrChan, req, obs, history>>

\* The login of a paired client completes; events.Connected goes to the
\* handlers it has at this moment.
Authenticated(c) ==
    /\ client[c].link = "open" /\ client[c].dev # NoJid
    /\ SetLink(c, "auth")
    /\ UNCHANGED <<stored, shared, qrChan, req, obs, history>>

\* A lost connection; only a paired client reconnects by itself, and one that has
\* logged in still says so.
NetDrop(c) ==
    /\ IsConnected(c)
    /\ SetLink(c, IF client[c].dev = NoJid THEN "off"
                  ELSE IF client[c].link = "auth" THEN "lost" ELSE "drop")
    /\ UNCHANGED <<stored, shared, qrChan, req, obs, history>>

\* The phone removes the linked device.
RemoteLogout(c) ==
    /\ client[c].link \in {"open", "auth"} /\ client[c].dev # NoJid
    /\ devices' = devices \ {client[c].dev}
    /\ client' = [client EXCEPT ![c].link = "off", ![c].dev = NoJid]
    /\ UNCHANGED <<repo, shared, qrChan, req, obs, history>>

(***************************************************************************)
(* The process ends and starts again.  While it is down nothing but Boot   *)
(* is enabled: there are no goroutines and no client objects.              *)
(***************************************************************************)

Die ==
    /\ up' = FALSE
    /\ clients' = [i \in Ids |-> NoClient]
    /\ qrCache' = [i \in Ids |-> NoClient]
    /\ observerRunning' = [i \in Ids |-> FALSE]
    /\ client' = [c \in Clients |-> Unallocated]
    /\ qrChan' = [c \in Clients |-> NoChan]
    /\ req' = [r \in Reqs |-> IdleReq]
    /\ obs' = [r \in Reqs |-> IdleObs]
    /\ UNCHANGED <<stored, owner>>

Crash == up /\ crashes < MaxCrashes /\ Die /\ crashes' = crashes + 1

\* client.Store.ID.String() on a client that was logged out since the check
\* that it has an identity: a nil dereference in a goroutine ends the process.
ObsPanic(r) ==
    /\ obs[r].at = "list" /\ client[obs[r].cl].dev = NoJid
    /\ Die /\ UNCHANGED crashes

\* instanceByRemoteJid: the record of i names the identity j.
NamesSome(i, j) == Exists(i)   \* mutant: any record will do
NamesNone(i, j) == FALSE       \* mutant: the two spellings of the JID never match
Names(i, j) == repo[i] = j

\* LoadMiau: a device no record names is deleted from the store, or kept without
\* a client when DeleteDevice fails (its error is ignored); every other one gets
\* a client under the id of a record that names it, hooked before it dials; a
\* failed dial is only logged.
Boot ==
    LET claimed == {j \in devices : \E i \in Ids : Names(i, j)} IN
    /\ ~up /\ up' = TRUE
    /\ \E orphans \in SUBSET (devices \ claimed) : devices' = claimed \cup orphans
    /\ \E byRemoteJid \in [claimed -> Ids], new \in [claimed -> Clients], ok \in SUBSET claimed :
          /\ \A j \in claimed : Names(byRemoteJid[j], j)
          /\ \A j, k \in claimed : new[j] = new[k] => j = k
          /\ clients' = [i \in Ids |->
                IF \E j \in claimed : byRemoteJid[j] = i
                  THEN new[CHOOSE j \in claimed : byRemoteJid[j] = i] ELSE NoClient]
          /\ client' = [c \in Clients |->
                IF \E j \in claimed : new[j] = c
                  THEN LET j == CHOOSE k \in claimed : new[k] = c IN
                       [home |-> byRemoteJid[j], dev |-> j, hooked |-> TRUE,
                        link |-> IF j \in ok THEN "open" ELSE "off"]
                  ELSE Unallocated]
    /\ UNCHANGED <<repo, qrCache, observerRunning, qrChan, req, obs, owner, crashes>>

Handler(r) ==
    \/ CreateSet(r) \/ Load(r) \/ New(r)
    \/ ConnectCheck(r) \/ ConnectQr(r) \/ ConnectPoll(r) \/ ConnectTimeout(r)
    \/ PairCheck(r) \/ PairCode(r) \/ PairUndo(r)
    \/ LogoutCall(r) \/ DeleteDisconnect(r) \/ DeleteUnmap(r) \/ DeleteUnqr(r)
    \/ DeleteList(r) \/ DeleteDel(r)

Observer(r) ==
    \/ ObsStart(r) \/ ObsChan(r) \/ ObsDial(r) \/ ObsCode(r) \/ ObsEnd(r)
    \/ ObsHook(r) \/ ObsList(r) \/ ObsSet(r) \/ ObsTimeout(r) \/ ObsExpire(r)
    \/ ObsClosed(r) \/ ObsPanic(r) \/ ObsRelease(r) \/ ObsClear(r)

Library(c) ==
    \/ EmitCode(c) \/ QrEnd(c) \/ QrClose(c) \/ Reconnect(c) \/ Authenticated(c)
    \/ NetDrop(c) \/ RemoteLogout(c)
    \/ \E j \in Jids : PairSuccess(c, j)

Next ==
    \/ \E r \in Reqs, op \in Ops, i \in Ids : Begin(r, op, i)
    \/ \E r \in Reqs : Handler(r) \/ Observer(r)
    \/ \E c \in Clients : Library(c)
    \/ Crash
    \/ Boot

Spec == Init /\ [][Next]_vars

\* Goroutines are scheduled: the observers run on and the timers they wait for
\* fire.  Nothing is assumed of the requests, the library or the network.
FairSpec == Spec /\ \A r \in Reqs : WF_vars(Observer(r))

(***************************************************************************)
(* Properties.                                                             *)
(***************************************************************************)

Link == {"off", "drop", "lost", "open", "code", "auth"}
ReqAt == {"idle", "create", "load", "new", "check", "qr", "poll", "pair", "undo",
          "logout", "disconnect", "unmap", "unqr", "dlist", "del"}
ObsAt == Active \cup {"idle", "start", "clear"}

ClientType == [home : Ids \cup {NoId}, dev : Jids \cup {NoJid}, link : Link, hooked : BOOLEAN]
ChanType == [item : {"none", "empty", "code", "end", "closed"}, left : 0..MaxCodes]
ReqType == [op : AllOps \cup {"none"}, at : ReqAt, id : Ids \cup {NoId},
            cl : Clients \cup {NoClient}]
ObsType == [at : ObsAt, id : Ids \cup {NoId}, cl : Clients \cup {NoClient},
            jid : Jids \cup {NoJid}]

Typed ==
    /\ repo \in [Ids -> {Absent, NoJid} \cup Jids]
    /\ devices \subseteq Jids
    /\ clients \in [Ids -> Clients \cup {NoClient}]
    /\ qrCache \in [Ids -> Clients \cup {NoClient}]
    /\ observerRunning \in [Ids -> BOOLEAN]
    /\ client \in [Clients -> ClientType]
    /\ qrChan \in [Clients -> ChanType]
    /\ req \in [Reqs -> ReqType]
    /\ obs \in [Reqs -> ObsType]
    /\ owner \in [Jids -> Ids \cup {NoId}]
    /\ up \in BOOLEAN /\ crashes \in 0..MaxCrashes

\* The type invariant: with the types of the variables, that a handler which uses
\* its client, and an observer, has got one.
TypeOK ==
    /\ Typed
    /\ \A r \in Reqs :
          /\ req[r].at \in {"check", "qr", "poll", "pair", "logout"} => req[r].cl \in Clients
          /\ obs[r].at # "idle" => obs[r].id \in Ids /\ obs[r].cl \in Clients

Observing(r, i) == obs[r].at \in Active /\ obs[r].id = i

\* LoadOrStore and the deferred Delete make observers of an id exclusive, and
\* the flag is never left behind by one that has gone.
ObserverExclusive ==
    \A i \in Ids :
       /\ observerRunning[i] <=> \E r \in Reqs : Observing(r, i)
       /\ \A r, q \in Reqs : Observing(r, i) /\ Observing(q, i) => r = q

\* A cached code always has the observer that stored it still to clear it,
\* although the clean-up releases the guard before it clears the cache and
\* DELETE and later observers touch the same entry.
QrHasObserver ==
    \A i \in Ids : qrCache[i] # NoClient =>
       \E r \in Reqs : /\ obs[r].at \in Active \cup {"clear"}
                       /\ obs[r].id = i /\ obs[r].cl = qrCache[i]

Separate ==
    /\ \A i \in Ids : clients[i] # NoClient => client[clients[i]].home = i
    /\ \A c \in Clients : client[c].dev # NoJid => owner[client[c].dev] = client[c].home
    /\ \A i \in Ids : repo[i] \in Jids => owner[repo[i]] = i
    /\ \A c, d \in Clients : client[c].dev # NoJid /\ client[c].dev = client[d].dev => c = d

\* An instance never gets hold of the account of another one: not through the
\* client it maps, the record it keeps, the devices a restart hands out or a code
\* that is shown under the name of the one and pairs the client of the other.
AccountIsolation ==
    /\ Separate
    /\ \A i \in Ids : qrCache[i] # NoClient => client[qrCache[i]].home = i

\* While the process runs the device store holds the identities of its client
\* objects, mapped or not, and a device without a client (LoadMiau could not delete
\* it) is named by no record, nor will be: the next start tries again.
DeviceStoreAgrees ==
    up => LET used == {client[c].dev : c \in Clients} \ {NoJid} IN
          /\ used \subseteq devices
          /\ \A j \in devices \ used : \A i \in Ids : repo[i] # j

\* A restart keeps every device a record names and brings it back under an
\* instance whose record names it.
RestartKeepsClaimed ==
    [][~up /\ up' => \A i \in Ids : repo[i] \in devices =>
          /\ repo[i] \in devices'
          /\ \E k \in Ids : /\ repo[k] = repo[i] /\ clients'[k] # NoClient
                            /\ client'[clients'[k]].dev = repo[i]]_vars

\* A code does not stay in the cache: once its observer is gone, at the latest
\* after the two minutes without an event, it is cleared or replaced.
QrCleared ==
    \A i \in Ids, c \in Clients : (qrCache[i] = c) ~> (qrCache[i] # c)

\* The guard is always released, so a later connect can observe again.
ObserverEnds ==
    \A i \in Ids : observerRunning[i] ~> ~observerRunning[i]

\* A client is without an event handler only while its observer is between
\* RemoveEventHandlers and AddEventHandler: at no other moment, and after no
\* restart, can the end of a login go unnoticed.
HandlerGap ==
    \A c \in Live : ~client[c].hooked =>
       \E r \in Reqs : obs[r].at = "hook" /\ obs[r].cl = c

\* At rest, the session of an instance that is shown as open is the one its
\* record names, so that LoadMiau finds it after a restart.
LoggedInIsRecorded ==
    (\A r \in Reqs : req[r].at = "idle" /\ obs[r].at = "idle") =>
       \A i \in Ids : Status(i) = "open" /\ Exists(i) => repo[i] = client[clients[i]].dev

\* The accounts that the client objects of an instance stand for, mapped or not.
heldBar ==
    [i \in Ids |-> {client[c].dev : c \in {d \in Clients : client[d].home = i}} \ {NoJid}]

Registry == INSTANCE Accounts WITH held <- heldBar

\* Handlers, observers, the library and restarts together do with accounts only what
\* an instance may expect: each step links, unlinks or records one account of the
\* instance it works for, stops or starts the whole gateway, or concerns no account.
RefinesAccounts == Registry!Spec
=============================================================================
