---------------------------- MODULE SessionStore ----------------------------
(***************************************************************************)
(* What outlives a session: the devices in the store are those of the      *)
(* client objects and ones that no record will ever name, a restart brings *)
(* back the ones a record names, no client is left without its event       *)
(* handler, and all of it together is the life of accounts that Accounts   *)
(* describes.                                                              *)
(***************************************************************************)
EXTENDS SessionIsolation

\* What a step that neither pairs nor makes clients does: nothing to the identities,
\* or the logout of one.
Kept == /\ devices' = devices
        /\ \A c \in Clients : client'[c].dev = client[c].dev
LoggedOut(c) ==
    /\ devices' = devices \ {client[c].dev}
    /\ \A d \in Clients : client'[d].dev = IF d = c THEN NoJid ELSE client[d].dev
Hooked == \A c \in Clients : /\ client'[c].home = client[c].home
                             /\ client'[c].hooked = client[c].hooked

\* Pairing overwrites no identity: only a client without one shows a code.
CodeUnpaired == \A c \in Clients : client[c].link = "code" => client[c].dev = NoJid
Coded == \A c \in Clients : client'[c].link = "code" =>
            \/ client'[c].dev = NoJid
            \/ client[c].link = "code" /\ client'[c].dev = client[c].dev

LEMMA LinkKeeps ==
  ASSUME Typed, NEW c \in Clients, NEW l, SetLink(c, l), devices' = devices
  PROVE  /\ Kept /\ Hooked
         /\ l \in {"off", "open", "drop", "lost", "auth"} => Coded
         /\ l = Shown(c) => Coded
         /\ client[c].dev = NoJid => Coded
  BY DEF SetLink, Typed, ClientType, Kept, Hooked, Coded, Shown

LEMMA LogoutKeeps ==
  ASSUME Typed, NEW c \in Clients, LogoutOk(c)
  PROVE  LoggedOut(c) /\ Hooked /\ Coded
  BY DEF LogoutOk, Typed, ClientType, LoggedOut, Hooked, Coded

LEMMA SameKeeps ==
  ASSUME UNCHANGED <<devices, client>>
  PROVE  Kept /\ Hooked /\ Coded
  BY DEF Kept, Hooked, Coded

\* The identities of the client objects.
Used == {client[c].dev : c \in Clients} \ {NoJid}
\* Nothing names the identity, or is about to: neither a record nor an observer.
Unnamed(j) == /\ \A i \in Ids : repo[i] # j
              /\ \A r \in Reqs : obs[r].at = "set" => obs[r].jid # j
\* What makes DeviceStoreAgrees last: an identity without a client stays unnamed, and
\* it has had an owner, so that it is not handed out again.
StoreInv ==
    /\ \A j \in devices : owner[j] # NoId
    /\ up => /\ Used \subseteq devices
             /\ \A j \in devices \ Used : Unnamed(j)

\* A step records only what an observer carries, and an observer carries only what a
\* client has.
NamesUsed ==
    /\ \A i \in Ids : \/ repo'[i] \in {repo[i], NoJid, Absent}
                      \/ \E r \in Reqs : obs[r].at = "set" /\ repo'[i] = obs[r].jid
    /\ \A r \in Reqs : obs'[r].at = "set" =>
          \/ obs[r].at = "set" /\ obs'[r].jid = obs[r].jid
          \/ obs'[r].jid \in Used

LEMMA StoreAgreeing == StoreInv => DeviceStoreAgrees
  BY DEF StoreInv, Used, Unnamed, DeviceStoreAgrees

LEMMA StoreShrinks ==
  ASSUME Typed, StoreInv, up, owner' = owner, NamesUsed, devices' \subseteq devices,
         Used' \subseteq devices', devices' \ Used' \subseteq devices \ Used
  PROVE  StoreInv'
  <1>1. ASSUME NEW j \in devices' \ Used'
        PROVE  Unnamed(j)'
    <2>1. Unnamed(j) /\ j \notin Used /\ j # NoJid /\ j # Absent
      BY <1>1, SessionAssumption DEF StoreInv, Typed
    <2>2. QED
      BY <2>1 DEF Unnamed, NamesUsed
  <1>2. QED
    BY <1>1 DEF StoreInv

\* An identity that one client gives up is no other client's.
LEMMA StoreStep ==
  ASSUME Typed, Separate, StoreInv, up, owner' = owner, NamesUsed,
         Kept \/ \E c \in Clients : LoggedOut(c)
  PROVE  StoreInv'
  <1>1. CASE Kept
    <2>1. Used' = Used /\ devices' = devices
      BY <1>1 DEF Kept, Used
    <2>2. QED
      BY <2>1, StoreShrinks DEF StoreInv
  <1>2. ASSUME NEW c \in Clients, LoggedOut(c)
        PROVE  StoreInv'
    <2>1. \A d \in Clients : client[d].dev # NoJid /\ client[d].dev = client[c].dev => d = c
      BY DEF Separate
    <2>2. Used' = Used \ {client[c].dev} /\ devices' = devices \ {client[c].dev}
      BY <1>2, <2>1 DEF LoggedOut, Used
    <2>3. QED
      BY <2>2, StoreShrinks DEF StoreInv
  <1>3. QED
    BY <1>1, <1>2

LEMMA HandlerKeeps ==
  ASSUME Typed, InFlight, NEW r \in Reqs, Handler(r), ~New(r)
  PROVE  /\ Hooked /\ Coded /\ up' = up
         /\ Kept \/ \E c \in Clients : LoggedOut(c)
  <1> USE LinkKeeps, LogoutKeeps, SameKeeps
      DEF InFlight, ReqInFlight, shared, stored, history
  <1>1. CASE UNCHANGED <<devices, client>> /\ up' = up
    BY <1>1
  <1>2. CASE PairCheck(r)
    <2>1. req[r].cl \in Clients /\ up' = up /\ devices' = devices
      BY <1>2 DEF PairCheck
    <2>2. client' = client \/ SetLink(req[r].cl, "open")
      BY <1>2 DEF PairCheck
    <2>3. QED
      BY <2>1, <2>2
  <1>3. CASE PairCode(r)
    <2>1. req[r].cl \in Clients /\ up' = up /\ devices' = devices
      BY <1>3 DEF PairCode
    <2>2. \/ SetLink(req[r].cl, "code") /\ client[req[r].cl].dev = NoJid
          \/ SetLink(req[r].cl, "off")
      BY <1>3 DEF PairCode
    <2>3. QED
      BY <2>1, <2>2
  <1>4. CASE LogoutCall(r)
    <2>1. req[r].cl \in Clients /\ up' = up
      BY <1>4 DEF LogoutCall
    <2>2. LogoutOk(req[r].cl) \/ UNCHANGED <<devices, client>>
      BY <1>4 DEF LogoutCall
    <2>3. QED
      BY <2>1, <2>2
  <1>5. CASE DeleteDisconnect(r)
    <2>1. up' = up /\ devices' = devices
      BY <1>5 DEF DeleteDisconnect
    <2>2. client' = client \/ (clients[req[r].id] \in Clients /\ SetLink(clients[req[r].id], "off"))
      BY <1>5 DEF DeleteDisconnect, Typed
    <2>3. QED
      BY <2>1, <2>2
  <1>6. QED
    BY <1>1, <1>2, <1>3, <1>4, <1>5 DEF Handler, CreateSet, Load, ConnectCheck, ConnectQr,
       ConnectPoll, ConnectTimeout, PairUndo, DeleteUnmap, DeleteUnqr, DeleteList, DeleteDel

\* A handler's step takes no observer out of "hook".
LEMMA HandlerHooks ==
  ASSUME Typed, InFlight, NEW r \in Reqs, Handler(r), NEW q \in Reqs, obs[q].at = "hook"
  PROVE  obs'[q] = obs[q]
  BY HandlerObs DEF Typed

LEMMA HookedGap ==
  ASSUME HandlerGap, Hooked, \A q \in Reqs : obs[q].at = "hook" => obs'[q] = obs[q]
  PROVE  HandlerGap'
  BY DEF HandlerGap, Hooked, Live

LEMMA NewKeeps ==
  ASSUME Guarded, Isolated, HandlerGap, NEW r \in Reqs, New(r)
  PROVE  Kept /\ HandlerGap' /\ Coded
  <1>1. PICK c \in Clients \ Live :
          client' = [client EXCEPT ![c] = [Unallocated EXCEPT !.home = req[r].id, !.hooked = TRUE]]
    BY DEF New
  <1>2. client[c].dev = NoJid /\ UNCHANGED <<devices, obs, up>>
    BY DEF New, Live, stored, history, Isolated
  <1>3. \A d \in Clients : /\ client'[d].dev = client[d].dev
                           /\ IF d = c THEN client'[d].hooked /\ client'[d].link = "off"
                                ELSE client'[d] = client[d]
    BY <1>1, <1>2 DEF Guarded, Typed, Unallocated
  <1>4. Kept
    BY <1>2, <1>3 DEF Kept
  <1>5. HandlerGap'
    BY <1>2, <1>3 DEF HandlerGap, Live
  <1>6. QED
    BY <1>3, <1>4, <1>5 DEF Coded

LEMMA ObserverKeeps ==
  ASSUME Typed, InFlight, NEW r \in Reqs, Observer(r), ~ObsPanic(r)
  PROVE  up' = up /\ Coded /\ (Kept \/ \E c \in Clients : LoggedOut(c))
  <1> USE LinkKeeps, LogoutKeeps, SameKeeps DEF shared, stored, history
  <1>1. obs[r].cl \in Clients
    BY ObserverObs DEF InFlight, ObsInFlight
  <1>2. \A b \in BOOLEAN : client' = [client EXCEPT ![obs[r].cl].hooked = b] =>
           Coded /\ \A c \in Clients : client'[c].dev = client[c].dev
    BY <1>1 DEF Typed, ClientType, Coded
  <1>3. CASE UNCHANGED <<devices, client>> /\ up' = up
    BY <1>3
  <1>4. CASE ObsDial(r)
    BY <1>1, <1>4 DEF ObsDial
  <1>5. CASE ObsCode(r)
    <2>1. SetLink(obs[r].cl, Shown(obs[r].cl))
      BY <1>5 DEF ObsCode
    <2>2. QED
      BY <1>1, <1>5, <2>1 DEF ObsCode
  <1>6. CASE ObsEnd(r)
    <2>1. client' = client \/ client' = [client EXCEPT ![obs[r].cl].hooked = FALSE]
      BY <1>6 DEF ObsEnd
    <2>2. devices' = devices /\ up' = up
      BY <1>6 DEF ObsEnd
    <2>3. QED
      BY <1>2, <2>1, <2>2 DEF Kept, Coded
  <1>7. CASE ObsHook(r)
    BY <1>2, <1>7 DEF ObsHook, Kept
  <1>8. CASE ObsTimeout(r)
    BY <1>1, <1>8 DEF ObsTimeout
  <1>9. QED
    BY <1>3, <1>4, <1>5, <1>6, <1>7, <1>8 DEF Observer, ObsStart, ObsChan, ObsList, ObsSet,
       ObsExpire, ObsClosed, ObsRelease, ObsClear

LEMMA ObserverGap ==
  ASSUME Typed, InFlight, HandlerGap, NEW r \in Reqs, Observer(r), ~ObsPanic(r)
  PROVE  HandlerGap'
  <1> USE DEF shared, stored, history
  <1>1. obs[r].cl \in Clients
    BY ObserverObs DEF InFlight, ObsInFlight
  <1>2. \A q \in Reqs : q # r => obs'[q] = obs[q]
    BY ObserverObs DEF Typed, ObsGoto
  <1>3. CASE ObsHook(r)
    <2>1. \A c \in Clients : /\ client'[c].home = client[c].home
                             /\ IF c = obs[r].cl THEN client'[c].hooked
                                  ELSE client'[c].hooked = client[c].hooked
      BY <1>1, <1>3 DEF ObsHook, Typed, ClientType
    <2>2. QED
      BY <1>2, <2>1 DEF HandlerGap, Live
  <1>4. CASE ObsEnd(r)
    <2>1. CASE client' = client
      BY <1>2, <1>4, <2>1 DEF HandlerGap, Live, ObsEnd
    <2>2. CASE client' = [client EXCEPT ![obs[r].cl].hooked = FALSE] /\ ObsGoto(r, "hook")
      <3>1. \A c \in Clients : /\ client'[c].home = client[c].home
                               /\ c # obs[r].cl => client'[c].hooked = client[c].hooked
        BY <2>2 DEF Typed, ClientType
      <3>2. obs'[r].at = "hook" /\ obs'[r].cl = obs[r].cl
        BY <2>2, ObsGotoEffect
      <3>3. obs[r].at # "hook"
        BY <1>4 DEF ObsEnd
      <3>4. QED
        BY <1>2, <3>1, <3>2, <3>3 DEF HandlerGap, Live
    <2>3. QED
      BY <1>4, <2>1, <2>2 DEF ObsEnd
  <1>5. CASE ~ObsHook(r) /\ ~ObsEnd(r)
    <2>1. obs[r].at # "hook"
      BY <1>5 DEF Observer, ObsPanic, ObsStart, ObsChan, ObsDial, ObsCode, ObsList, ObsSet,
                  ObsTimeout, ObsExpire, ObsClosed, ObsRelease, ObsClear
    <2>2. Hooked
      <3> USE LinkKeeps, LogoutKeeps, SameKeeps
      <3>1. CASE ObsDial(r)
        BY <1>1, <3>1 DEF ObsDial
      <3>2. CASE ObsCode(r)
        <4>1. SetLink(obs[r].cl, Shown(obs[r].cl))
          BY <3>2 DEF ObsCode
        <4>2. QED
          BY <1>1, <3>2, <4>1 DEF ObsCode
      <3>3. CASE ObsTimeout(r)
        <4>1. LogoutOk(obs[r].cl) \/ SetLink(obs[r].cl, "off")
          BY <3>3 DEF ObsTimeout
        <4>2. CASE LogoutOk(obs[r].cl)
          BY <1>1, <4>2
        <4>3. CASE SetLink(obs[r].cl, "off")
          BY <1>1, <4>3 DEF SetLink, Typed, ClientType, Hooked
        <4>4. QED
          BY <4>1, <4>2, <4>3
      <3>4. QED
        BY <1>5, <3>1, <3>2, <3>3 DEF Observer, ObsStart, ObsChan, ObsList, ObsSet, ObsExpire,
           ObsClosed, ObsRelease, ObsClear, Hooked
    <2>3. QED
      BY <1>2, <2>1, <2>2, HookedGap
  <1>6. QED
    BY <1>3, <1>4, <1>5

LEMMA HandlerNames ==
  ASSUME Guarded, Isolated, NEW r \in Reqs, Handler(r)
  PROVE  NamesUsed
  <1>1. \A i \in Ids : repo'[i] \in {repo[i], NoJid, Absent}
    <2>1. CASE New(r)
      BY <2>1 DEF New, stored
    <2>2. CASE ~New(r)
      BY <2>2, HandlerBenign
    <2>3. QED
      BY <2>1, <2>2
  <1>2. \A q \in Reqs : obs'[q].at = "set" => obs'[q] = obs[q]
    BY HandlerObs DEF Guarded, Typed
  <1>3. QED
    BY <1>1, <1>2 DEF NamesUsed

\* An observer records what it has carried since it looked at its client.
LEMMA ObserverNames ==
  ASSUME Guarded, Isolated, NEW r \in Reqs, Observer(r), ~ObsPanic(r)
  PROVE  NamesUsed
  <1> USE DEF Guarded
  <1>1. \A i \in Ids : repo'[i] = repo[i] \/ (obs[r].at = "set" /\ repo'[i] = obs[r].jid)
    BY DEF Observer, ObsStart, ObsChan, ObsDial, ObsCode, ObsEnd, ObsHook, ObsList, ObsSet,
       ObsTimeout, ObsExpire, ObsClosed, ObsRelease, ObsClear, stored, Typed
  <1>2. \A q \in Reqs : q # r => obs'[q] = obs[q]
    BY ObserverObs DEF Typed, ObsGoto
  <1>3. ASSUME obs'[r].at = "set"
        PROVE  (obs[r].at = "set" /\ obs'[r].jid = obs[r].jid) \/ obs'[r].jid \in Used
    <2>1. CASE ObsList(r)
      <3>1. obs[r].cl \in Clients /\ client[obs[r].cl].dev # NoJid
        BY <2>1 DEF ObsList, InFlight, ObsInFlight
      <3>2. obs'[r].jid = client[obs[r].cl].dev
        <4>1. CASE ObsGoto(r, "release")
          BY <1>3, <4>1, ObsGotoEffect
        <4>2. CASE obs' = [obs EXCEPT ![r].at = "set", ![r].jid = client[obs[r].cl].dev]
          BY <4>2 DEF Typed, ObsType
        <4>3. QED
          BY <2>1, <4>1, <4>2 DEF ObsList
      <3>3. QED
        BY <3>1, <3>2 DEF Used
    <2>2. CASE ~ObsList(r)
      <3>1. obs'[r] = obs[r]
        BY <1>3, <2>2, ObsGotoEffect DEF Observer, ObsStart, ObsChan, ObsDial, ObsCode, ObsEnd,
           ObsHook, ObsSet, ObsTimeout, ObsExpire, ObsClosed, ObsRelease, ObsClear, Typed, IdleObs
      <3>2. QED
        BY <1>3, <3>1
    <2>3. QED
      BY <2>1, <2>2
  <1>4. QED
    BY <1>1, <1>2, <1>3 DEF NamesUsed

\* Pairing stores the device of the client that is paired, a logout from the phone takes
\* it away.
LEMMA LibraryKeeps ==
  ASSUME Guarded, Isolated, StoreInv, CodeUnpaired, HandlerGap, up, NEW c \in Clients,
         Library(c)
  PROVE  StoreInv' /\ HandlerGap' /\ Coded
  <1> USE LinkKeeps, SameKeeps DEF Guarded, history
  <1>1. obs' = obs /\ repo' = repo /\ up' = up
    BY DEF Library, EmitCode, QrEnd, QrClose, Reconnect, Authenticated, NetDrop, RemoteLogout,
           PairSuccess, stored
  <1>2. Separate /\ NamesUsed
    BY <1>1 DEF Isolated, NamesUsed
  <1>3. CASE \E j \in Jids : PairSuccess(c, j)
    <2>1. PICK j \in Jids : PairSuccess(c, j)
      BY <1>3
    <2>2. client[c].dev = NoJid /\ devices' = devices \cup {j} /\ client[c].home \in Ids
      BY <2>1 DEF PairSuccess, CodeUnpaired, Isolated, Typed, ClientType
    <2>3. /\ Hooked
          /\ \A d \in Clients : client'[d].dev = IF d = c THEN j ELSE client[d].dev
          /\ Coded
      BY <2>1 DEF PairSuccess, Typed, ClientType, Hooked, Coded
    <2>4. Used' = Used \cup {j}
      BY <2>2, <2>3, SessionAssumption DEF Used
    <2>5. \A k \in Jids : owner'[k] = IF k = j THEN client[c].home ELSE owner[k]
      BY <2>1 DEF PairSuccess, Typed
    <2>6. \A k \in devices' : owner'[k] # NoId
      BY <2>2, <2>5, SessionAssumption DEF StoreInv, Typed
    <2>7. StoreInv'
      BY <1>1, <2>2, <2>4, <2>6 DEF StoreInv, Unnamed
    <2>8. QED
      BY <1>1, <2>3, <2>7, HookedGap
  <1>4. CASE RemoteLogout(c)
    <2>1. LoggedOut(c) /\ Hooked /\ Coded /\ owner' = owner
      BY <1>4 DEF RemoteLogout, LoggedOut, Hooked, Coded, Typed, ClientType
    <2>2. QED
      BY <1>1, <1>2, <2>1, StoreStep, HookedGap
  <1>5. CASE /\ UNCHANGED <<devices, owner>>
             /\ UNCHANGED client \/ \E l \in {"off", "open", "drop", "lost", "auth"} : SetLink(c, l)
    <2>1. Kept /\ Hooked /\ Coded
      BY <1>5
    <2>2. QED
      BY <1>1, <1>2, <1>5, <2>1, StoreStep, HookedGap
  <1>6. QED
    BY <1>3, <1>4, <1>5 DEF Library, EmitCode, QrEnd, QrClose, Reconnect, Authenticated, NetDrop,
       stored

\* LoadMiau keeps the devices that a record names, and gives each a client under an
\* instance whose record names it; the others it keeps have no client.
LEMMA BootBrings ==
  ASSUME Guarded, Boot
  PROVE  /\ devices' \subseteq devices
         /\ Used' \subseteq devices'
         /\ \A j \in devices' \ Used' : \A i \in Ids : repo[i] # j
         /\ \A c \in Clients : /\ client'[c].link # "code"
                               /\ client'[c].hooked \/ client'[c].home = NoId
         /\ \A i \in Ids : repo[i] \in devices =>
               /\ repo[i] \in devices'
               /\ \E k \in Ids : /\ repo[k] = repo[i] /\ clients'[k] # NoClient
                                 /\ client'[clients'[k]].dev = repo[i]
  <1> USE DEF Guarded
  <1> DEFINE claimed == {j \in devices : \E i \in Ids : Names(i, j)}
  <1>1. PICK byRemoteJid \in [claimed -> Ids], new \in [claimed -> Clients], ok \in SUBSET claimed :
          /\ \A j \in claimed : Names(byRemoteJid[j], j)
          /\ \A j, k \in claimed : new[j] = new[k] => j = k
          /\ clients' = [i \in Ids |->
                IF \E j \in claimed : byRemoteJid[j] = i
                  THEN new[CHOOSE j \in claimed : byRemoteJid[j] = i] ELSE NoClient]
          /\ client' = [c \in Clients |->
                IF \E j \in claimed : new[j] = c
                  THEN LET j == CHOOSE k \in claimed : new[k] = c IN
                       [home |-> byRemoteJid[j], dev |-> j, hooked |-> TRUE,
                        link |-> IF j \in ok THEN "open" ELSE "off"]
                  ELSE Unallocated]
    BY DEF Boot
  <1>2. /\ claimed \subseteq Jids /\ claimed \subseteq devices' /\ devices' \subseteq devices
        /\ \A i \in Ids : repo[i] \in devices => repo[i] \in claimed
    BY DEF Typed, Boot, Names
  <1>3. \A j \in claimed : repo[byRemoteJid[j]] = j
    BY <1>1 DEF Names
  <1> HIDE DEF claimed
  <1>4. ASSUME NEW j \in claimed
        PROVE  /\ client'[new[j]].dev = j /\ client'[new[j]].hooked
               /\ client'[new[j]].link \in {"open", "off"}
    <2>1. (CHOOSE k \in claimed : new[k] = new[j]) = j
      BY <1>1
    <2>2. QED
      BY <1>1, <2>1
  <1>5. \A c \in Clients : (\E j \in claimed : new[j] = c) \/ client'[c] = Unallocated
    BY <1>1
  <1>6. /\ Unallocated.dev = NoJid /\ Unallocated.home = NoId /\ Unallocated.link = "off"
    BY DEF Unallocated
  <1>7. Used' = claimed
    BY <1>1, <1>2, <1>4, <1>5, <1>6, SessionAssumption DEF Used
  <1>8. \A c \in Clients : /\ client'[c].link # "code"
                           /\ client'[c].hooked \/ client'[c].home = NoId
    BY <1>4, <1>5, <1>6
  <1>9. ASSUME NEW i \in Ids, repo[i] \in devices
        PROVE  \E k \in Ids : /\ repo[k] = repo[i] /\ clients'[k] # NoClient
                              /\ client'[clients'[k]].dev = repo[i]
    <2> DEFINE j == repo[i]
               k == byRemoteJid[j]
    <2>1. j \in claimed /\ k \in Ids /\ repo[k] = j
      BY <1>1, <1>2, <1>3, <1>9
    <2>2. \A m \in claimed : byRemoteJid[m] = k => m = j
      BY <1>3, <2>1
    <2>3. (CHOOSE m \in claimed : byRemoteJid[m] = k) = j
      BY <2>1, <2>2
    <2>4. clients'[k] = new[j]
      BY <1>1, <2>1, <2>3
    <2>5. new[j] # NoClient
      BY <1>1, <2>1, SessionAssumption
    <2>6. QED
      BY <1>4, <2>1, <2>4, <2>5
  <1>10. QED
    BY <1>2, <1>7, <1>8, <1>9

(***************************************************************************)
(* Every step.                                                             *)
(***************************************************************************)

Recorded == StoreInv /\ CodeUnpaired /\ HandlerGap

LEMMA CodedUnpaired ==
  ASSUME CodeUnpaired, Coded
  PROVE  CodeUnpaired'
  BY DEF CodeUnpaired, Coded

LEMMA DieRecorded ==
  ASSUME Die, StoreInv
  PROVE  Recorded' /\ ~up'
  BY DEF Die, stored, Recorded, StoreInv, CodeUnpaired, HandlerGap, Live, Unallocated

\* While the process is down there is no client for the library to run.
Down == ~up => \A c \in Clients : client[c] = Unallocated /\ qrChan[c] = NoChan

LEMMA LibraryUp ==
  ASSUME Down, NEW c \in Clients, Library(c)
  PROVE  up /\ up' = up
  <1>1. up' = up
    BY DEF Library, EmitCode, QrEnd, QrClose, Reconnect, Authenticated, NetDrop, RemoteLogout,
           PairSuccess, history
  <1>2. /\ Unallocated.link = "off" /\ NoChan.item = "none"
    BY DEF Unallocated, NoChan
  <1>3. client[c].link # "off" \/ qrChan[c].item # "none"
    BY DEF Library, EmitCode, QrEnd, QrClose, Reconnect, Authenticated, NetDrop, RemoteLogout,
           PairSuccess, IsConnected
  <1>4. QED
    BY <1>1, <1>2, <1>3 DEF Down

LEMMA NextDown == Guarded /\ Isolated /\ Down /\ [Next]_vars => Down'
  <1> SUFFICES ASSUME Guarded, Isolated, Down, [Next]_vars PROVE Down'
    OBVIOUS
  <1> USE DEF Guarded
  <1>1. ASSUME NEW r \in Reqs, NEW op \in Ops, NEW i \in Ids, Begin(r, op, i) PROVE Down'
    BY <1>1 DEF Begin, history, Down
  <1>2. ASSUME NEW r \in Reqs, Handler(r) PROVE Down'
    <2>1. up /\ up' = up
      BY <1>2, HandlerReq, HandlerKeeps DEF Isolated, New, history
    <2>2. QED
      BY <2>1 DEF Down
  <1>3. CASE Die
    BY <1>3 DEF Die, Down
  <1>4. ASSUME NEW r \in Reqs, Observer(r), ~ObsPanic(r) PROVE Down'
    <2>1. up /\ up' = up
      BY <1>4, ObserverObs, ObserverKeeps DEF Isolated
    <2>2. QED
      BY <2>1 DEF Down
  <1>5. ASSUME NEW c \in Clients, Library(c) PROVE Down'
    BY <1>5, LibraryUp DEF Down
  <1>6. CASE Boot
    BY <1>6 DEF Boot, Down
  <1>7. CASE UNCHANGED vars
    BY <1>7 DEF vars, Down
  <1>8. QED
    BY <1>1, <1>2, <1>3, <1>4, <1>5, <1>6, <1>7 DEF Next, Crash, ObsPanic

LEMMA NextRecorded == Guarded /\ Isolated /\ Down /\ Recorded /\ [Next]_vars => Recorded'
  <1> SUFFICES ASSUME Guarded, Isolated, Down, Recorded, [Next]_vars PROVE Recorded'
    OBVIOUS
  <1> USE DEF Guarded, Recorded
  <1>1. Separate
    BY DEF Isolated
  <1>2. ASSUME UNCHANGED <<devices, client, repo, obs, owner>>, up' = up
        PROVE  Recorded'
    <2>1. StoreInv'
      BY <1>2 DEF StoreInv, Used, Unnamed
    <2>2. QED
      BY <1>2, <2>1, SameKeeps, CodedUnpaired, HookedGap
  <1>3. ASSUME NEW r \in Reqs, NEW op \in Ops, NEW i \in Ids, Begin(r, op, i) PROVE Recorded'
    BY <1>2, <1>3 DEF Begin, stored, history
  <1>4. ASSUME NEW r \in Reqs, Handler(r) PROVE Recorded'
    <2>1. CASE New(r)
      <3>1. Kept /\ HandlerGap' /\ Coded /\ NamesUsed
        BY <1>4, <2>1, NewKeeps, HandlerNames
      <3>2. up /\ owner' = owner
        BY <1>4, <2>1, HandlerReq DEF Isolated, New, history
      <3>3. QED
        BY <1>1, <3>1, <3>2, StoreStep, CodedUnpaired
    <2>2. CASE ~New(r)
      <3>1. /\ Hooked /\ Coded /\ up' = up
            /\ Kept \/ \E c \in Clients : LoggedOut(c)
        BY <1>4, <2>2, HandlerKeeps
      <3>2. up /\ owner' = owner /\ NamesUsed
        BY <1>4, <2>2, HandlerReq, HandlerBenign, HandlerNames DEF Isolated, Benign
      <3>3. StoreInv'
        BY <1>1, <3>1, <3>2, StoreStep
      <3>4. HandlerGap'
        BY <1>4, <3>1, HandlerHooks, HookedGap
      <3>5. QED
        BY <3>1, <3>3, <3>4, CodedUnpaired
    <2>3. QED
      BY <2>1, <2>2
  <1>5. ASSUME NEW r \in Reqs, Observer(r) PROVE Recorded'
    <2>1. CASE ObsPanic(r)
      BY <2>1, DieRecorded DEF ObsPanic
    <2>2. CASE ~ObsPanic(r)
      <3>1. up' = up /\ Coded /\ (Kept \/ \E c \in Clients : LoggedOut(c))
        BY <1>5, <2>2, ObserverKeeps
      <3>2. up /\ owner' = owner /\ NamesUsed
        BY <1>5, <2>2, ObserverObs, ObserverBenign, ObserverNames DEF Isolated, Benign
      <3>3. StoreInv'
        BY <1>1, <3>1, <3>2, StoreStep
      <3>4. HandlerGap'
        BY <1>5, <2>2, ObserverGap
      <3>5. QED
        BY <3>1, <3>3, <3>4, CodedUnpaired
    <2>3. QED
      BY <2>1, <2>2
  <1>6. ASSUME NEW c \in Clients, Library(c) PROVE Recorded'
    BY <1>6, LibraryUp, LibraryKeeps, CodedUnpaired
  <1>7. CASE Crash
    BY <1>7, DieRecorded DEF Crash
  <1>8. CASE Boot
    <2>1. UNCHANGED <<repo, obs, owner>> /\ \A r \in Reqs : obs[r].at = "idle"
      BY <1>8 DEF Boot, Isolated
    <2>2. StoreInv'
      BY <1>8, <2>1, BootBrings DEF StoreInv, Unnamed
    <2>3. QED
      BY <1>8, <2>2, BootBrings DEF CodeUnpaired, HandlerGap, Live
  <1>9. CASE UNCHANGED vars
    BY <1>2, <1>9 DEF vars
  <1>10. QED
    BY <1>3, <1>4, <1>5, <1>6, <1>7, <1>8, <1>9 DEF Next

LEMMA InitRecorded == Init => Down /\ Recorded
  BY DEF Init, Down, Recorded, StoreInv, Used, CodeUnpaired, HandlerGap, Live, Unallocated

LEMMA AlwaysRecorded == Spec => [](Guarded /\ Isolated /\ Down /\ Recorded)
  <1>1. Init => Guarded /\ Isolated /\ Down /\ Recorded
    BY InitGuarded, InitIsolated, InitRecorded
  <1>2. Guarded /\ Isolated /\ Down /\ Recorded /\ [Next]_vars
          => Guarded' /\ Isolated' /\ Down' /\ Recorded'
    BY NextGuarded, NextIsolated, NextDown, NextRecorded
  <1>3. QED
    BY <1>1, <1>2, PTL DEF Spec

\* Logouts from the API, from an expired observer and from the phone all take the device
\* out of the store, and never that of another client; a device that LoadMiau could not
\* delete stays one that no record names.
THEOREM StoreAgrees == Spec => []DeviceStoreAgrees
  BY AlwaysRecorded, StoreAgreeing, PTL DEF Recorded

\* Handlers are only missing between RemoveEventHandlers and AddEventHandler.
THEOREM HandlersPutBack == Spec => []HandlerGap
  BY AlwaysRecorded, PTL DEF Recorded

\* Only LoadMiau brings the process up.
LEMMA OnlyBoot ==
  ASSUME Guarded, Isolated, Down, [Next]_vars, ~up, up'
  PROVE  Boot
  <1> USE DEF Guarded
  <1>1. \A r \in Reqs, op \in Ops, i \in Ids : ~Begin(r, op, i)
    BY DEF Begin
  <1>2. ASSUME NEW r \in Reqs PROVE ~Handler(r)
    BY HandlerReq DEF Isolated
  <1>3. ASSUME NEW r \in Reqs PROVE ~Observer(r)
    BY ObserverObs DEF Isolated, ObsPanic, Die
  <1>4. \A c \in Clients : ~Library(c)
    BY LibraryUp
  <1>5. QED
    BY <1>1, <1>2, <1>3, <1>4 DEF Next, Crash, vars

\* A restart deletes no device that a record names, and gives each to a client of an
\* instance whose record names it.
THEOREM RestartKeepsDevices == Spec => RestartKeepsClaimed
  <1>1. Guarded /\ Isolated /\ Down /\ [Next]_vars /\ ~up /\ up' =>
          \A i \in Ids : repo[i] \in devices =>
             /\ repo[i] \in devices'
             /\ \E k \in Ids : /\ repo[k] = repo[i] /\ clients'[k] # NoClient
                               /\ client'[clients'[k]].dev = repo[i]
    BY OnlyBoot, BootBrings
  <1>2. QED
    BY <1>1, AlwaysRecorded, PTL DEF Spec, RestartKeepsClaimed

(***************************************************************************)
(* The accounts of an instance.                                            *)
(***************************************************************************)

HeldIn(objects) ==
    [i \in Ids |-> {objects[c].dev : c \in {d \in Clients : objects[d].home = i}} \ {NoJid}]
AccountStep == Registry!Next \/ UNCHANGED <<repo, devices, heldBar, owner, up>>

LEMMA HeldMember ==
  ASSUME NEW objects, NEW i \in Ids, NEW j
  PROVE  j \in HeldIn(objects)[i] <=>
           j # NoJid /\ \E c \in Clients : objects[c].home = i /\ objects[c].dev = j
  BY Zenon DEF HeldIn

\* Two ways to hold accounts are the same when they hold the same ones.
LEMMA HeldEqual ==
  ASSUME NEW objects, NEW other,
         \A i \in Ids : \A j : j \in HeldIn(objects)[i] <=> j \in other[i],
         other = [i \in Ids |-> other[i]]
  PROVE  HeldIn(objects) = other
  <1>1. ASSUME NEW i \in Ids PROVE HeldIn(objects)[i] = other[i]
    BY Zenon
  <1>2. HeldIn(objects) = [i \in Ids |-> HeldIn(objects)[i]]
    BY Zenon DEF HeldIn
  <1>3. QED
    BY <1>1, <1>2, Zenon

LEMMA HeldBars == heldBar = HeldIn(client) /\ heldBar' = HeldIn(client')
  BY DEF heldBar, HeldIn

\* A client without an identity stands for no account, whatever its instance.
LEMMA HeldSame ==
  ASSUME \A c \in Clients : /\ client'[c].dev = client[c].dev
                            /\ client'[c].home = client[c].home \/ client[c].dev = NoJid
  PROVE  heldBar' = heldBar
  <1>1. \A i \in Ids : \A j : j \in HeldIn(client')[i] <=> j \in HeldIn(client)[i]
    BY HeldMember
  <1>2. HeldIn(client) = [i \in Ids |-> HeldIn(client)[i]]
    BY Zenon DEF HeldIn
  <1>3. QED
    BY <1>1, <1>2, HeldEqual, HeldBars

LEMMA HeldLess ==
  ASSUME Separate, NEW c \in Clients, client[c].dev # NoJid, client[c].home \in Ids, LoggedOut(c),
         \A d \in Clients : client'[d].home = client[d].home
  PROVE  /\ client[c].dev \in heldBar[client[c].home]
         /\ heldBar' = [heldBar EXCEPT ![client[c].home] = @ \ {client[c].dev}]
  <1> DEFINE h == client[c].home
             j == client[c].dev
             less == [HeldIn(client) EXCEPT ![h] = @ \ {j}]
  <1>1. j \in HeldIn(client)[h]
    BY HeldMember
  <1>2. /\ less = [i \in Ids |-> less[i]]
        /\ \A i \in Ids : less[i] = IF i = h THEN HeldIn(client)[i] \ {j} ELSE HeldIn(client)[i]
    BY DEF HeldIn
  <1>3. \A d \in Clients : client[d].dev # NoJid /\ client[d].dev = j => d = c
    BY DEF Separate
  <1>4. ASSUME NEW i \in Ids, NEW k
        PROVE  k \in HeldIn(client')[i] <=> k \in less[i]
    <2>1. k \in HeldIn(client')[i] <=>
            k # NoJid /\ \E d \in Clients : d # c /\ client[d].home = i /\ client[d].dev = k
      BY HeldMember DEF LoggedOut
    <2>2. k \in HeldIn(client)[i] <=>
            k # NoJid /\ \E d \in Clients : client[d].home = i /\ client[d].dev = k
      BY HeldMember
    <2>3. QED
      BY <1>2, <1>3, <2>1, <2>2
  <1> HIDE DEF less
  <1>5. HeldIn(client') = less
    BY <1>2, <1>4, HeldEqual
  <1>6. QED
    BY <1>1, <1>5, HeldBars DEF less

LEMMA HeldMore ==
  ASSUME NEW c \in Clients, NEW j \in Jids, client[c].dev = NoJid, client[c].home \in Ids,
         \A d \in Clients : /\ client'[d].home = client[d].home
                            /\ client'[d].dev = IF d = c THEN j ELSE client[d].dev
  PROVE  heldBar' = [heldBar EXCEPT ![client[c].home] = @ \cup {j}]
  <1> DEFINE h == client[c].home
             more == [HeldIn(client) EXCEPT ![h] = @ \cup {j}]
  <1>1. /\ more = [i \in Ids |-> more[i]]
        /\ \A i \in Ids : more[i] = IF i = h THEN HeldIn(client)[i] \cup {j} ELSE HeldIn(client)[i]
    BY DEF HeldIn
  <1>2. j # NoJid
    BY SessionAssumption
  <1>3. ASSUME NEW i \in Ids, NEW k
        PROVE  k \in HeldIn(client')[i] <=> k \in more[i]
    <2>1. k \in HeldIn(client')[i] <=>
            k # NoJid /\ \E d \in Clients : /\ client[d].home = i
                                            /\ k = IF d = c THEN j ELSE client[d].dev
      BY HeldMember
    <2>2. k \in HeldIn(client)[i] <=>
            k # NoJid /\ \E d \in Clients : client[d].home = i /\ client[d].dev = k
      BY HeldMember
    <2>3. QED
      BY <1>1, <1>2, <2>1, <2>2
  <1> HIDE DEF more
  <1>4. HeldIn(client') = more
    BY <1>1, <1>3, HeldEqual
  <1>5. QED
    BY <1>4, HeldBars DEF more

\* A step that leaves the records alone and at most logs one client out.
LEMMA LogoutUnlinks ==
  ASSUME Guarded, Isolated, up, UNCHANGED <<repo, owner, up>>,
         \A c \in Clients : client'[c].home = client[c].home,
         Kept \/ \E c \in Clients : LoggedOut(c)
  PROVE  AccountStep
  <1>1. CASE Kept
    BY <1>1, HeldSame DEF Kept, AccountStep
  <1>2. ASSUME NEW c \in Clients, LoggedOut(c)
        PROVE  AccountStep
    <2>1. CASE client[c].dev = NoJid
      <3>1. devices' = devices
        BY <1>2, <2>1, SessionAssumption DEF LoggedOut, Guarded, Typed
      <3>2. heldBar' = heldBar
        BY <1>2, <2>1, HeldSame DEF LoggedOut
      <3>3. QED
        BY <3>1, <3>2 DEF AccountStep
    <2>2. CASE client[c].dev # NoJid
      <3>1. client[c].home \in Ids /\ client[c].dev \in Jids
        BY <2>2 DEF Guarded, Typed, ClientType, Isolated
      <3>2. Registry!Unlink(client[c].home, client[c].dev)
        BY <1>2, <2>2, <3>1, HeldLess DEF Registry!Unlink, LoggedOut, Isolated
      <3>3. QED
        BY <3>1, <3>2 DEF AccountStep, Registry!Next
    <2>3. QED
      BY <2>1, <2>2
  <1>3. QED
    BY <1>1, <1>2

\* A step that writes one record.
LEMMA WriteRecords ==
  ASSUME up, UNCHANGED <<devices, client, owner, up>>, NEW i \in Ids,
         NEW j \in {Absent, NoJid} \cup {k \in Jids : owner[k] = i},
         repo' = [repo EXCEPT ![i] = j]
  PROVE  AccountStep
  <1>1. heldBar' = heldBar
    BY HeldSame
  <1>2. Registry!Write(i)
    BY <1>1 DEF Registry!Write
  <1>3. QED
    BY <1>2 DEF AccountStep, Registry!Next

LEMMA HandlerAccounts ==
  ASSUME Guarded, Isolated, NEW r \in Reqs, Handler(r)
  PROVE  AccountStep
  <1> USE DEF Guarded
  <1>1. up /\ req[r].id \in Ids
    BY HandlerReq DEF Isolated, InFlight, ReqInFlight
  <1>2. CASE New(r)
    <2>1. PICK c \in Clients \ Live :
            client' = [client EXCEPT ![c] = [Unallocated EXCEPT !.home = req[r].id, !.hooked = TRUE]]
      BY <1>2 DEF New
    <2>2. \A d \in Clients : /\ client'[d].dev = client[d].dev
                             /\ client'[d].home = client[d].home \/ client[d].dev = NoJid
      BY <2>1 DEF Typed, Unallocated, Live, Isolated
    <2>3. heldBar' = heldBar
      BY <2>2, HeldSame
    <2>4. QED
      BY <1>2, <2>3 DEF New, stored, history, AccountStep
  <1>3. CASE CreateSet(r) \/ DeleteDel(r)
    <2>1. UNCHANGED <<devices, client, owner, up>>
      BY <1>3 DEF CreateSet, DeleteDel, history
    <2>2. PICK j \in {Absent, NoJid} : repo' = [repo EXCEPT ![req[r].id] = j]
      BY <1>3 DEF CreateSet, DeleteDel
    <2>3. QED
      BY <1>1, <2>1, <2>2, WriteRecords
  <1>4. CASE ~New(r) /\ ~CreateSet(r) /\ ~DeleteDel(r)
    <2>1. repo' = repo
      BY <1>4 DEF Handler, Load, ConnectCheck, ConnectQr, ConnectPoll, ConnectTimeout, PairCheck,
         PairCode, PairUndo, LogoutCall, DeleteDisconnect, DeleteUnmap, DeleteUnqr, DeleteList,
         stored
    <2>2. Benign /\ (Kept \/ \E c \in Clients : LoggedOut(c))
      BY <1>4, HandlerBenign, HandlerKeeps
    <2>3. QED
      BY <1>1, <2>1, <2>2, LogoutUnlinks DEF Benign
  <1>5. QED
    BY <1>2, <1>3, <1>4

LEMMA DieStops ==
  ASSUME up, Die
  PROVE  AccountStep
  <1>1. \A i \in Ids : \A j : j \in HeldIn(client')[i] <=> j \in [k \in Ids |-> {}][i]
    BY HeldMember DEF Die, Unallocated
  <1>2. heldBar' = [i \in Ids |-> {}]
    BY <1>1, HeldEqual, HeldBars
  <1>3. Registry!Stop
    BY <1>2 DEF Registry!Stop, Die, stored
  <1>4. QED
    BY <1>3 DEF AccountStep, Registry!Next

LEMMA ObserverAccounts ==
  ASSUME Guarded, Isolated, NEW r \in Reqs, Observer(r)
  PROVE  AccountStep
  <1> USE DEF Guarded
  <1>1. CASE ObsPanic(r)
    BY <1>1, DieStops DEF ObsPanic, Isolated
  <1>2. CASE ~ObsPanic(r)
    <2>1. up /\ Benign /\ (Kept \/ \E c \in Clients : LoggedOut(c))
      BY <1>2, ObserverObs, ObserverBenign, ObserverKeeps DEF Isolated
    <2>2. CASE repo' = repo
      BY <2>1, <2>2, LogoutUnlinks DEF Benign
    <2>3. CASE ObsSet(r) /\ repo' # repo
      <3>1. obs[r].id \in Ids /\ obs[r].jid \in {k \in Jids : owner[k] = obs[r].id}
        BY <2>3 DEF ObsSet, Isolated, InFlight, ObsInFlight
      <3>2. QED
        BY <2>1, <2>3, <3>1, WriteRecords DEF ObsSet, history
    <2>4. QED
      BY <1>2, <2>2, <2>3 DEF Observer, ObsStart, ObsChan, ObsDial, ObsCode, ObsEnd, ObsHook,
         ObsList, ObsTimeout, ObsExpire, ObsClosed, ObsRelease, ObsClear, stored
  <1>3. QED
    BY <1>1, <1>2

LEMMA LibraryAccounts ==
  ASSUME Guarded, Isolated, Down, CodeUnpaired, NEW c \in Clients, Library(c)
  PROVE  AccountStep
  <1> USE DEF Guarded
  <1>1. up /\ up' = up
    BY LibraryUp
  <1>2. repo' = repo
    BY DEF Library, EmitCode, QrEnd, QrClose, Reconnect, Authenticated, NetDrop, RemoteLogout,
           PairSuccess, stored
  <1>3. ASSUME NEW j \in Jids, PairSuccess(c, j)
        PROVE  AccountStep
    <2>1. client[c].dev = NoJid /\ client[c].home \in Ids
      BY <1>3 DEF PairSuccess, CodeUnpaired, Isolated, Typed, ClientType
    <2>2. \A d \in Clients : /\ client'[d].home = client[d].home
                             /\ client'[d].dev = IF d = c THEN j ELSE client[d].dev
      BY <1>3 DEF PairSuccess, Typed, ClientType
    <2>3. Registry!Link(client[c].home, j)
      BY <1>1, <1>2, <1>3, <2>1, <2>2, HeldMore DEF Registry!Link, PairSuccess
    <2>4. QED
      BY <2>1, <2>3 DEF AccountStep, Registry!Next
  <1>4. CASE RemoteLogout(c)
    <2>1. LoggedOut(c) /\ Hooked /\ owner' = owner
      BY <1>4 DEF RemoteLogout, LoggedOut, Hooked, Typed, ClientType, history
    <2>2. QED
      BY <1>1, <1>2, <2>1, LogoutUnlinks DEF Hooked
  <1>5. CASE /\ UNCHANGED <<devices, owner>>
             /\ UNCHANGED client \/ \E l \in {"off", "open", "drop", "lost", "auth"} : SetLink(c, l)
    <2>1. Kept /\ Hooked
      BY <1>5, LinkKeeps, SameKeeps
    <2>2. QED
      BY <1>1, <1>2, <1>5, <2>1, LogoutUnlinks DEF Hooked
  <1>6. QED
    BY <1>3, <1>4, <1>5 DEF Library, EmitCode, QrEnd, QrClose, Reconnect, Authenticated, NetDrop,
       stored, history

\* The instance LoadMiau finds for a device is the one the account was linked to, because
\* no other has recorded it.
LEMMA BootAccounts ==
  ASSUME Guarded, Isolated, Boot
  PROVE  AccountStep
  <1> USE DEF Guarded
  <1> DEFINE claimed == {j \in devices : \E i \in Ids : Names(i, j)}
             kept == [i \in Ids |-> {repo[i]} \cap devices]
  <1>1. PICK byRemoteJid \in [claimed -> Ids], new \in [claimed -> Clients], ok \in SUBSET claimed :
          /\ \A j \in claimed : repo[byRemoteJid[j]] = j
          /\ \A j, k \in claimed : new[j] = new[k] => j = k
          /\ clients' = [i \in Ids |->
                IF \E j \in claimed : byRemoteJid[j] = i
                  THEN new[CHOOSE j \in claimed : byRemoteJid[j] = i] ELSE NoClient]
          /\ client' = [c \in Clients |->
                IF \E j \in claimed : new[j] = c
                  THEN LET j == CHOOSE k \in claimed : new[k] = c IN
                       [home |-> byRemoteJid[j], dev |-> j, hooked |-> TRUE,
                        link |-> IF j \in ok THEN "open" ELSE "off"]
                  ELSE Unallocated]
    BY DEF Boot, Names
  <1>2. /\ claimed \subseteq Jids /\ claimed \subseteq devices' /\ devices' \subseteq devices
        /\ UNCHANGED <<repo, owner>> /\ ~up /\ up'
        /\ \A i \in Ids : repo[i] \in devices => repo[i] \in claimed
        /\ claimed \subseteq devices
    BY DEF Typed, Boot, Names
  <1> HIDE DEF claimed
  <1>3. ASSUME NEW j \in claimed
        PROVE  client'[new[j]].home = byRemoteJid[j] /\ client'[new[j]].dev = j
    <2>1. (CHOOSE k \in claimed : new[k] = new[j]) = j
      BY <1>1
    <2>2. QED BY <1>1, <2>1
  <1>4. \A c \in Clients : (\E j \in claimed : new[j] = c) \/ client'[c].dev = NoJid
    BY <1>1 DEF Unallocated
  <1>5. \A i \in Ids, j \in claimed : repo[i] = j => i = byRemoteJid[j]
    BY <1>1, <1>2 DEF Isolated, Separate
  <1>6. ASSUME NEW i \in Ids, NEW j
        PROVE  j \in HeldIn(client')[i] <=> j \in kept[i]
    <2>1. ASSUME j \in HeldIn(client')[i] PROVE j \in kept[i]
      <3>1. PICK c \in Clients : client'[c].home = i /\ client'[c].dev = j /\ j # NoJid
        BY <2>1, HeldMember
      <3>2. PICK k \in claimed : new[k] = c
        BY <1>4, <3>1
      <3>3. k = j /\ byRemoteJid[j] = i
        BY <1>3, <3>1, <3>2
      <3>4. QED
        BY <1>1, <1>2, <3>2, <3>3
    <2>2. ASSUME j \in kept[i] PROVE j \in HeldIn(client')[i]
      <3>1. j = repo[i] /\ j \in claimed
        BY <1>2, <2>2
      <3>2. new[j] \in Clients /\ client'[new[j]].home = i /\ client'[new[j]].dev = j
        BY <1>1, <1>3, <1>5, <3>1
      <3>3. j # NoJid
        BY <1>2, <3>1, SessionAssumption
      <3>4. QED
        BY <3>2, <3>3, HeldMember
    <2>3. QED
      BY <2>1, <2>2
  <1>7. heldBar' = kept
    <2>1. kept = [i \in Ids |-> kept[i]]
      BY Zenon
    <2> HIDE DEF kept
    <2>2. QED
      BY <1>6, <2>1, HeldEqual, HeldBars
  <1>8. UNION {kept[i] : i \in Ids} \subseteq devices'
    BY <1>2
  <1>9. Registry!Start
    BY <1>2, <1>7, <1>8 DEF Registry!Start
  <1>10. QED
    BY <1>9 DEF AccountStep, Registry!Next

LEMMA NextAccounts ==
  ASSUME Guarded, Isolated, Down, CodeUnpaired, [Next]_vars
  PROVE  AccountStep
  <1>1. ASSUME NEW r \in Reqs, NEW op \in Ops, NEW i \in Ids, Begin(r, op, i)
        PROVE  AccountStep
    BY <1>1, HeldSame DEF Begin, stored, history, AccountStep
  <1>2. CASE Crash
    BY <1>2, DieStops DEF Crash
  <1>3. CASE UNCHANGED vars
    BY <1>3, HeldSame DEF vars, AccountStep
  <1>4. QED
    BY <1>1, <1>2, <1>3, HandlerAccounts, ObserverAccounts, LibraryAccounts, BootAccounts DEF Next

LEMMA InitAccounts == Init => Registry!Init
  <1> SUFFICES ASSUME Init PROVE Registry!Init
    OBVIOUS
  <1>1. \A i \in Ids : \A j : j \in HeldIn(client)[i] <=> j \in [k \in Ids |-> {}][i]
    BY HeldMember DEF Init, Unallocated
  <1>2. heldBar = [i \in Ids |-> {}]
    BY <1>1, HeldEqual, HeldBars
  <1>3. QED
    BY <1>2 DEF Init, Registry!Init

\* Seen from outside, every step of handlers, observers, the library and a restart links,
\* unlinks or records one account of one instance, stops or starts the gateway, or
\* concerns no account.
THEOREM AccountsLive == Spec => RefinesAccounts
  <1>1. Guarded /\ Isolated /\ Down /\ Recorded /\ [Next]_vars => [Registry!Next]_(Registry!vars)
    BY NextAccounts DEF Recorded, AccountStep, Registry!vars
  <1>2. QED
    BY <1>1, InitAccounts, AlwaysRecorded, PTL DEF Spec, RefinesAccounts, Registry!Spec
=============================================================================
