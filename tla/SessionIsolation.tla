-------------------------- MODULE SessionIsolation --------------------------
(***************************************************************************)
(* No instance of Session ever gets hold of the WhatsApp account of        *)
(* another one.                                                            *)
(***************************************************************************)
EXTENDS SessionProofs

Carrying == {"check", "qr", "poll", "pair", "logout"}

\* Separate is about what the maps and records say between steps; what
\* the goroutines remember across steps has to agree with it.
Isolated ==
    /\ Separate
    /\ \A r \in Reqs : req[r].at \in Carrying => client[req[r].cl].home = req[r].id
    /\ \A r \in Reqs : obs[r].at # "idle" => client[obs[r].cl].home = obs[r].id
    /\ \A r \in Reqs : obs[r].at = "set" => obs[r].jid \in Jids /\ owner[obs[r].jid] = obs[r].id
    /\ \A c \in Clients : client[c].home = NoId => client[c].link = "off" /\ client[c].dev = NoJid
    /\ ~up => \A r \in Reqs : req[r].at = "idle" /\ obs[r].at = "idle"

\* What almost every step does to the client objects, the map and the records.
Benign ==
    /\ owner' = owner /\ up' = up
    /\ \A i \in Ids : clients'[i] = clients[i] \/ clients'[i] = NoClient
    /\ \A c \in Clients : /\ client'[c].home = client[c].home
                          /\ client'[c].dev = client[c].dev \/ client'[c].dev = NoJid
                          /\ client[c].home = NoId => client'[c].link = "off"

LEMMA SetLinkEffect ==
  ASSUME Typed, NEW c \in Clients, NEW l, SetLink(c, l)
  PROVE  \A d \in Clients : /\ client'[d].home = client[d].home
                            /\ client'[d].dev = client[d].dev
                            /\ client'[d].link = IF d = c THEN l ELSE client[d].link
  BY DEF SetLink, Typed, ClientType

LEMMA LogoutEffect ==
  ASSUME Typed, NEW c \in Clients, LogoutOk(c)
  PROVE  \A d \in Clients : /\ client'[d].home = client[d].home
                            /\ client'[d].dev = IF d = c THEN NoJid ELSE client[d].dev
                            /\ client'[d].link = IF d = c THEN "off" ELSE client[d].link
  BY DEF LogoutOk, Typed, ClientType

LEMMA UnmapEffect ==
  ASSUME Typed, NEW i, Unmap(i)
  PROVE  \A k \in Ids : clients'[k] = clients[k] \/ clients'[k] = NoClient
  BY DEF Unmap, Typed

LEMMA HandlerBenign ==
  ASSUME Guarded, Isolated, NEW r \in Reqs, Handler(r), ~New(r)
  PROVE  /\ Benign
         /\ \A i \in Ids : repo'[i] = repo[i] \/ repo'[i] \in {NoJid, Absent}
  <1> USE SetLinkEffect, UnmapEffect
      DEF Guarded, InFlight, ReqInFlight, Isolated, Benign, Carrying, shared, stored, history
  <1>1. CASE CreateSet(r) BY <1>1 DEF CreateSet, Typed
  <1>2. CASE Load(r) BY <1>2 DEF Load
  <1>4. CASE ConnectCheck(r) BY <1>4 DEF ConnectCheck
  <1>5. CASE ConnectQr(r) BY <1>5 DEF ConnectQr
  <1>6. CASE ConnectPoll(r) BY <1>6 DEF ConnectPoll
  <1>7. CASE ConnectTimeout(r) BY <1>7 DEF ConnectTimeout
  <1>8. CASE PairCheck(r)
    <2>1. req[r].cl \in Clients /\ client[req[r].cl].home \in Ids
      BY <1>8 DEF PairCheck
    <2>2. UNCHANGED <<repo, owner, clients, up>>
      BY <1>8 DEF PairCheck
    <2>3. client' = client \/ SetLink(req[r].cl, "open")
      BY <1>8 DEF PairCheck
    <2>4. QED BY <2>1, <2>2, <2>3, SessionAssumption
  <1>9. CASE PairCode(r)
    <2>1. req[r].cl \in Clients /\ client[req[r].cl].home \in Ids
      BY <1>9 DEF PairCode
    <2>2. UNCHANGED <<repo, owner, clients, up>>
      BY <1>9 DEF PairCode
    <2>3. SetLink(req[r].cl, "code") \/ SetLink(req[r].cl, "off")
      BY <1>9 DEF PairCode
    <2>4. QED BY <2>1, <2>2, <2>3, SessionAssumption
  <1>10. CASE PairUndo(r) BY <1>10 DEF PairUndo
  <1>11. CASE LogoutCall(r)
    <2>1. req[r].cl \in Clients /\ UNCHANGED <<repo, owner, clients, up>>
      BY <1>11 DEF LogoutCall
    <2>2. client' = client \/ LogoutOk(req[r].cl)
      BY <1>11 DEF LogoutCall
    <2>3. QED BY <2>1, <2>2, LogoutEffect
  <1>12. CASE DeleteDisconnect(r)
    <2>1. UNCHANGED <<repo, owner, clients, up>>
      BY <1>12 DEF DeleteDisconnect
    <2>2. client' = client \/ (clients[req[r].id] \in Clients /\ SetLink(clients[req[r].id], "off"))
      BY <1>12 DEF DeleteDisconnect, Typed
    <2>3. QED BY <2>1, <2>2
  <1>13. CASE DeleteUnmap(r) BY <1>13 DEF DeleteUnmap
  <1>14. CASE DeleteUnqr(r) BY <1>14 DEF DeleteUnqr
  <1>15. CASE DeleteList(r) BY <1>15 DEF DeleteList
  <1>16. CASE DeleteDel(r) BY <1>16 DEF DeleteDel, Typed
  <1>17. QED
    BY <1>1, <1>2, <1>4, <1>5, <1>6, <1>7, <1>8, <1>9, <1>10, <1>11, <1>12,
       <1>13, <1>14, <1>15, <1>16 DEF Handler
\* A request carries a client of its own instance on from step to step.
LEMMA HandlerCarries ==
  ASSUME Guarded, Isolated, NEW r \in Reqs, Handler(r), ~New(r)
  PROVE  req'[r].at \in Carrying => /\ req'[r].cl \in Clients
                                    /\ client[req'[r].cl].home = req'[r].id
  <1>0. SUFFICES \/ \E l : Goto(r, l) /\ (l \in Carrying => req[r].at \in Carrying)
                 \/ Return(r)
                 \/ /\ clients[req[r].id] # NoClient /\ req[r].id \in Ids
                    /\ \E l : req' = [req EXCEPT ![r].cl = clients[req[r].id], ![r].at = l]
    <2>1. CASE \E l : Goto(r, l) /\ (l \in Carrying => req[r].at \in Carrying)
      BY <2>1, GotoEffect DEF Guarded, InFlight, ReqInFlight, Isolated, Carrying
    <2>2. CASE Return(r)
      BY <2>2, ReturnEffect DEF Guarded, Carrying
    <2>3. CASE /\ clients[req[r].id] # NoClient /\ req[r].id \in Ids
               /\ \E l : req' = [req EXCEPT ![r].cl = clients[req[r].id], ![r].at = l]
      <3>1. req'[r].cl = clients[req[r].id] /\ req'[r].id = req[r].id
        BY <2>3 DEF Guarded, Typed, ReqType
      <3>2. clients[req[r].id] \in Clients /\ client[clients[req[r].id]].home = req[r].id
        <4>1. clients \in [Ids -> Clients \cup {NoClient}] /\ clients[req[r].id] # NoClient
              /\ req[r].id \in Ids
          BY <2>3 DEF Guarded, Typed
        <4>2. QED BY <4>1 DEF Isolated, Separate
      <3>3. QED BY <3>1, <3>2
    <2>4. QED BY <2>1, <2>2, <2>3
  <1> USE DEF Carrying
  <1>1. CASE CreateSet(r) BY <1>1 DEF CreateSet
  <1>2. CASE Load(r)
    <2>1. req[r].id \in Ids
      BY <1>2 DEF Load, Guarded, InFlight, ReqInFlight
    <2>2. \/ Goto(r, "new")
          \/ Goto(r, "disconnect")
          \/ Return(r)
          \/ /\ clients[req[r].id] # NoClient
             /\ \E l : req' = [req EXCEPT ![r].cl = clients[req[r].id], ![r].at = l]
      BY <1>2 DEF Load
    <2>3. QED BY <2>1, <2>2
  <1>4. CASE ConnectCheck(r) BY <1>4 DEF ConnectCheck
  <1>5. CASE ConnectQr(r) BY <1>5 DEF ConnectQr
  <1>6. CASE ConnectPoll(r) BY <1>6 DEF ConnectPoll
  <1>7. CASE ConnectTimeout(r) BY <1>7 DEF ConnectTimeout
  <1>8. CASE PairCheck(r) BY <1>8 DEF PairCheck
  <1>9. CASE PairCode(r) BY <1>9 DEF PairCode
  <1>10. CASE PairUndo(r) BY <1>10 DEF PairUndo
  <1>11. CASE LogoutCall(r) BY <1>11 DEF LogoutCall
  <1>12. CASE DeleteDisconnect(r) BY <1>12 DEF DeleteDisconnect
  <1>13. CASE DeleteUnmap(r) BY <1>13 DEF DeleteUnmap
  <1>14. CASE DeleteUnqr(r) BY <1>14 DEF DeleteUnqr
  <1>15. CASE DeleteList(r) BY <1>15 DEF DeleteList
  <1>16. CASE DeleteDel(r) BY <1>16 DEF DeleteDel
  <1>17. QED
    BY <1>1, <1>2, <1>4, <1>5, <1>6, <1>7, <1>8, <1>9, <1>10, <1>11, <1>12,
       <1>13, <1>14, <1>15, <1>16 DEF Handler

LEMMA HandlerIsolated ==
  ASSUME Guarded, Isolated, NEW r \in Reqs, Handler(r), ~New(r)
  PROVE  Isolated'
  <1>1. Benign /\ \A i \in Ids : repo'[i] = repo[i] \/ repo'[i] \in {NoJid, Absent}
    BY HandlerBenign
  <1>2. Separate'
    BY <1>1, SessionAssumption DEF Benign, Isolated, Separate, Guarded, Typed, ClientType
  <1>3. ASSUME NEW q \in Reqs, req'[q].at \in Carrying
        PROVE  client'[req'[q].cl].home = req'[q].id
    <2>1. req'[q].cl \in Clients /\ client[req'[q].cl].home = req'[q].id
      <3>1. CASE q = r
        BY <1>3, <3>1, HandlerCarries
      <3>2. CASE q # r
        BY <1>3, <3>2, HandlerReq DEF Guarded, InFlight, ReqInFlight, Isolated, Carrying
      <3>3. QED BY <3>1, <3>2
    <2>2. QED BY <1>1, <2>1 DEF Benign
  <1>4. ASSUME NEW q \in Reqs
        PROVE  /\ obs'[q].at # "idle" => client'[obs'[q].cl].home = obs'[q].id
               /\ obs'[q].at = "set" => obs'[q].jid \in Jids /\ owner'[obs'[q].jid] = obs'[q].id
    <2>1. CASE obs' = obs
      BY <1>1, <2>1 DEF Benign, Guarded, InFlight, ObsInFlight, Isolated
    <2>2. CASE /\ req[r].at = "qr"
               /\ obs' = [obs EXCEPT ![r] = [at |-> "start", id |-> req[r].id,
                                             cl |-> req[r].cl, jid |-> NoJid]]
      <3>1. req[r].cl \in Clients /\ client[req[r].cl].home = req[r].id
        BY <2>2 DEF Guarded, InFlight, ReqInFlight, Isolated, Carrying
      <3>2. CASE q = r
        BY <1>1, <2>2, <3>1, <3>2 DEF Benign, Guarded, Typed
      <3>3. CASE q # r
        BY <1>1, <2>2, <3>3 DEF Benign, Guarded, Typed, InFlight, ObsInFlight, Isolated
      <3>4. QED BY <3>2, <3>3
    <2>3. QED BY <2>1, <2>2, HandlerObs DEF Guarded
  <1>5. \A c \in Clients : client'[c].home = NoId => client'[c].link = "off" /\ client'[c].dev = NoJid
    BY <1>1 DEF Benign, Isolated
  <1>6. up'
    BY <1>1, HandlerReq DEF Benign, Guarded, Isolated, Typed
  <1>7. QED BY <1>2, <1>3, <1>4, <1>5, <1>6 DEF Isolated
\* A new client object is nobody's yet.
LEMMA NewIsolated ==
  ASSUME Guarded, Isolated, NEW r \in Reqs, New(r)
  PROVE  Isolated'
  <1> USE DEF Guarded
  <1>1. PICK c \in Clients \ Live :
           /\ client' = [client EXCEPT ![c] = [Unallocated EXCEPT !.home = req[r].id,
                                                                 !.hooked = TRUE]]
           /\ clients' = [clients EXCEPT ![req[r].id] = c]
           /\ req' = [req EXCEPT ![r].cl = c, ![r].at = "check"]
    BY DEF New
  <1>2. /\ req[r].id \in Ids /\ UNCHANGED <<repo, owner, obs>>
        /\ client[c].home = NoId /\ client[c].dev = NoJid
    BY DEF New, InFlight, ReqInFlight, Live, stored, history, Isolated
  <1>3. \A d \in Clients : /\ client'[d].home = IF d = c THEN req[r].id ELSE client[d].home
                           /\ client'[d].dev = client[d].dev
                           /\ client'[d].link = IF d = c THEN "off" ELSE client[d].link
    BY <1>1, <1>2 DEF Typed, Unallocated
  <1>4. \A q \in Reqs : /\ q # r => req'[q] = req[q]
                        /\ q = r => req'[q].cl = c /\ req'[q].id = req[r].id
    BY <1>1 DEF Typed, ReqType
  <1>5. \A i \in Ids : clients'[i] = IF i = req[r].id THEN c ELSE clients[i]
    BY <1>1 DEF Typed
  <1>6. Separate'
    <2>1. ASSUME NEW i \in Ids, clients'[i] # NoClient
          PROVE  client'[clients'[i]].home = i
      BY <1>2, <1>3, <1>5, <2>1, SessionAssumption DEF Isolated, Separate, Typed
    <2>2. ASSUME NEW d \in Clients, client'[d].dev # NoJid
          PROVE  owner'[client'[d].dev] = client'[d].home
      BY <1>2, <1>3, <2>2 DEF Isolated, Separate
    <2>3. QED BY <1>2, <1>3, <2>1, <2>2 DEF Isolated, Separate
  <1>7. ASSUME NEW q \in Reqs, req'[q].at \in Carrying
        PROVE  client'[req'[q].cl].home = req'[q].id
    <2>1. CASE q = r BY <1>3, <1>4, <2>1
    <2>2. CASE q # r
      <3>1. req'[q] = req[q] /\ req[q].cl \in Clients /\ req[q].id \in Ids
            /\ client[req[q].cl].home = req[q].id
        BY <1>4, <1>7, <2>2 DEF InFlight, ReqInFlight, Isolated, Carrying
      <3>2. req[q].cl # c
        BY <1>2, <3>1, SessionAssumption
      <3>3. QED BY <1>3, <3>1, <3>2
    <2>3. QED BY <2>1, <2>2
  <1>8. ASSUME NEW q \in Reqs, obs'[q].at # "idle"
        PROVE  client'[obs'[q].cl].home = obs'[q].id
    <2>1. obs'[q] = obs[q] /\ obs[q].cl \in Clients /\ obs[q].id \in Ids
          /\ client[obs[q].cl].home = obs[q].id
      BY <1>2, <1>8 DEF InFlight, ObsInFlight, Isolated
    <2>2. obs[q].cl # c
      BY <1>2, <2>1, SessionAssumption
    <2>3. QED BY <1>3, <2>1, <2>2
  <1>9. up'
    BY <1>2 DEF New, history, Isolated, Typed
  <1>10. QED
    BY <1>2, <1>3, <1>6, <1>7, <1>8, <1>9 DEF Isolated

LEMMA ObserverBenign ==
  ASSUME Guarded, Isolated, NEW r \in Reqs, Observer(r), ~ObsPanic(r)
  PROVE  /\ Benign
         /\ \A i \in Ids : repo'[i] = repo[i] \/ (repo'[i] \in Jids /\ owner[repo'[i]] = i)
  <1> USE DEF Guarded, shared, stored, history
  <1>1. obs[r].cl \in Clients /\ client[obs[r].cl].home \in Ids /\ obs[r].at # "idle"
    BY ObserverObs DEF InFlight, ObsInFlight, Isolated
  <1>2. \A l : SetLink(obs[r].cl, l) =>
           \A c \in Clients : /\ client'[c].home = client[c].home
                              /\ client'[c].dev = client[c].dev
                              /\ client[c].home = NoId => client'[c].link = "off"
    BY <1>1, SetLinkEffect, SessionAssumption DEF Isolated
  <1>3. \A b \in BOOLEAN : client' = [client EXCEPT ![obs[r].cl].hooked = b] =>
           \A c \in Clients : /\ client'[c].home = client[c].home
                              /\ client'[c].dev = client[c].dev
                              /\ client'[c].link = client[c].link
    BY <1>1 DEF Typed, ClientType
  <1> USE UnmapEffect DEF Isolated, Benign
  <1>4. CASE ObsStart(r) BY <1>4 DEF ObsStart
  <1>5. CASE ObsChan(r) BY <1>5 DEF ObsChan
  <1>6. CASE ObsDial(r)
    BY <1>2, <1>6 DEF ObsDial
  <1>7. CASE ObsCode(r)
    <2>1. SetLink(obs[r].cl, Shown(obs[r].cl))
      BY <1>7 DEF ObsCode
    <2>2. QED BY <1>2, <1>7, <2>1 DEF ObsCode
  <1>8. CASE ObsEnd(r)
    <2>1. client' = client \/ client' = [client EXCEPT ![obs[r].cl].hooked = FALSE]
      BY <1>8 DEF ObsEnd
    <2>2. UNCHANGED <<repo, owner, up>> /\ (clients' = clients \/ Unmap(obs[r].id))
      BY <1>8 DEF ObsEnd
    <2>3. QED BY <1>3, <2>1, <2>2
  <1>9. CASE ObsHook(r) BY <1>3, <1>9 DEF ObsHook
  <1>10. CASE ObsList(r) BY <1>10 DEF ObsList
  <1>11. CASE ObsSet(r)
    BY <1>11 DEF ObsSet, InFlight, ObsInFlight, Typed
  <1>12. CASE ObsTimeout(r)
    BY <1>1, <1>2, <1>12, LogoutEffect DEF ObsTimeout
  <1>13. CASE ObsExpire(r) BY <1>13 DEF ObsExpire
  <1>14. CASE ObsClosed(r) BY <1>14 DEF ObsClosed
  <1>15. CASE ObsRelease(r) BY <1>15 DEF ObsRelease
  <1>16. CASE ObsClear(r) BY <1>16 DEF ObsClear
  <1>17. QED
    BY <1>4, <1>5, <1>6, <1>7, <1>8, <1>9, <1>10, <1>11, <1>12,
       <1>13, <1>14, <1>15, <1>16 DEF Observer
\* The identity an observer is about to record is the one its client had, and an
\* identity keeps its owner.
LEMMA ObserverIsolated ==
  ASSUME Guarded, Isolated, NEW r \in Reqs, Observer(r), ~ObsPanic(r)
  PROVE  Isolated'
  <1>1. Benign /\ \A i \in Ids : repo'[i] = repo[i] \/ (repo'[i] \in Jids /\ owner[repo'[i]] = i)
    BY ObserverBenign
  <1>2. Separate'
    BY <1>1, SessionAssumption DEF Benign, Isolated, Separate, Guarded, Typed, ClientType
  <1>3. ASSUME NEW q \in Reqs, req'[q].at \in Carrying
        PROVE  client'[req'[q].cl].home = req'[q].id
    <2>1. req'[q] = req[q]
      BY ObserverObs DEF Guarded
    <2>2. req[q].cl \in Clients /\ client[req[q].cl].home = req[q].id
      BY <1>3, <2>1 DEF Guarded, InFlight, ReqInFlight, Isolated, Carrying
    <2>3. QED BY <1>1, <2>1, <2>2 DEF Benign
  <1>4. \A q \in Reqs : obs'[q].at # "idle" => /\ obs[q].at # "idle"
                                               /\ obs'[q].id = obs[q].id /\ obs'[q].cl = obs[q].cl
    <2>1. CASE obs' = [obs EXCEPT ![r] = IdleObs]
      BY <2>1 DEF Guarded, Typed, IdleObs
    <2>2. CASE \E l \in Active \cup {"clear"} : ObsGoto(r, l)
      <3>1. PICK l \in Active \cup {"clear"} : ObsGoto(r, l)
        BY <2>2
      <3>2. obs[r].at # "idle"
        BY ObserverObs DEF Guarded
      <3>3. QED BY <3>1, <3>2, ObsGotoEffect DEF Guarded
    <2>3. CASE obs' = [obs EXCEPT ![r].at = "set", ![r].jid = client[obs[r].cl].dev]
      <3>1. obs[r].at # "idle"
        BY ObserverObs DEF Guarded
      <3>2. \A q \in Reqs : obs'[q].id = obs[q].id /\ obs'[q].cl = obs[q].cl
        BY <2>3 DEF Guarded, Typed, ObsType
      <3>3. \A q \in Reqs : q # r => obs'[q] = obs[q]
        BY <2>3 DEF Guarded, Typed, ObsType
      <3>4. QED BY <3>1, <3>2, <3>3
    <2>4. CASE obs' = obs
      BY <2>4
    <2>5. QED BY <2>1, <2>2, <2>3, <2>4, ObserverObs DEF Guarded, Active
  <1>5. ASSUME NEW q \in Reqs, obs'[q].at # "idle"
        PROVE  client'[obs'[q].cl].home = obs'[q].id
    BY <1>1, <1>4, <1>5 DEF Benign, Guarded, InFlight, ObsInFlight, Isolated
  <1>6. ASSUME NEW q \in Reqs, obs'[q].at = "set"
        PROVE  obs'[q].jid \in Jids /\ owner'[obs'[q].jid] = obs'[q].id
    <2>1. CASE obs'[q] = obs[q]
      BY <1>1, <1>6, <2>1 DEF Benign, Isolated
    <2>2. CASE q = r /\ ObsList(r)
      <3>1. obs[r].cl \in Clients /\ client[obs[r].cl].dev # NoJid
        BY <2>2 DEF ObsList, Guarded, InFlight, ObsInFlight
      <3>2. client[obs[r].cl].dev \in Jids /\ owner[client[obs[r].cl].dev] = obs[r].id
        BY <3>1, <2>2 DEF ObsList, Guarded, Typed, ClientType, Isolated, Separate
      <3>3. obs'[r].id = obs[r].id /\ obs'[r].jid = client[obs[r].cl].dev
        <4>1. CASE ObsGoto(r, "release")
          BY <1>6, <2>2, <4>1, ObsGotoEffect DEF Guarded
        <4>2. CASE obs' = [obs EXCEPT ![r].at = "set", ![r].jid = client[obs[r].cl].dev]
          BY <4>2 DEF Guarded, Typed, ObsType
        <4>3. QED BY <2>2, <4>1, <4>2 DEF ObsList
      <3>4. QED BY <1>1, <2>2, <3>2, <3>3 DEF Benign
    <2>3. CASE q = r /\ ~ObsList(r)
      BY <1>6, <2>3, ObsGotoEffect DEF Observer, ObsStart, ObsChan, ObsDial, ObsCode, ObsEnd,
         ObsHook, ObsSet, ObsTimeout, ObsExpire, ObsClosed, ObsRelease, ObsClear, Guarded, Typed,
         IdleObs
    <2>4. q # r => obs'[q] = obs[q]
      BY ObserverObs DEF Guarded, Typed, ObsGoto
    <2>5. QED BY <2>1, <2>2, <2>3, <2>4
  <1>7. \A c \in Clients : client'[c].home = NoId => client'[c].link = "off" /\ client'[c].dev = NoJid
    BY <1>1 DEF Benign, Isolated
  <1>8. up'
    BY <1>1, ObserverObs DEF Benign, Guarded, Isolated, Typed
  <1>9. QED BY <1>2, <1>3, <1>5, <1>6, <1>7, <1>8 DEF Isolated

\* The library: an identity is fresh and belongs to the instance of its client.
LEMMA LibraryIsolated ==
  ASSUME Guarded, Isolated, NEW c \in Clients, Library(c)
  PROVE  Isolated'
  <1> USE DEF Guarded
  <1>1. UNCHANGED <<req, obs, clients, repo, up>>
    BY DEF Library, EmitCode, QrEnd, QrClose, Reconnect, Authenticated, NetDrop, RemoteLogout,
       PairSuccess, shared, stored, history
  <1>2. CASE \E j \in Jids : PairSuccess(c, j)
    <2>1. PICK j \in Jids : PairSuccess(c, j)
      BY <1>2
    <2>2. /\ owner[j] = NoId
          /\ client[c].home \in Ids
          /\ \A k \in Jids : owner'[k] = IF k = j THEN client[c].home ELSE owner[k]
      BY <2>1 DEF PairSuccess, Isolated, Typed, ClientType
    <2>3. \A d \in Clients : /\ client'[d].home = client[d].home
                             /\ client'[d].dev = IF d = c THEN j ELSE client[d].dev
                             /\ d # c => client'[d].link = client[d].link
      BY <2>1 DEF PairSuccess, Typed, ClientType
    <2>4. \A d \in Clients : client[d].dev # NoJid => client[d].dev \in Jids /\ client[d].dev # j
      <3>1. ASSUME NEW d \in Clients, client[d].dev # NoJid
            PROVE  client[d].dev \in Jids /\ owner[client[d].dev] = client[d].home
                   /\ client[d].home # NoId
        BY <3>1 DEF Isolated, Separate, Typed, ClientType
      <3>2. QED BY <2>2, <3>1
    <2>5. Separate'
      <3>1. ASSUME NEW i \in Ids, repo'[i] \in Jids
            PROVE  owner'[repo'[i]] = i
        BY <1>1, <2>2, <3>1, SessionAssumption DEF Isolated, Separate
      <3>2. ASSUME NEW i \in Ids, clients'[i] # NoClient
            PROVE  client'[clients'[i]].home = i
        BY <1>1, <2>3, <3>2 DEF Isolated, Separate, Typed
      <3>3. ASSUME NEW d \in Clients, client'[d].dev # NoJid
            PROVE  owner'[client'[d].dev] = client'[d].home
        BY <2>2, <2>3, <2>4, <3>3 DEF Isolated, Separate
      <3>4. ASSUME NEW d \in Clients, NEW e \in Clients,
                   client'[d].dev # NoJid, client'[d].dev = client'[e].dev
            PROVE  d = e
        BY <2>3, <2>4, <3>4 DEF Isolated, Separate
      <3>5. QED BY <3>1, <3>2, <3>3, <3>4 DEF Separate
    <2>6. \A q \in Reqs : obs[q].at = "set" => owner'[obs[q].jid] = owner[obs[q].jid]
      BY <2>2, SessionAssumption DEF Isolated, InFlight, ObsInFlight
    <2>7. QED
      BY <1>1, <2>2, <2>3, <2>5, <2>6, SessionAssumption
         DEF Isolated, InFlight, ReqInFlight, ObsInFlight, Carrying
  <1>3. CASE ~\E j \in Jids : PairSuccess(c, j)
    <2>1. owner' = owner
      BY <1>3 DEF Library, EmitCode, QrEnd, QrClose, Reconnect, Authenticated, NetDrop,
         RemoteLogout, history
    <2>2. \/ client' = client
          \/ SetLink(c, "off") /\ client[c].dev = NoJid
          \/ \E l : SetLink(c, l) /\ client[c].link # "off"
          \/ /\ client' = [client EXCEPT ![c].link = "off", ![c].dev = NoJid]
      BY <1>3 DEF Library, EmitCode, QrEnd, QrClose, Reconnect, Authenticated, NetDrop,
         RemoteLogout, IsConnected
    <2>3. \A d \in Clients : /\ client'[d].home = client[d].home
                             /\ client'[d].dev = client[d].dev \/ client'[d].dev = NoJid
                             /\ client[d].home = NoId => client'[d].link = "off"
      <3>1. CASE client' = client
        BY <3>1 DEF Isolated
      <3>2. CASE SetLink(c, "off") /\ client[c].dev = NoJid
        BY <3>2, SetLinkEffect DEF Isolated
      <3>3. CASE \E l : SetLink(c, l) /\ client[c].link # "off"
        BY <3>3, SetLinkEffect DEF Isolated
      <3>4. CASE client' = [client EXCEPT ![c].link = "off", ![c].dev = NoJid]
        BY <3>4 DEF Typed, ClientType, Isolated
      <3>5. QED BY <2>2, <3>1, <3>2, <3>3, <3>4
    <2>4. Separate'
      BY <1>1, <2>1, <2>3, SessionAssumption DEF Isolated, Separate, Typed, ClientType
    <2>5. QED
      BY <1>1, <2>1, <2>3, <2>4 DEF Isolated, InFlight, ReqInFlight, ObsInFlight, Carrying
  <1>4. QED BY <1>2, <1>3

LEMMA DieIsolated ==
  ASSUME Guarded, Isolated, Die
  PROVE  Isolated'
  BY DEF Die, Isolated, Separate, Unallocated, IdleReq, IdleObs, Carrying, stored
\* LoadMiau hands a device to an instance whose record names it, so the owner of
\* the device is that instance.
LEMMA BootIsolated ==
  ASSUME Guarded, Isolated, Boot
  PROVE  Isolated'
  <1> USE DEF Guarded
  <1> DEFINE claimed == {j \in devices : \E i \in Ids : Names(i, j)}
  <1>1. PICK byRemoteJid \in [claimed -> Ids], new \in [claimed -> Clients], ok \in SUBSET claimed :
          /\ \A j \in claimed : repo[byRemoteJid[j]] = j
          /\ \A j, k \in claimed : new[j] = new[k] => j = k
          /\ clients' = [i \in Ids |->
                IF \E j \in claimed : byRemoteJid[j] = i
                  THEN new[CHOOSE j \in claimed : byRemoteJid[j] = i] ELSE NoClient]
          /\ client' = [c \in Clients |->
                IF \E j \in claimed : new[j] = c
                  THEN LET j == CHOOSE k \in claimed : new[k] = c IN
                       [home |-> byRemoteJid[j], dev |-> j, hooked |-> TRUE,
                        link |-> IF j \in ok THEN "open" ELSE "off"]
                  ELSE Unallocated]
    BY DEF Boot, Names
  <1>2. claimed \subseteq Jids /\ UNCHANGED <<repo, owner, req, obs>>
    BY DEF Typed, Boot
  <1> HIDE DEF claimed
  <1>3. ASSUME NEW j \in claimed
        PROVE  /\ client'[new[j]].home = byRemoteJid[j] /\ client'[new[j]].dev = j
               /\ owner[j] = byRemoteJid[j]
    <2>1. (CHOOSE k \in claimed : new[k] = new[j]) = j
      BY <1>1
    <2>2. owner[j] = byRemoteJid[j]
      BY <1>1, <1>2 DEF Isolated, Separate
    <2>3. QED BY <1>1, <2>1, <2>2
  <1>4. ASSUME NEW c \in Clients
        PROVE  (\E j \in claimed : new[j] = c) \/ client'[c] = Unallocated
    BY <1>1
  <1>5. Unallocated.dev = NoJid /\ Unallocated.home = NoId /\ Unallocated.link = "off"
    BY DEF Unallocated
  <1>6. Separate'
    <2>1. ASSUME NEW i \in Ids, clients'[i] # NoClient
          PROVE  client'[clients'[i]].home = i
      <3>1. PICK j \in claimed : byRemoteJid[j] = i
        BY <1>1, <2>1
      <3>2. \A k \in claimed : byRemoteJid[k] = i => k = j
        BY <1>1, <3>1
      <3>3. clients'[i] = new[j]
        BY <1>1, <3>1, <3>2
      <3>4. QED BY <1>3, <3>1, <3>3
    <2>2. ASSUME NEW c \in Clients, client'[c].dev # NoJid
          PROVE  owner'[client'[c].dev] = client'[c].home
      BY <1>2, <1>3, <1>4, <1>5, <2>2
    <2>3. ASSUME NEW c \in Clients, NEW d \in Clients, client'[c].dev # NoJid,
                 client'[c].dev = client'[d].dev
          PROVE  c = d
      BY <1>3, <1>4, <1>5, <2>3
    <2>4. QED
      BY <1>2, <2>1, <2>2, <2>3 DEF Isolated, Separate
  <1>7. \A c \in Clients : client'[c].home = NoId => client'[c].link = "off" /\ client'[c].dev = NoJid
    BY <1>1, <1>3, <1>4, <1>5, SessionAssumption
  <1>8. \A r \in Reqs : req[r].at = "idle" /\ obs[r].at = "idle"
    BY DEF Boot, Isolated
  <1>9. QED BY <1>2, <1>6, <1>7, <1>8 DEF Isolated, Carrying, Boot

LEMMA NextIsolated == Guarded /\ Isolated /\ [Next]_vars => Isolated'
  <1> SUFFICES ASSUME Guarded, Isolated, [Next]_vars
               PROVE  Isolated'
    OBVIOUS
  <1>1. ASSUME NEW r \in Reqs, NEW op \in Ops, NEW i \in Ids, Begin(r, op, i)
        PROVE  Isolated'
    <2>1. UNCHANGED <<repo, clients, client, obs, owner, up>> /\ up
      BY <1>1 DEF Begin, stored, shared, history
    <2>2. \A q \in Reqs : (q # r => req'[q] = req[q]) /\ (q = r => req'[q].at \notin Carrying)
      BY <1>1 DEF Begin, Guarded, Typed, Carrying
    <2>3. QED BY <2>1, <2>2 DEF Isolated, Separate
  <1>2. ASSUME NEW r \in Reqs, Handler(r)
        PROVE  Isolated'
    BY <1>2, HandlerIsolated, NewIsolated
  <1>3. ASSUME NEW r \in Reqs, Observer(r)
        PROVE  Isolated'
    BY <1>3, ObserverIsolated, DieIsolated DEF ObsPanic
  <1>4. CASE Crash
    BY <1>4, DieIsolated DEF Crash
  <1>5. CASE UNCHANGED vars
    BY <1>5 DEF vars, Isolated, Separate
  <1>6. QED
    BY <1>1, <1>2, <1>3, <1>4, <1>5, LibraryIsolated, BootIsolated DEF Next

LEMMA InitIsolated == Init => Isolated
  <1>1. SUFFICES ASSUME Init PROVE Isolated
    OBVIOUS
  <1>2. \A c \in Clients : client[c].dev = NoJid /\ client[c].link = "off"
    BY <1>1 DEF Init, Unallocated
  <1>3. \A r \in Reqs : req[r].at = "idle" /\ obs[r].at = "idle"
    BY <1>1 DEF Init, IdleReq, IdleObs
  <1>4. up /\ \A i \in Ids : clients[i] = NoClient /\ repo[i] \notin Jids
    BY <1>1, SessionAssumption DEF Init
  <1>5. Separate
    <2>1. \A i \in Ids : clients[i] = NoClient /\ repo[i] \notin Jids
      BY <1>4
    <2>2. \A i \in Ids : clients[i] # NoClient => client[clients[i]].home = i
      BY <2>1
    <2>3. \A i \in Ids : repo[i] \in Jids => owner[repo[i]] = i
      BY <2>1
    <2>4. QED BY <1>2, <2>2, <2>3 DEF Separate
  <1>6. QED BY <1>2, <1>3, <1>4, <1>5 DEF Isolated, Carrying

\* However requests, observers, logouts, pairings and restarts interleave, an
\* instance never maps, records or is handed at a restart a session that was
\* paired for another instance, no two client objects hold the same identity, and
\* the code an instance shows is that of a client of its own.
THEOREM AccountsIsolated == Spec => []AccountIsolation
  <1>1. Guarded /\ Isolated /\ [Next]_vars => Guarded' /\ Isolated'
    BY NextGuarded, NextIsolated
  <1>2. Init => Guarded /\ Isolated
    BY InitGuarded, InitIsolated
  <1>3. Guarded /\ Isolated /\ QrHasObserver => AccountIsolation
    <2> SUFFICES ASSUME Isolated, QrHasObserver, NEW i \in Ids, qrCache[i] # NoClient
                 PROVE  client[qrCache[i]].home = i
      BY DEF AccountIsolation, Isolated
    <2>1. PICK r \in Reqs : /\ obs[r].at \in Active \cup {"clear"}
                            /\ obs[r].id = i /\ obs[r].cl = qrCache[i]
      BY DEF QrHasObserver
    <2>2. obs[r].at # "idle"
      BY <2>1 DEF Active
    <2>3. QED
      BY <2>1, <2>2 DEF Isolated
  <1>4. QED BY <1>1, <1>2, <1>3, QrObserved, PTL DEF Spec
=============================================================================
