--------------------------- MODULE SessionProofs ---------------------------
(***************************************************************************)
(* Theorems about Session, for any sets of instances, clients, identities  *)
(* and requests.                                                           *)
(***************************************************************************)
EXTENDS Session, TLAPS

---------------------------------------------------------------------------
\* What a handler or an observer in flight carries: its instance id and, once
\* it has one, its client.  A request slot has an observer only after the
\* request went to poll.
ReqInFlight ==
    /\ \A r \in Reqs : req[r].at # "idle" => req[r].id \in Ids
    /\ \A r \in Reqs : req[r].at \in {"check", "qr", "poll", "pair", "logout"}
                          => req[r].cl \in Clients
ObsInFlight ==
    /\ \A r \in Reqs : obs[r].at # "idle" => obs[r].id \in Ids /\ obs[r].cl \in Clients
    /\ \A r \in Reqs : req[r].at \notin {"idle", "poll"} => obs[r].at = "idle"
InFlight == ReqInFlight /\ ObsInFlight

---------------------------------------------------------------------------
(* The updates the actions are made of: their types and their effects.     *)

LEMMA GotoTyped ==
  ASSUME Typed, NEW r, NEW l \in ReqAt, Goto(r, l)
  PROVE  req' \in [Reqs -> ReqType]
  <1>1. [req EXCEPT ![r].at = l] \in [Reqs -> ReqType]
    BY DEF Typed, ReqType
  <1>2. QED BY <1>1 DEF Goto

LEMMA ReturnTyped ==
  ASSUME Typed, NEW r, Return(r)
  PROVE  req' \in [Reqs -> ReqType]
  <1>1. IdleReq \in ReqType
    BY DEF IdleReq, ReqType, ReqAt
  <1>2. QED BY <1>1 DEF Return, Typed

LEMMA ObsGotoTyped ==
  ASSUME Typed, NEW r, NEW l \in ObsAt, ObsGoto(r, l)
  PROVE  obs' \in [Reqs -> ObsType]
  <1>1. [obs EXCEPT ![r].at = l] \in [Reqs -> ObsType]
    BY DEF Typed, ObsType
  <1>2. QED BY <1>1 DEF ObsGoto

LEMMA SetLinkTyped ==
  ASSUME Typed, NEW c, NEW l \in Link, SetLink(c, l)
  PROVE  client' \in [Clients -> ClientType]
  <1>1. [client EXCEPT ![c].link = l] \in [Clients -> ClientType]
    BY DEF Typed, ClientType
  <1>2. QED BY <1>1 DEF SetLink

\* A request that has found or made its client.
LEMMA CarryTyped ==
  ASSUME NEW f \in [Reqs -> ReqType], NEW r, NEW c \in Clients \cup {NoClient}, NEW l \in ReqAt
  PROVE  [f EXCEPT ![r].cl = c, ![r].at = l] \in [Reqs -> ReqType]
  <1>1. ASSUME NEW x \in ReqType PROVE [x EXCEPT !.cl = c, !.at = l] \in ReqType
    BY DEF ReqType
  <1>2. QED BY <1>1

LEMMA BornTyped ==
  ASSUME NEW i \in Ids \cup {NoId}
  PROVE  [Unallocated EXCEPT !.home = i, !.hooked = TRUE] \in ClientType
  BY DEF Unallocated, ClientType, Link

LEMMA StartTyped ==
  ASSUME NEW c \in Clients \cup {NoClient}, NEW i \in Ids \cup {NoId}
  PROVE  [at |-> "start", id |-> i, cl |-> c, jid |-> NoJid] \in ObsType
  BY DEF ObsType, ObsAt

LEMMA HookTyped ==
  ASSUME NEW f \in [Clients -> ClientType], NEW c, NEW b \in BOOLEAN
  PROVE  [f EXCEPT ![c].hooked = b] \in [Clients -> ClientType]
  BY DEF ClientType

LEMMA LinkTyped ==
  ASSUME NEW f \in [Clients -> ClientType], NEW c, NEW l \in Link
  PROVE  [f EXCEPT ![c].link = l] \in [Clients -> ClientType]
  BY DEF ClientType

LEMMA ItemTyped ==
  ASSUME NEW f \in [Clients -> ChanType], NEW c,
         NEW x \in {"none", "empty", "code", "end", "closed"}
  PROVE  [f EXCEPT ![c].item = x] \in [Clients -> ChanType]
  BY DEF ChanType

LEMMA JidTyped ==
  ASSUME NEW f \in [Reqs -> ObsType], NEW r, NEW j \in Jids \cup {NoJid}, NEW l \in ObsAt
  PROVE  [f EXCEPT ![r].at = l, ![r].jid = j] \in [Reqs -> ObsType]
  <1>1. ASSUME NEW x \in ObsType PROVE [x EXCEPT !.at = l, !.jid = j] \in ObsType
    BY DEF ObsType
  <1>2. QED BY <1>1

LEMMA DieTyped ==
  ASSUME Typed, Die, crashes' \in 0..MaxCrashes
  PROVE  Typed'
  <1>1. Unallocated \in ClientType
    BY DEF Unallocated, ClientType, Link
  <1>2. NoChan \in ChanType
    BY SessionAssumption DEF NoChan, ChanType
  <1>3. IdleReq \in ReqType
    BY DEF IdleReq, ReqType, ReqAt
  <1>4. IdleObs \in ObsType
    BY DEF IdleObs, ObsType, ObsAt
  <1>5. QED BY <1>1, <1>2, <1>3, <1>4 DEF Die, Typed, stored

LEMMA UnmapTyped ==
  ASSUME Typed, NEW i, Unmap(i)
  PROVE  clients' \in [Ids -> Clients \cup {NoClient}]
  BY DEF Typed, Unmap

LEMMA LogoutTyped ==
  ASSUME Typed, NEW c, LogoutOk(c)
  PROVE  client' \in [Clients -> ClientType] /\ devices' \subseteq Jids
  <1>1. ASSUME NEW x \in ClientType
        PROVE  [x EXCEPT !.link = "off", !.dev = NoJid] \in ClientType
    BY DEF ClientType, Link
  <1>2. QED BY <1>1 DEF LogoutOk, Typed

---------------------------------------------------------------------------
(* Type correctness.                                                       *)

LEMMA InitTyped == Init => Typed
  BY SessionAssumption DEF Init, Typed, Unallocated, NoChan, IdleReq, IdleObs,
     ClientType, ChanType, ReqType, ObsType, AllOps, ReqAt, ObsAt, Link, Active

LEMMA BeginTyped ==
  ASSUME Typed, NEW r \in Reqs, NEW op \in Ops, NEW i \in Ids, Begin(r, op, i)
  PROVE  Typed'
  <1>1. ASSUME NEW l \in ReqAt
        PROVE  [op |-> op, id |-> i, cl |-> NoClient, at |-> l] \in ReqType
    BY SessionAssumption DEF ReqType
  <1>2. {"create", "load"} \subseteq ReqAt
    BY DEF ReqAt
  <1>3. \E l \in ReqAt : req' = [req EXCEPT ![r] = [op |-> op, id |-> i, cl |-> NoClient,
                                                  at |-> l]]
    BY <1>2 DEF Begin
  <1>4. req' \in [Reqs -> ReqType]
    BY <1>1, <1>3 DEF Typed
  <1>5. QED BY <1>4 DEF Begin, Typed, stored, shared, history

LEMMA LoadTyped ==
  ASSUME Typed, InFlight, NEW r \in Reqs, Load(r)
  PROVE  Typed'
  <1> DEFINE c == clients[req[r].id]
  <1>1. c \in Clients \cup {NoClient}
    BY DEF Load, InFlight, ReqInFlight, Typed
  <1>2. \/ \E l \in ReqAt : Goto(r, l)
        \/ Return(r)
        \/ \E l \in ReqAt : req' = [req EXCEPT ![r].cl = c, ![r].at = l]
    BY DEF Load, ReqAt
  <1>3. ASSUME NEW l \in ReqAt, req' = [req EXCEPT ![r].cl = c, ![r].at = l]
        PROVE  req' \in [Reqs -> ReqType]
    <2>1. req \in [Reqs -> ReqType]
      BY DEF Typed
    <2> HIDE DEF c
    <2>2. [req EXCEPT ![r].cl = c, ![r].at = l] \in [Reqs -> ReqType]
      BY <1>1, <2>1, CarryTyped
    <2>3. QED BY <1>3, <2>2
  <1>4. req' \in [Reqs -> ReqType]
    BY <1>2, <1>3, GotoTyped, ReturnTyped
  <1>5. QED BY <1>4 DEF Load, Typed, stored, shared, history

LEMMA HandlerTyped ==
  ASSUME Typed, InFlight, NEW r \in Reqs, Handler(r)
  PROVE  Typed'
  <1> USE GotoTyped, ReturnTyped, SetLinkTyped, UnmapTyped DEF shared, stored, history, ReqAt, Link
  <1>1. CASE CreateSet(r) BY <1>1 DEF CreateSet, Typed
  <1>2. CASE Load(r) BY <1>2, LoadTyped
  <1>3. CASE New(r)
    <2>1. PICK c \in Clients \ Live :
             /\ client' = [client EXCEPT ![c] = [Unallocated EXCEPT !.home = req[r].id,
                                                                   !.hooked = TRUE]]
             /\ clients' = [clients EXCEPT ![req[r].id] = c]
             /\ req' = [req EXCEPT ![r].cl = c, ![r].at = "check"]
      BY <1>3 DEF New
    <2>2. req[r].id \in Ids \cup {NoId}
      BY DEF Typed, ReqType
    <2>3. client' \in [Clients -> ClientType]
      BY <2>1, <2>2, BornTyped DEF Typed
    <2>4. req' \in [Reqs -> ReqType]
      <3>1. c \in Clients \cup {NoClient} /\ "check" \in ReqAt
        BY DEF ReqAt
      <3>2. req \in [Reqs -> ReqType]
        BY DEF Typed
      <3>3. QED BY <2>1, <3>1, <3>2, CarryTyped
    <2>5. QED BY <1>3, <2>1, <2>3, <2>4 DEF New, Typed
  <1>4. CASE ConnectCheck(r) BY <1>4 DEF ConnectCheck, Typed
  <1>5. CASE ConnectQr(r)
    <2>1. req[r].id \in Ids \cup {NoId} /\ req[r].cl \in Clients \cup {NoClient}
      BY DEF Typed, ReqType
    <2>2. QED BY <1>5, <2>1, StartTyped DEF ConnectQr, Typed
  <1>6. CASE ConnectPoll(r) BY <1>6 DEF ConnectPoll, Typed
  <1>7. CASE ConnectTimeout(r) BY <1>7 DEF ConnectTimeout, Typed
  <1>8. CASE PairCheck(r) BY <1>8 DEF PairCheck, Typed
  <1>9. CASE PairCode(r) BY <1>9 DEF PairCode, Typed
  <1>10. CASE PairUndo(r) BY <1>10 DEF PairUndo, Typed
  <1>11. CASE LogoutCall(r) BY <1>11, LogoutTyped DEF LogoutCall, Typed
  <1>12. CASE DeleteDisconnect(r) BY <1>12 DEF DeleteDisconnect, Typed
  <1>13. CASE DeleteUnmap(r) BY <1>13 DEF DeleteUnmap, Typed
  <1>14. CASE DeleteUnqr(r) BY <1>14 DEF DeleteUnqr, Typed
  <1>15. CASE DeleteList(r) BY <1>15 DEF DeleteList, Typed
  <1>16. CASE DeleteDel(r) BY <1>16 DEF DeleteDel, Typed
  <1>17. QED
    BY <1>1, <1>2, <1>3, <1>4, <1>5, <1>6, <1>7, <1>8, <1>9, <1>10, <1>11, <1>12,
       <1>13, <1>14, <1>15, <1>16 DEF Handler
LEMMA ObserverTyped ==
  ASSUME Typed, InFlight, NEW r \in Reqs, Observer(r)
  PROVE  Typed'
  <1> USE ObsGotoTyped, SetLinkTyped, UnmapTyped
      DEF shared, stored, history, ObsAt, Active, Link
  <1> IdleObs \in ObsType
    BY DEF IdleObs, ObsType
  <1> NoChan \in ChanType
    BY SessionAssumption DEF NoChan, ChanType
  <1>1. CASE ObsStart(r) BY <1>1 DEF ObsStart, Typed
  <1>2. CASE ObsChan(r) BY <1>2, SessionAssumption DEF ObsChan, Typed, ChanType
  <1>3. CASE ObsDial(r) BY <1>3 DEF ObsDial, Typed
  <1>4. CASE ObsCode(r)
    <2>1. qrChan' \in [Clients -> ChanType]
      BY <1>4, ItemTyped DEF ObsCode, Typed
    <2>2. obs[r].cl \in Clients
      BY <1>4 DEF ObsCode, InFlight, ObsInFlight
    <2>3. client[obs[r].cl] \in ClientType
      BY <2>2 DEF Typed
    <2>4. SetLink(obs[r].cl, Shown(obs[r].cl)) /\ Shown(obs[r].cl) \in Link
      BY <1>4, <2>3 DEF ObsCode, Shown, ClientType, Link
    <2>5. client' \in [Clients -> ClientType]
      BY <2>4, SetLinkTyped
    <2>6. QED BY <1>4, <2>1, <2>2, <2>5 DEF ObsCode, Typed
  <1>5. CASE ObsEnd(r)
    <2>1. client' = client \/ client' = [client EXCEPT ![obs[r].cl].hooked = FALSE]
      BY <1>5 DEF ObsEnd
    <2>2. client \in [Clients -> ClientType]
      BY DEF Typed
    <2>3. [client EXCEPT ![obs[r].cl].hooked = FALSE] \in [Clients -> ClientType]
      BY <2>2, HookTyped
    <2>4. client' \in [Clients -> ClientType]
      BY <2>1, <2>2, <2>3
    <2>5. QED BY <1>5, <2>4 DEF ObsEnd, Typed
  <1>6. CASE ObsHook(r)
    <2>1. client' \in [Clients -> ClientType]
      BY <1>6, HookTyped DEF ObsHook, Typed
    <2>2. QED BY <1>6, <2>1 DEF ObsHook, Typed
  <1>7. CASE ObsList(r)
    <2>1. obs[r].cl \in Clients
      BY <1>7 DEF ObsList, InFlight, ObsInFlight
    <2>2. client[obs[r].cl].dev \in Jids \cup {NoJid}
      BY <2>1 DEF Typed, ClientType
    <2>3. "set" \in ObsAt /\ obs \in [Reqs -> ObsType]
      BY DEF Typed
    <2>4. [obs EXCEPT ![r].at = "set", ![r].jid = client[obs[r].cl].dev] \in [Reqs -> ObsType]
      BY <2>2, <2>3, JidTyped
    <2>5. \/ ObsGoto(r, "release")
          \/ obs' = [obs EXCEPT ![r].at = "set", ![r].jid = client[obs[r].cl].dev]
      BY <1>7 DEF ObsList
    <2>6. obs' \in [Reqs -> ObsType]
      BY <2>4, <2>5
    <2>7. QED BY <1>7, <2>6 DEF ObsList, Typed
  <1>8. CASE ObsSet(r) BY <1>8 DEF ObsSet, Typed, ObsType
  <1>9. CASE ObsTimeout(r) BY <1>9, LogoutTyped DEF ObsTimeout, Typed
  <1>10. CASE ObsExpire(r) BY <1>10 DEF ObsExpire, Typed
  <1>11. CASE ObsClosed(r) BY <1>11 DEF ObsClosed, Typed
  <1>12. CASE ObsPanic(r) BY <1>12, DieTyped DEF ObsPanic, Typed
  <1>13. CASE ObsRelease(r) BY <1>13 DEF ObsRelease, Typed
  <1>14. CASE ObsClear(r) BY <1>14 DEF ObsClear, Typed
  <1>15. QED
    BY <1>1, <1>2, <1>3, <1>4, <1>5, <1>6, <1>7, <1>8, <1>9, <1>10, <1>11, <1>12,
       <1>13, <1>14 DEF Observer
LEMMA LibraryTyped ==
  ASSUME Typed, NEW c \in Clients, Library(c)
  PROVE  Typed'
  <1> USE SetLinkTyped DEF shared, stored, history, Link
  <1>1. CASE EmitCode(c)
    <2>1. qrChan[c] \in ChanType
      BY DEF Typed
    <2>2. [item |-> "code", left |-> qrChan[c].left - 1] \in ChanType
      BY <1>1, <2>1, SessionAssumption DEF EmitCode, ChanType
    <2>3. qrChan' \in [Clients -> ChanType]
      BY <1>1, <2>2 DEF EmitCode, Typed
    <2>4. QED BY <1>1, <2>3 DEF EmitCode, Typed
  <1>2. CASE QrEnd(c)
    <2>1. qrChan' \in [Clients -> ChanType]
      BY <1>2, ItemTyped DEF QrEnd, Typed
    <2>2. QED BY <1>2, <2>1 DEF QrEnd, Typed
  <1>3. CASE QrClose(c)
    <2>1. qrChan' \in [Clients -> ChanType]
      BY <1>3, ItemTyped DEF QrClose, Typed
    <2>2. QED BY <1>3, <2>1 DEF QrClose, Typed
  <1>4. CASE Reconnect(c) BY <1>4 DEF Reconnect, Typed
  <1>5. CASE Authenticated(c) BY <1>5 DEF Authenticated, Typed
  <1>6. CASE NetDrop(c) BY <1>6 DEF NetDrop, Typed
  <1>7. CASE RemoteLogout(c)
    <2>1. ASSUME NEW x \in ClientType
          PROVE  [x EXCEPT !.link = "off", !.dev = NoJid] \in ClientType
      BY DEF ClientType
    <2>2. client' \in [Clients -> ClientType]
      BY <1>7, <2>1 DEF RemoteLogout, Typed
    <2>3. QED BY <1>7, <2>2 DEF RemoteLogout, Typed
  <1>8. ASSUME NEW j \in Jids, PairSuccess(c, j)
        PROVE  Typed'
    <2>1. ASSUME NEW x \in ClientType
          PROVE  [x EXCEPT !.dev = j, !.link = "drop"] \in ClientType
      BY DEF ClientType
    <2>2. client' \in [Clients -> ClientType]
      BY <1>8, <2>1 DEF PairSuccess, Typed
    <2>3. client[c].home \in Ids \cup {NoId}
      BY DEF Typed, ClientType
    <2>4. QED BY <1>8, <2>2, <2>3 DEF PairSuccess, Typed
  <1>9. QED
    BY <1>1, <1>2, <1>3, <1>4, <1>5, <1>6, <1>7, <1>8 DEF Library

LEMMA BootTyped ==
  ASSUME Typed, Boot
  PROVE  Typed'
  <1> DEFINE claimed == {j \in devices : \E i \in Ids : Names(i, j)}
  <1>1. PICK byRemoteJid \in [claimed -> Ids], new \in [claimed -> Clients], ok \in SUBSET claimed :
          /\ \A j \in claimed : Names(byRemoteJid[j], j)
          /\ \A j, k \in claimed : new[j] = new[k] => j = k
          /\ clients' = [i \in Ids |->
                IF \E j \in claimed : byRemoteJid[j] = i
                  THEN new[CHOOSE j \in claimed : byRemoteJid[j] = i] ELSE NoClient]
          /\ client' = [c \in Clients |->
                IF \E j \in claimed : new[j] = c
                  THEN LET j == CHOOSE k \in claimed : new[k] = c IN
                       [home |-> byRemoteJid[j], dev |-> j, hooked |-> TRUE,
                        link |-> IF j \in ok THEN "open" ELSE "off"]
                  ELSE Unallocated]
    BY DEF Boot
  <1>2. claimed \subseteq Jids
    BY DEF Typed
  <1>3. clients' \in [Ids -> Clients \cup {NoClient}]
    BY <1>1
  <1>4. ASSUME NEW j \in claimed, NEW l \in Link
        PROVE  [home |-> byRemoteJid[j], dev |-> j, hooked |-> TRUE, link |-> l] \in ClientType
    BY <1>2 DEF ClientType
  <1>5. Unallocated \in ClientType
    BY DEF Unallocated, ClientType, Link
  <1>6. "open" \in Link /\ "off" \in Link
    BY DEF Link
  <1>7. client' \in [Clients -> ClientType]
    BY <1>1, <1>4, <1>5, <1>6
  <1>8. QED BY <1>2, <1>3, <1>7 DEF Boot, Typed

LEMMA NextTyped == Typed /\ InFlight /\ [Next]_vars => Typed'
  <1> SUFFICES ASSUME Typed, InFlight, [Next]_vars
               PROVE  Typed'
    OBVIOUS
  <1>1. CASE Crash
    BY <1>1, DieTyped, SessionAssumption DEF Crash, Typed
  <1>2. CASE UNCHANGED vars
    BY <1>2 DEF vars, Typed
  <1>3. QED
    BY <1>1, <1>2, BeginTyped, HandlerTyped, ObserverTyped, LibraryTyped, BootTyped DEF Next
---------------------------------------------------------------------------
(* The requests and observers in flight.                                   *)

LEMMA GotoEffect ==
  ASSUME Typed, NEW r \in Reqs, NEW l, Goto(r, l)
  PROVE  \A q \in Reqs : /\ req'[q].at = IF q = r THEN l ELSE req[q].at
                         /\ req'[q].id = req[q].id
                         /\ req'[q].cl = req[q].cl
                         /\ q # r => req'[q] = req[q]
  BY DEF Goto, Typed, ReqType

LEMMA ReturnEffect ==
  ASSUME Typed, NEW r \in Reqs, Return(r)
  PROVE  \A q \in Reqs : /\ q # r => req'[q] = req[q]
                         /\ q = r => req'[q].at = "idle"
  BY DEF Return, Typed, IdleReq

LEMMA ObsGotoEffect ==
  ASSUME Typed, NEW r \in Reqs, NEW l, ObsGoto(r, l)
  PROVE  \A q \in Reqs : /\ obs'[q].at = IF q = r THEN l ELSE obs[q].at
                         /\ obs'[q].id = obs[q].id
                         /\ obs'[q].cl = obs[q].cl
                         /\ obs'[q].jid = obs[q].jid
  BY DEF ObsGoto, Typed, ObsType

LEMMA GotoInFlight ==
  ASSUME Typed, ReqInFlight, NEW r \in Reqs, NEW l, Goto(r, l), req[r].at # "idle",
         l \in {"check", "qr", "poll", "pair", "logout"} => req[r].cl \in Clients
  PROVE  ReqInFlight'
  BY GotoEffect DEF ReqInFlight

LEMMA ReturnInFlight ==
  ASSUME Typed, ReqInFlight, NEW r \in Reqs, Return(r)
  PROVE  ReqInFlight'
  BY ReturnEffect DEF ReqInFlight

LEMMA CarryInFlight ==
  ASSUME Typed, ReqInFlight, NEW r \in Reqs, NEW c \in Clients, NEW l,
         req' = [req EXCEPT ![r].cl = c, ![r].at = l], req[r].at # "idle"
  PROVE  /\ ReqInFlight'
         /\ \A q \in Reqs \ {r} : req'[q] = req[q]
  <1>1. \A q \in Reqs : /\ req'[q].at = IF q = r THEN l ELSE req[q].at
                        /\ req'[q].id = req[q].id
                        /\ req'[q].cl = IF q = r THEN c ELSE req[q].cl
                        /\ q # r => req'[q] = req[q]
    BY DEF Typed, ReqType
  <1>2. QED BY <1>1 DEF ReqInFlight

\* What a handler's step does to the requests: only its own slot moves, and it
\* has its id and client where the next step needs them.
LEMMA HandlerReq ==
  ASSUME Typed, InFlight, NEW r \in Reqs, Handler(r)
  PROVE  /\ ReqInFlight'
         /\ req[r].at # "idle"
         /\ \A q \in Reqs \ {r} : req'[q] = req[q]
  <1>0. SUFFICES \/ \E l : /\ Goto(r, l)
                           /\ req[r].at # "idle"
                           /\ l \in {"check", "qr", "poll", "pair", "logout"} => req[r].cl \in Clients
                 \/ Return(r) /\ req[r].at # "idle"
                 \/ \E c \in Clients, l \in ReqAt :
                      req' = [req EXCEPT ![r].cl = c, ![r].at = l] /\ req[r].at # "idle"
    <2>1. CASE \E l : /\ Goto(r, l)
                      /\ req[r].at # "idle"
                      /\ l \in {"check", "qr", "poll", "pair", "logout"} => req[r].cl \in Clients
      <3>1. PICK l : /\ Goto(r, l)
                     /\ req[r].at # "idle"
                     /\ l \in {"check", "qr", "poll", "pair", "logout"} => req[r].cl \in Clients
        BY <2>1
      <3>2. ReqInFlight'
        BY <3>1, GotoInFlight DEF InFlight
      <3>3. QED BY <3>1, <3>2, GotoEffect
    <2>2. CASE Return(r) /\ req[r].at # "idle"
      BY <2>2, ReturnInFlight, ReturnEffect DEF InFlight
    <2>3. CASE \E c \in Clients, l \in ReqAt :
                 req' = [req EXCEPT ![r].cl = c, ![r].at = l] /\ req[r].at # "idle"
      BY <2>3, CarryInFlight DEF InFlight
    <2>4. QED BY <2>1, <2>2, <2>3
  <1> USE DEF InFlight, ReqInFlight
  <1>1. CASE CreateSet(r) BY <1>1 DEF CreateSet
  <1>2. CASE Load(r)
    <2>1. req[r].at = "load" /\ clients[req[r].id] \in Clients \cup {NoClient}
      BY <1>2 DEF Load, Typed
    <2>2. \/ Goto(r, "new")
          \/ Goto(r, "disconnect")
          \/ Return(r)
          \/ /\ clients[req[r].id] # NoClient
             /\ \E l \in ReqAt : req' = [req EXCEPT ![r].cl = clients[req[r].id], ![r].at = l]
      BY <1>2 DEF Load, ReqAt
    <2>3. QED BY <2>1, <2>2
  <1>3. CASE New(r) BY <1>3 DEF New, ReqAt
  <1>4. CASE ConnectCheck(r) BY <1>4 DEF ConnectCheck
  <1>5. CASE ConnectQr(r) BY <1>5 DEF ConnectQr
  <1>6. CASE ConnectPoll(r) BY <1>6 DEF ConnectPoll
  <1>7. CASE ConnectTimeout(r) BY <1>7 DEF ConnectTimeout
  <1>8. CASE PairCheck(r) BY <1>8 DEF PairCheck
  <1>9. CASE PairCode(r) BY <1>9 DEF PairCode
  <1>10. CASE PairUndo(r) BY <1>10 DEF PairUndo
  <1>11. CASE LogoutCall(r) BY <1>11 DEF LogoutCall
  <1>12. CASE DeleteDisconnect(r) BY <1>12 DEF DeleteDisconnect
  <1>13. CASE DeleteUnmap(r) BY <1>13 DEF DeleteUnmap
  <1>14. CASE DeleteUnqr(r) BY <1>14 DEF DeleteUnqr
  <1>15. CASE DeleteList(r) BY <1>15 DEF DeleteList
  <1>16. CASE DeleteDel(r) BY <1>16 DEF DeleteDel
  <1>17. QED
    BY <1>1, <1>2, <1>3, <1>4, <1>5, <1>6, <1>7, <1>8, <1>9, <1>10, <1>11, <1>12,
       <1>13, <1>14, <1>15, <1>16 DEF Handler
\* A handler's step leaves the observers alone, except that a connect without a
\* cached code starts one.
LEMMA HandlerObs ==
  ASSUME Typed, InFlight, NEW r \in Reqs, Handler(r)
  PROVE  /\ observerRunning' = observerRunning
         /\ \/ obs' = obs /\ req[r].at # "poll"
            \/ obs' = obs /\ req'[r].at = "idle"
            \/ /\ req[r].at = "qr" /\ req'[r].at = "poll"
               /\ obs[r].at = "idle"
               /\ obs' = [obs EXCEPT ![r] = [at |-> "start", id |-> req[r].id,
                                             cl |-> req[r].cl, jid |-> NoJid]]
         /\ qrCache' = qrCache \/ \E i \in Ids : qrCache' = [qrCache EXCEPT ![i] = NoClient]
  <1> USE DEF shared, InFlight, ReqInFlight, ObsInFlight
  <1>1. CASE CreateSet(r) BY <1>1 DEF CreateSet
  <1>2. CASE Load(r) BY <1>2 DEF Load
  <1>3. CASE New(r) BY <1>3 DEF New
  <1>4. CASE ConnectCheck(r) BY <1>4 DEF ConnectCheck
  <1>5. CASE ConnectQr(r) BY <1>5, GotoEffect DEF ConnectQr
  <1>6. CASE ConnectPoll(r) BY <1>6, ReturnEffect DEF ConnectPoll
  <1>7. CASE ConnectTimeout(r) BY <1>7, ReturnEffect DEF ConnectTimeout
  <1>8. CASE PairCheck(r) BY <1>8 DEF PairCheck
  <1>9. CASE PairCode(r) BY <1>9 DEF PairCode
  <1>10. CASE PairUndo(r) BY <1>10 DEF PairUndo
  <1>11. CASE LogoutCall(r) BY <1>11 DEF LogoutCall
  <1>12. CASE DeleteDisconnect(r) BY <1>12 DEF DeleteDisconnect
  <1>13. CASE DeleteUnmap(r) BY <1>13 DEF DeleteUnmap
  <1>14. CASE DeleteUnqr(r) BY <1>14 DEF DeleteUnqr
  <1>15. CASE DeleteList(r) BY <1>15 DEF DeleteList
  <1>16. CASE DeleteDel(r) BY <1>16 DEF DeleteDel
  <1>17. QED
    BY <1>1, <1>2, <1>3, <1>4, <1>5, <1>6, <1>7, <1>8, <1>9, <1>10, <1>11, <1>12,
       <1>13, <1>14, <1>15, <1>16 DEF Handler

\* An observer's step: it takes the guard, moves on holding it, gives it back,
\* leaves, or ends the process.
LEMMA ObserverObs ==
  ASSUME Typed, InFlight, NEW r \in Reqs, Observer(r), ~ObsPanic(r)
  PROVE  /\ req' = req
         /\ obs[r].at # "idle"
         /\ \/ /\ obs[r].at = "start" /\ observerRunning' = observerRunning
               /\ qrCache' = qrCache
               /\ obs' = [obs EXCEPT ![r] = IdleObs]
            \/ /\ obs[r].at = "start" /\ ~observerRunning[obs[r].id]
               /\ observerRunning' = [observerRunning EXCEPT ![obs[r].id] = TRUE]
               /\ qrCache' = qrCache
               /\ ObsGoto(r, "chan")
            \/ /\ obs[r].at \in Active /\ observerRunning' = observerRunning
               /\ qrCache' = qrCache
               /\ \/ \E l \in Active : ObsGoto(r, l)
                  \/ obs' = [obs EXCEPT ![r].at = "set", ![r].jid = client[obs[r].cl].dev]
            \/ /\ obs[r].at \in Active /\ observerRunning' = observerRunning
               /\ obs' = obs
               /\ qrCache' = [qrCache EXCEPT ![obs[r].id] = obs[r].cl]
            \/ /\ obs[r].at \in Active
               /\ observerRunning' = [observerRunning EXCEPT ![obs[r].id] = FALSE]
               /\ qrCache' = qrCache
               /\ ObsGoto(r, "clear")
            \/ /\ obs[r].at = "clear" /\ observerRunning' = observerRunning
               /\ qrCache' = [qrCache EXCEPT ![obs[r].id] = NoClient]
               /\ obs' = [obs EXCEPT ![r] = IdleObs]
  <1> USE DEF shared, Active
  <1>1. CASE ObsStart(r) BY <1>1 DEF ObsStart, Typed
  <1>2. CASE ObsChan(r) BY <1>2 DEF ObsChan
  <1>3. CASE ObsDial(r) BY <1>3 DEF ObsDial
  <1>4. CASE ObsCode(r) BY <1>4 DEF ObsCode
  <1>5. CASE ObsEnd(r) BY <1>5 DEF ObsEnd
  <1>6. CASE ObsHook(r) BY <1>6 DEF ObsHook
  <1>7. CASE ObsList(r) BY <1>7 DEF ObsList
  <1>8. CASE ObsSet(r) BY <1>8 DEF ObsSet
  <1>9. CASE ObsTimeout(r) BY <1>9 DEF ObsTimeout
  <1>10. CASE ObsExpire(r) BY <1>10 DEF ObsExpire
  <1>11. CASE ObsClosed(r) BY <1>11 DEF ObsClosed
  <1>12. CASE ObsRelease(r) BY <1>12 DEF ObsRelease
  <1>13. CASE ObsClear(r) BY <1>13 DEF ObsClear
  <1>14. QED
    BY <1>1, <1>2, <1>3, <1>4, <1>5, <1>6, <1>7, <1>8, <1>9, <1>10, <1>11, <1>12,
       <1>13 DEF Observer
---------------------------------------------------------------------------
(* The invariants of the observers.                                        *)

Guarded == Typed /\ InFlight /\ ObserverExclusive /\ QrHasObserver

\* The library and a restart touch neither requests nor observers.
LEMMA OthersIdle ==
  ASSUME NEW c \in Clients, Library(c) \/ Boot
  PROVE  req' = req /\ obs' = obs /\ observerRunning' = observerRunning /\ qrCache' = qrCache
  BY DEF Library, EmitCode, QrEnd, QrClose, Reconnect, Authenticated, NetDrop, RemoteLogout,
     PairSuccess, Boot, shared

LEMMA DieGuarded ==
  ASSUME Die
  PROVE  InFlight' /\ ObserverExclusive' /\ QrHasObserver'
  BY DEF Die, InFlight, ReqInFlight, ObsInFlight, ObserverExclusive, Observing, QrHasObserver, IdleReq,
     IdleObs, Active

LEMMA HandlerGuarded ==
  ASSUME Guarded, NEW r \in Reqs, Handler(r)
  PROVE  InFlight' /\ ObserverExclusive' /\ QrHasObserver'
  <1> USE DEF Guarded
  <1>1. ReqInFlight' /\ req[r].at # "idle" /\ \A q \in Reqs \ {r} : req'[q] = req[q]
    BY HandlerReq
  <1>2. CASE obs' = obs
    <2>1. ObsInFlight'
      BY <1>1, <1>2, HandlerObs DEF InFlight, ObsInFlight
    <2>2. ObserverExclusive'
      BY <1>2, HandlerObs DEF ObserverExclusive, Observing
    <2>3. QrHasObserver'
      BY <1>2, HandlerObs DEF QrHasObserver, Typed
    <2>4. QED BY <1>1, <2>1, <2>2, <2>3 DEF InFlight
  <1>3. CASE /\ req[r].at = "qr" /\ req'[r].at = "poll" /\ obs[r].at = "idle"
             /\ obs' = [obs EXCEPT ![r] = [at |-> "start", id |-> req[r].id,
                                           cl |-> req[r].cl, jid |-> NoJid]]
    <2>1. \A q \in Reqs : /\ q # r => obs'[q] = obs[q]
                          /\ q = r => /\ obs'[q].at = "start" /\ obs'[q].id = req[r].id
                                      /\ obs'[q].cl = req[r].cl
      BY <1>3 DEF Typed
    <2>2. ObsInFlight'
      BY <1>1, <1>3, <2>1 DEF InFlight, ReqInFlight, ObsInFlight
    <2>3. ObserverExclusive'
      BY <1>3, <2>1, HandlerObs DEF ObserverExclusive, Observing, Active
    <2>4. QrHasObserver'
      BY <1>3, <2>1, HandlerObs DEF QrHasObserver, Typed, Active
    <2>5. QED BY <1>1, <2>2, <2>3, <2>4 DEF InFlight
  <1>4. QED BY <1>2, <1>3, HandlerObs

LEMMA ObserverGuarded ==
  ASSUME Guarded, NEW r \in Reqs, Observer(r)
  PROVE  InFlight' /\ ObserverExclusive' /\ QrHasObserver'
  <1> USE DEF Guarded
  <1>1. CASE ObsPanic(r)
    BY <1>1, DieGuarded DEF ObsPanic
  <1> SUFFICES ASSUME ~ObsPanic(r)
               PROVE  InFlight' /\ ObserverExclusive' /\ QrHasObserver'
    BY <1>1
  <1>2. req' = req /\ obs[r].at # "idle" /\ obs[r].id \in Ids /\ obs[r].cl \in Clients
    BY ObserverObs DEF InFlight, ObsInFlight
  <1>3. CASE /\ obs[r].at = "start" /\ observerRunning' = observerRunning
             /\ qrCache' = qrCache
             /\ obs' = [obs EXCEPT ![r] = IdleObs]
    <2>1. \A q \in Reqs : (q # r => obs'[q] = obs[q]) /\ (q = r => obs'[q].at = "idle")
      BY <1>3 DEF Typed, IdleObs
    <2>2. QED
      BY <1>2, <1>3, <2>1 DEF InFlight, ReqInFlight, ObsInFlight, ObserverExclusive, Observing,
         QrHasObserver, Active
  <1>4. CASE /\ obs[r].at = "start" /\ ~observerRunning[obs[r].id]
             /\ observerRunning' = [observerRunning EXCEPT ![obs[r].id] = TRUE]
             /\ qrCache' = qrCache
             /\ ObsGoto(r, "chan")
    <2>1. InFlight'
      BY <1>2, <1>4, ObsGotoEffect DEF InFlight, ReqInFlight, ObsInFlight
    <2>2. ObserverExclusive'
      BY <1>2, <1>4, ObsGotoEffect DEF ObserverExclusive, Observing, Typed, Active
    <2>3. QrHasObserver'
      BY <1>4, ObsGotoEffect DEF QrHasObserver, Active
    <2>4. QED BY <2>1, <2>2, <2>3
  <1>5. CASE /\ obs[r].at \in Active /\ observerRunning' = observerRunning
             /\ qrCache' = qrCache
             /\ \/ \E l \in Active : ObsGoto(r, l)
                \/ obs' = [obs EXCEPT ![r].at = "set", ![r].jid = client[obs[r].cl].dev]
    <2>1. \A q \in Reqs : /\ obs'[q].id = obs[q].id /\ obs'[q].cl = obs[q].cl
                          /\ q # r => obs'[q].at = obs[q].at
                          /\ q = r => obs'[q].at \in Active
      <3>1. CASE \E l \in Active : ObsGoto(r, l)
        BY <3>1, ObsGotoEffect
      <3>2. CASE obs' = [obs EXCEPT ![r].at = "set", ![r].jid = client[obs[r].cl].dev]
        BY <3>2 DEF Typed, ObsType, Active
      <3>3. QED BY <1>5, <3>1, <3>2
    <2>2. InFlight'
      BY <1>2, <2>1 DEF InFlight, ReqInFlight, ObsInFlight
    <2>3. ObserverExclusive'
      BY <1>5, <2>1 DEF ObserverExclusive, Observing
    <2>4. QrHasObserver'
      BY <1>5, <2>1 DEF QrHasObserver
    <2>5. QED BY <2>2, <2>3, <2>4
  <1>6. CASE /\ obs[r].at \in Active /\ observerRunning' = observerRunning
             /\ obs' = obs
             /\ qrCache' = [qrCache EXCEPT ![obs[r].id] = obs[r].cl]
    BY <1>2, <1>6 DEF InFlight, ReqInFlight, ObsInFlight, ObserverExclusive, Observing, QrHasObserver, Typed
  <1>7. CASE /\ obs[r].at \in Active
             /\ observerRunning' = [observerRunning EXCEPT ![obs[r].id] = FALSE]
             /\ qrCache' = qrCache
             /\ ObsGoto(r, "clear")
    <2>1. InFlight'
      BY <1>2, <1>7, ObsGotoEffect DEF InFlight, ReqInFlight, ObsInFlight
    <2>2. ObserverExclusive'
      <3>1. \A q \in Reqs : q # r /\ obs[q].at \in Active => obs[q].id # obs[r].id
        BY <1>2, <1>7 DEF ObserverExclusive, Observing
      <3>2. \A q \in Reqs : /\ obs'[q].id = obs[q].id
                            /\ obs'[q].at \in Active <=> q # r /\ obs[q].at \in Active
        BY <1>7, ObsGotoEffect DEF Active
      <3>3. \A i \in Ids : observerRunning'[i] = IF i = obs[r].id THEN FALSE ELSE observerRunning[i]
        BY <1>7 DEF Typed
      <3>4. ASSUME NEW i \in Ids
            PROVE  observerRunning'[i] <=> \E q \in Reqs : obs'[q].at \in Active /\ obs'[q].id = i
        <4>1. CASE i = obs[r].id
          BY <3>1, <3>2, <3>3, <4>1
        <4>2. CASE i # obs[r].id
          <5>1. observerRunning'[i] = observerRunning[i]
            BY <3>3, <4>2
          <5>2. \A q \in Reqs : obs'[q].at \in Active /\ obs'[q].id = i
                              <=> obs[q].at \in Active /\ obs[q].id = i
            BY <3>2, <4>2
          <5>3. QED BY <5>1, <5>2 DEF ObserverExclusive, Observing
        <4>3. QED BY <4>1, <4>2
      <3>5. ASSUME NEW i \in Ids, NEW q \in Reqs, NEW s \in Reqs,
                   obs'[q].at \in Active, obs'[q].id = i, obs'[s].at \in Active, obs'[s].id = i
            PROVE  q = s
        BY <3>2, <3>5 DEF ObserverExclusive, Observing
      <3>6. QED BY <3>4, <3>5 DEF ObserverExclusive, Observing
    <2>3. QrHasObserver'
      BY <1>7, ObsGotoEffect DEF QrHasObserver, Active
    <2>4. QED BY <2>1, <2>2, <2>3
  <1>8. CASE /\ obs[r].at = "clear" /\ observerRunning' = observerRunning
             /\ qrCache' = [qrCache EXCEPT ![obs[r].id] = NoClient]
             /\ obs' = [obs EXCEPT ![r] = IdleObs]
    <2>1. \A q \in Reqs : (q # r => obs'[q] = obs[q]) /\ (q = r => obs'[q].at = "idle")
      BY <1>8 DEF Typed, IdleObs
    <2>2. InFlight'
      BY <1>2, <2>1 DEF InFlight, ReqInFlight, ObsInFlight
    <2>3. ObserverExclusive'
      BY <1>8, <2>1 DEF ObserverExclusive, Observing, Active
    <2>4. QrHasObserver'
      BY <1>2, <1>8, <2>1 DEF QrHasObserver, Typed
    <2>5. QED BY <2>2, <2>3, <2>4
  <1>9. QED BY <1>3, <1>4, <1>5, <1>6, <1>7, <1>8, ObserverObs

LEMMA NextGuarded == Guarded /\ [Next]_vars => Guarded'
  <1> SUFFICES ASSUME Guarded, [Next]_vars
               PROVE  Guarded'
    OBVIOUS
  <1>1. SUFFICES InFlight' /\ ObserverExclusive' /\ QrHasObserver'
    BY NextTyped DEF Guarded
  <1>2. req' = req /\ obs' = obs /\ observerRunning' = observerRunning /\ qrCache' = qrCache
           => InFlight' /\ ObserverExclusive' /\ QrHasObserver'
    BY DEF Guarded, InFlight, ReqInFlight, ObsInFlight, ObserverExclusive, Observing, QrHasObserver
  <1>3. ASSUME NEW r \in Reqs, NEW op \in Ops, NEW i \in Ids, Begin(r, op, i)
        PROVE  InFlight' /\ ObserverExclusive' /\ QrHasObserver'
    <2>1. /\ req[r].at = "idle" /\ obs[r].at = "idle"
          /\ UNCHANGED <<obs, observerRunning, qrCache>>
      BY <1>3 DEF Begin, shared
    <2>2. \A q \in Reqs : /\ q # r => req'[q] = req[q]
                          /\ q = r => req'[q].at \in {"create", "load"} /\ req'[q].id = i
      BY <1>3 DEF Begin, Guarded, Typed
    <2>3. ReqInFlight'
      BY <2>2 DEF Guarded, InFlight, ReqInFlight
    <2>4. ObsInFlight'
      BY <2>1, <2>2 DEF Guarded, InFlight, ObsInFlight
    <2>5. QED
      BY <2>1, <2>3, <2>4 DEF Guarded, InFlight, ObserverExclusive, Observing, QrHasObserver
  <1>4. CASE Crash
    BY <1>4, DieGuarded DEF Crash
  <1>5. CASE Boot
    BY <1>5, <1>2 DEF Boot
  <1>6. CASE \E c \in Clients : Library(c)
    BY <1>6, <1>2, OthersIdle
  <1>7. CASE UNCHANGED vars
    BY <1>7, <1>2 DEF vars
  <1>8. QED
    BY <1>3, <1>4, <1>5, <1>6, <1>7, HandlerGuarded, ObserverGuarded DEF Next

LEMMA InitGuarded == Init => Guarded
  BY InitTyped DEF Init, Guarded, InFlight, ReqInFlight, ObsInFlight, ObserverExclusive, Observing,
     QrHasObserver, IdleReq, IdleObs, Active

LEMMA AlwaysGuarded == Spec => []Guarded
  BY InitGuarded, NextGuarded, PTL DEF Spec

\* The variables keep their types, and no request or observer reaches a call on its
\* client without having one.  Both rest on what those in flight carry, because a
\* map is only ever indexed with an id they hold.
THEOREM TypeCorrect == Spec => []TypeOK
  <1>1. Guarded => TypeOK
    BY DEF Guarded, InFlight, ReqInFlight, ObsInFlight, TypeOK
  <1>2. QED
    BY <1>1, AlwaysGuarded, PTL

\* LoadOrStore with the deferred Delete is a lock: however many connects race,
\* at most one observer of an id is between the two, and the flag is set exactly
\* while one is.
THEOREM ObserversExclude == Spec => []ObserverExclusive
  BY AlwaysGuarded, PTL DEF Guarded

\* Whatever code Connect hands out, an observer that will clear it is alive.
THEOREM QrObserved == Spec => []QrHasObserver
  BY AlwaysGuarded, PTL DEF Guarded
=============================================================================
