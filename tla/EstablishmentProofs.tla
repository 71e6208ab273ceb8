------------------------ MODULE EstablishmentProofs ------------------------
(***************************************************************************)
(* What two ends compute from their Configs and from the settings of the   *)
(* other matches; and the safety properties of Establishment, for any      *)
(* number of connections and requests and any Configs.                     *)
(***************************************************************************)
EXTENDS Establishment, WellFoundedInduction, TLAPS

-----------------------------------------------------------------------------
\* config.go: clipping yields a limit that the peer can read.
LEMMA LimitRange ==
  ASSUME NEW v \in Values
  PROVE  /\ streamLimit(v) \in 0..MaxStreamsLimit
         /\ dataLimit(v) \in 0..MaxVarint
         /\ streamLimit(v) > 0 <=> v > 0
         /\ dataLimit(v) > 0 <=> v > 0
  BY ValuesAssumption DEF streamLimit, dataLimit, Min

\* config.go: the decision an end takes from its Config c and the settings of
\* d matches the decision of the end with the Config d.
THEOREM DecisionsAgree ==
  ASSUME NEW c \in Config, NEW d \in Config
  PROVE  LimitsAgree(sessionFlowControl(c, addSettings(d)), sessionFlowControl(d, addSettings(c)))
<1>1. ASSUME NEW x \in Config
      PROVE  /\ peerEnabled(addSettings(x)) <=> localEnabled(x)
             /\ addSettings(x).bidi = streamLimit(x.MaxIncomingStreams)
             /\ addSettings(x).uni = streamLimit(x.MaxIncomingUniStreams)
             /\ addSettings(x).data = dataLimit(x.MaxIncomingData)
  <2>1. /\ x.MaxIncomingStreams \in Values /\ x.MaxIncomingUniStreams \in Values
        /\ x.MaxIncomingData \in Values
    BY DEF Config
  <2>2. ASSUME NEW v \in Values
        PROVE  /\ (IF v # 0 THEN streamLimit(v) ELSE 0) = streamLimit(v)
               /\ (IF v # 0 THEN dataLimit(v) ELSE 0) = dataLimit(v)
    BY ValuesAssumption DEF streamLimit, dataLimit, Min
  <2>3. /\ addSettings(x).bidi = streamLimit(x.MaxIncomingStreams)
        /\ addSettings(x).uni = streamLimit(x.MaxIncomingUniStreams)
        /\ addSettings(x).data = dataLimit(x.MaxIncomingData)
    BY <2>1, <2>2 DEF addSettings
  <2> QED
    BY <2>1, <2>3, LimitRange DEF peerEnabled, localEnabled
<1>2. CASE localEnabled(c) /\ localEnabled(d)
  BY <1>1, <1>2 DEF LimitsAgree, sessionFlowControl
<1>3. CASE ~(localEnabled(c) /\ localEnabled(d))
  <2>1. /\ sessionFlowControl(c, addSettings(d)) = Disabled
        /\ sessionFlowControl(d, addSettings(c)) = Disabled
    BY <1>1, <1>3 DEF sessionFlowControl
  <2> QED
    BY <2>1 DEF LimitsAgree, Disabled
<1> QED
  BY <1>2, <1>3

-----------------------------------------------------------------------------
\* A non-empty set of natural numbers has a least element.
LEMMA Least ==
  ASSUME NEW S, S \subseteq Nat, S # {}
  PROVE  \E i \in S : \A j \in S : i <= j
<1> DEFINE R == {ss \in Nat \X Nat : ss[1] < ss[2]}
<1>1. IsWellFoundedOn(R, Nat)
  BY NatLessThanWellFounded, Zenon DEF OpToRel
<1> HIDE DEF R
<1>2. PICK i \in S : \A j \in S : <<j, i>> \notin R
  BY <1>1, WFMin, Zenon
<1>3. \A j \in S : ~(j < i)
  BY <1>2 DEF R
<1> QED
  BY <1>3

\* selectProtocol returns a protocol of the server, or none.
LEMMA SelectedProtocol ==
  ASSUME NEW S, NEW o \in Seq(S)
  PROVE  selectProtocol(o) \in ServerProtocols \cup {NoProtocol}
<1> DEFINE found == {i \in 1..Len(o) : o[i] \in ServerProtocols}
<1>1. CASE found = {}
  BY <1>1 DEF selectProtocol
<1>2. CASE found # {}
  <2>1. \E i \in found : \A j \in found : i <= j
    <3>1. found \subseteq Nat
      OBVIOUS
    <3> QED
      BY <3>1, <1>2, Least
  <2>2. (CHOOSE i \in found : \A j \in found : i <= j) \in found
    BY <2>1
  <2>3. selectProtocol(o) = o[CHOOSE i \in found : \A j \in found : i <= j]
    BY <1>2 DEF selectProtocol
  <2> QED
    BY <2>2, <2>3
<1> QED
  BY <1>1, <1>2

-----------------------------------------------------------------------------
USE DEF fixedVars, netVars, clientVars, serverVars, sessionVars, Set

\* Conn(r) is a connection.
LEMMA ConnType ==
  ASSUME TypeOK, NEW r \in Requests
  PROVE  Conn(r) \in Conns
  BY ConfigsAssumption DEF TypeOK, Conn

\* newSession stores parameters and a protocol of the right type.
LEMMA NewSessionTyped ==
  ASSUME TypeOK, NEW e \in Ends, NEW r \in Requests, NEW p \in ServerProtocols \cup {NoProtocol},
         NewSession(e, r, p)
  PROVE  /\ fc' \in [Ends -> [Requests -> Params]]
         /\ protocol' \in [Ends -> [Requests -> ServerProtocols \cup {NoProtocol}]]
         /\ sess' \in [Ends -> [Requests -> {"none", "open", "ended"}]]
<1>1. Peer(e) \in Ends
  BY DEF Ends, Peer
<1> DEFINE x == sessionFlowControl(config[e], addSettings(config[Peer(e)]))
<1>2. x \in Params
  BY <1>1 DEF TypeOK, Params
<1> HIDE DEF x
<1>3. fc' = [fc EXCEPT ![e][r] = x]
  BY DEF NewSession, x
<1> QED
  BY <1>2, <1>3 DEF NewSession, TypeOK

\* TypeOK holds in every reachable state of the two ends.
LEMMA Typed == Spec => []TypeOK
<1>1. Init => TypeOK
  <2> SUFFICES ASSUME Init PROVE TypeOK
    OBVIOUS
  <2>1. config \in [Ends -> Config]
    BY ConfigsAssumption DEF Init
  <2>2. /\ fc \in [Ends -> [Requests -> Params]]
        /\ protocol \in [Ends -> [Requests -> ServerProtocols \cup {NoProtocol}]]
        /\ sess \in [Ends -> [Requests -> {"none", "open", "ended"}]]
    BY DEF Init, Params
  <2> QED
    BY <2>1, <2>2 DEF Init, TypeOK
<1>2. TypeOK /\ [Next]_vars => TypeOK'
  <2> SUFFICES ASSUME TypeOK, [Next]_vars PROVE TypeOK'
    OBVIOUS
  <2> USE DEF TypeOK
  <2>1. ASSUME NEW r \in Requests, Dial(r) \/ DialProceeds(r) \/ DialGivesUp(r)
        PROVE  TypeOK'
    BY <2>1 DEF Dial, DialProceeds, DialGivesUp, Failed
  <2>2. ASSUME NEW r \in Requests, DialStep(r) PROVE TypeOK'
    <3>1. CASE SendRequest(r)
      <4>1. offer' \in [Requests -> Offers \cup {<<>>}]
        BY <3>1 DEF SendRequest
      <4> QED
        BY <3>1, <4>1 DEF SendRequest, Failed
    <3>2. CASE ResponseFails(r) \/ ResponseRefused(r) \/ ResponseWrongProtocol(r)
      BY <3>2 DEF ResponseFails, ResponseRefused, ResponseWrongProtocol, CloseSessionStream, Failed
    <3>3. CASE Established(r)
      <4>1. protocol["server"][r] \in ServerProtocols \cup {NoProtocol} /\ "client" \in Ends
        BY DEF Ends
      <4>2. /\ fc' \in [Ends -> [Requests -> Params]]
            /\ protocol' \in [Ends -> [Requests -> ServerProtocols \cup {NoProtocol}]]
            /\ sess' \in [Ends -> [Requests -> {"none", "open", "ended"}]]
        BY <3>3, <4>1, NewSessionTyped DEF Established
      <4> QED
        BY <3>3, <4>2 DEF Established
    <3>4. CASE CloseOwnConn(r)
      BY <3>4 DEF CloseOwnConn
    <3> QED
      BY <2>2, <3>1, <3>2, <3>3, <3>4 DEF DialStep
  <2>3. ASSUME NEW r \in Requests, Upgrade(r) \/ UpgradeRefused(r) \/ UpgradeProceeds(r) \/ UpgradeReturns(r)
        PROVE  TypeOK'
    <3>1. upgrade' \in [Requests -> {"none", "settings", "lock", "reject", "respond", "done"}]
      BY <2>3 DEF Upgrade, UpgradeRefused, UpgradeProceeds, UpgradeReturns
    <3>2. rsp' \in [Requests -> {"none", "error", "reset", "ok"}]
      BY <2>3 DEF Upgrade, UpgradeRefused, UpgradeProceeds, UpgradeReturns
    <3>3. UNCHANGED <<fixedVars, netVars, clientVars, serverVars, managed, given, sessionVars>>
      BY <2>3 DEF Upgrade, UpgradeRefused, UpgradeProceeds, UpgradeReturns
    <3> QED
      BY <3>1, <3>2, <3>3
  <2>4. ASSUME NEW r \in Requests, UpgradeLocked(r) PROVE TypeOK'
    <3>1. selectProtocol(offer[r]) \in ServerProtocols \cup {NoProtocol} /\ "server" \in Ends
      <4>1. CASE offer[r] \in Offers
        BY <4>1, ConfigsAssumption, SelectedProtocol DEF Ends
      <4>2. CASE offer[r] = <<>>
        <5>1. <<>> \in Seq({})
          OBVIOUS
        <5> QED
          BY <4>2, <5>1, SelectedProtocol DEF Ends
      <4> QED
        BY <4>1, <4>2
    <3>2. /\ fc' \in [Ends -> [Requests -> Params]]
          /\ protocol' \in [Ends -> [Requests -> ServerProtocols \cup {NoProtocol}]]
          /\ sess' \in [Ends -> [Requests -> {"none", "open", "ended"}]]
      BY <2>4, <3>1, NewSessionTyped DEF UpgradeLocked
    <3> QED
      BY <2>4, <3>2 DEF UpgradeLocked
  <2>5. ASSUME NEW r \in Requests, deleteSession(r) PROVE TypeOK'
    BY <2>5 DEF deleteSession
  <2>6. ASSUME NEW r \in Requests, NEW e \in Ends, SessionEnds(e, r) PROVE TypeOK'
    BY <2>6 DEF SessionEnds
  <2>7. ASSUME NEW c \in Conns, Accept(c) \/ ServeStep(c) PROVE TypeOK'
    <3>1. CASE Accept(c) \/ StartServing(c) \/ RefuseConn(c)
      BY <3>1 DEF Accept, StartServing, RefuseConn
    <3>2. CASE Register(c)
      <4>1. CASE closed
        BY <3>2, <4>1 DEF Register
      <4>2. CASE ~closed
        <5>1. conns' \subseteq Conns
          BY <3>2, <4>2 DEF Register
        <5>2. /\ cleanup' \in [Conns -> {"none", "armed", "close", "done"}]
              /\ serve' \in [Conns -> {"none", "accepted", "starting", "refusing", "registered",
                                       "serving", "served", "done"}]
          BY <3>2, <4>2 DEF Register
        <5> QED
          BY <3>2, <5>1, <5>2 DEF Register
      <4> QED
        BY <4>1, <4>2
    <3>3. CASE ServeConn(c)
      BY <3>3 DEF ServeConn
    <3>4. CASE ServeReturns(c)
      <4>1. alive' \subseteq Conns
        BY <3>4 DEF ServeReturns
      <4> QED
        BY <3>4, <4>1 DEF ServeReturns
    <3> QED
      BY <2>7, <3>1, <3>2, <3>3, <3>4 DEF ServeStep
  <2>8. ASSUME NEW c \in Conns, CleanUp(c) PROVE TypeOK'
    BY <2>8 DEF CleanUp
  <2>9. ASSUME NEW c \in Conns, ConnectionDies(c) \/ InvalidSessionID(c) PROVE TypeOK'
    BY <2>9 DEF ConnectionDies, InvalidSessionID
  <2>10. ASSUME NEW c \in Conns, NEW e \in Ends, ReceiveSettings(e, c) PROVE TypeOK'
    BY <2>10 DEF ReceiveSettings
  <2>11. CASE CloseConns \/ CloseCtx \/ CloseReturns \/ AcceptFails
    BY <2>11 DEF CloseConns, CloseCtx, CloseReturns, AcceptFails
  <2>12. CASE UNCHANGED vars
    BY <2>12 DEF vars
  <2> QED
    BY <2>1, <2>2, <2>3, <2>4, <2>5, <2>6, <2>7, <2>8, <2>9, <2>10, <2>11, <2>12 DEF Next, UpgradeStep
<1> QED
  BY <1>1, <1>2, PTL DEF Spec
-----------------------------------------------------------------------------
\* The inductive invariant has three parts.  The server: a connection that was
\* registered is in conns until it is closed, a session is in the session manager
\* of a connection in conns, or about to be removed, and a session that is open
\* is in the session manager for as long as Upgrade can find it.
ServerInv ==
  /\ closed <=> close # "idle"
  /\ closed => conns = {}
  /\ close = "done" => ~accepting /\ \A c \in Conns : serve[c] \in {"none", "done", "served"}
  /\ \A c \in Conns :
       /\ serve[c] \in {"none", "accepted", "starting", "refusing"} => cleanup[c] = "none" /\ c \notin conns
       /\ serve[c] \in {"registered", "serving", "served", "done"} => c \in conns \/ c \notin alive
       /\ cleanup[c] \in {"close", "done"} => c \notin conns
  /\ \A r \in managed : Conn(r) \in conns \/ cleanup[Conn(r)] = "close"
  /\ \A r \in Requests :
       /\ upgrade[r] # "none" => serve[Conn(r)] \in {"serving", "served"}
       /\ upgrade[r] \in {"none", "settings", "lock", "reject"} => sess["server"][r] = "none"
       /\ sess["server"][r] = "open" => r \in managed \/ Conn(r) \notin conns

\* What the ends hold was computed from the Configs, and the client took over the
\* protocol of an Upgrade that had been answered.
ParamsInv ==
  /\ \A e \in Ends, r \in Requests : sess[e][r] # "none" =>
       fc[e][r] = sessionFlowControl(config[e], addSettings(config[Peer(e)]))
  /\ \A r \in Requests :
       /\ rsp[r] = "ok" => upgrade[r] = "done"
       /\ sess["client"][r] # "none" =>
            /\ upgrade[r] = "done"
            /\ protocol["client"][r] = protocol["server"][r]
            /\ ProtocolAccepted(protocol["client"][r])

\* A dial that fails gave up its request, unless the server never saw it.
DialInv ==
  \A r \in Requests :
    /\ dial[r] \in {"idle", "handshake", "settings", "request"} => upgrade[r] = "none"
    /\ dial[r] \in {"failing", "failed"} => r \in given \/ Conn(r) \notin alive \/ upgrade[r] = "none"
    /\ dial[r] = "failed" /\ r \in layout.own => Conn(r) \notin alive

Inv == TypeOK /\ ServerInv /\ ParamsInv /\ DialInv /\ OneSessionWithoutFlowControl

-----------------------------------------------------------------------------
\* A step preserves what ParamsInv says of the parameters of the sessions.
LEMMA ParamsStep ==
  ASSUME TypeOK, ServerInv, ParamsInv, [Next]_vars
  PROVE  ParamsInv'
<1> USE DEF TypeOK, ParamsInv
<1>1. ASSUME NEW r \in Requests, Established(r) PROVE ParamsInv'
  <2>1. upgrade[r] = "done" /\ ProtocolAccepted(protocol["server"][r])
    BY <1>1 DEF Established
  <2>2. "client" \in Ends /\ "server" \in Ends
    BY DEF Ends
  <2> DEFINE x(e) == sessionFlowControl(config[e], addSettings(config[Peer(e)]))
  <2>3. fc' = [fc EXCEPT !["client"][r] = x("client")] /\ UNCHANGED <<config, upgrade, rsp>>
    BY <1>1 DEF Established, NewSession
  <2>4. /\ protocol' = [protocol EXCEPT !["client"][r] = protocol["server"][r]]
        /\ sess' = [sess EXCEPT !["client"][r] = "open"]
    BY <1>1 DEF Established, NewSession
  <2>5. \A e \in Ends, s \in Requests : sess[e][s] # "none" => fc[e][s] = x(e)
    OBVIOUS
  <2> HIDE DEF x
  <2>6. \A e \in Ends, s \in Requests : sess'[e][s] # "none" => fc'[e][s] = x(e)
    BY <2>2, <2>3, <2>4, <2>5
  <2>7. \A s \in Requests : sess'["client"][s] # "none" =>
          /\ upgrade[s] = "done" /\ protocol'["client"][s] = protocol'["server"][s]
          /\ ProtocolAccepted(protocol'["client"][s])
    BY <2>1, <2>2, <2>4
  <2> QED
    BY <2>3, <2>6, <2>7 DEF x, ProtocolAccepted
<1>2. ASSUME NEW r \in Requests, UpgradeLocked(r) PROVE ParamsInv'
  <2>1. CASE NewSession("server", r, selectProtocol(offer[r]))
    <3>1. "client" \in Ends /\ "server" \in Ends
      BY DEF Ends
    <3> DEFINE x(e) == sessionFlowControl(config[e], addSettings(config[Peer(e)]))
    <3>2. /\ fc' = [fc EXCEPT !["server"][r] = x("server")] /\ UNCHANGED config
          /\ sess' = [sess EXCEPT !["server"][r] = "open"]
      BY <1>2, <2>1 DEF UpgradeLocked, NewSession
    <3>3. \A s \in Requests \ {r} :
            /\ protocol'["server"][s] = protocol["server"][s]
            /\ upgrade'[s] = upgrade[s] /\ rsp'[s] = rsp[s]
      <4>1. \A s \in Requests \ {r} : protocol'["server"][s] = protocol["server"][s]
        BY <2>1, <3>1 DEF NewSession
      <4>2. \A s \in Requests \ {r} : upgrade'[s] = upgrade[s]
        BY <1>2 DEF UpgradeLocked
      <4>3. \A s \in Requests \ {r} : rsp'[s] = rsp[s]
        BY <1>2 DEF UpgradeLocked
      <4> QED
        BY <4>1, <4>2, <4>3
    <3>4. protocol'["client"] = protocol["client"] /\ sess'["client"] = sess["client"]
      BY <2>1, <3>1 DEF NewSession
    <3>5. rsp[r] # "ok" /\ sess["client"][r] = "none" /\ rsp'[r] # "ok"
      BY <1>2, <3>1 DEF UpgradeLocked
    <3>6. \A e \in Ends, s \in Requests : sess[e][s] # "none" => fc[e][s] = x(e)
      OBVIOUS
    <3> HIDE DEF x
    <3>7. \A e \in Ends, s \in Requests : sess'[e][s] # "none" => fc'[e][s] = x(e)
      BY <3>1, <3>2, <3>6
    <3>8. \A s \in Requests :
            /\ rsp'[s] = "ok" => upgrade'[s] = "done"
            /\ sess'["client"][s] # "none" =>
                 /\ upgrade'[s] = "done"
                 /\ protocol'["client"][s] = protocol'["server"][s]
                 /\ ProtocolAccepted(protocol'["client"][s])
      BY <3>3, <3>4, <3>5
    <3> QED
      BY <3>2, <3>7, <3>8 DEF x, ProtocolAccepted
  <2>2. CASE UNCHANGED sessionVars
    BY <1>2, <2>2 DEF UpgradeLocked, ProtocolAccepted
  <2> QED
    BY <1>2, <2>1, <2>2 DEF UpgradeLocked
<1>3. ASSUME NEW r \in Requests, Upgrade(r) \/ UpgradeRefused(r) \/ UpgradeProceeds(r) \/ UpgradeReturns(r)
      PROVE  ParamsInv'
  BY <1>3 DEF Upgrade, UpgradeRefused, UpgradeProceeds, UpgradeReturns, ProtocolAccepted
<1>4. ASSUME NEW r \in Requests, NEW e \in Ends, SessionEnds(e, r) PROVE ParamsInv'
  BY <1>4 DEF SessionEnds, ProtocolAccepted, Ends
<1>5. CASE UNCHANGED <<config, upgrade, rsp, fc, protocol, sess>>
  BY <1>5 DEF ProtocolAccepted
<1> HIDE DEF TypeOK, ParamsInv
<1>6. ASSUME NEW r \in Requests,
             Dial(r) \/ DialProceeds(r) \/ DialGivesUp(r) \/ SendRequest(r) \/ ResponseFails(r)
             \/ ResponseRefused(r) \/ ResponseWrongProtocol(r) \/ CloseOwnConn(r) \/ deleteSession(r)
      PROVE  ParamsInv'
  BY <1>5, <1>6 DEF Dial, DialProceeds, DialGivesUp, SendRequest, ResponseFails, ResponseRefused,
                    ResponseWrongProtocol, CloseOwnConn, deleteSession
<1>7. ASSUME NEW c \in Conns,
             Accept(c) \/ ServeStep(c) \/ CleanUp(c) \/ ConnectionDies(c) \/ InvalidSessionID(c)
             \/ \E e \in Ends : ReceiveSettings(e, c)
      PROVE  ParamsInv'
  BY <1>5, <1>7 DEF Accept, ServeStep, StartServing, Register, RefuseConn, ServeConn, ServeReturns,
                    CleanUp, ConnectionDies, InvalidSessionID, ReceiveSettings
<1>8. CASE CloseConns \/ CloseCtx \/ CloseReturns \/ AcceptFails \/ UNCHANGED vars
  BY <1>5, <1>8 DEF CloseConns, CloseCtx, CloseReturns, AcceptFails, vars
<1> QED
  BY <1>1, <1>2, <1>3, <1>4, <1>6, <1>7, <1>8 DEF Next, DialStep, UpgradeStep

\* A step preserves what ServerInv says of conns, cleanup and the session managers.
LEMMA ServerStep ==
  ASSUME TypeOK, ServerInv, [Next]_vars
  PROVE  ServerInv'
<1>0. \A r \in Requests : Conn(r) \in Conns
  BY ConnType
<1> USE DEF TypeOK, ServerInv
<1>1. ASSUME NEW r \in Requests, UpgradeLocked(r) PROVE ServerInv'
  <2>0. UNCHANGED <<layout, accepting, serve, conns, cleanup, close, closed, alive>> /\ upgrade[r] = "lock"
    BY <1>1 DEF UpgradeLocked
  <2>1. CASE ManagerFound(r) /\ MaySupport(r)
    <3>1. /\ sess' = [sess EXCEPT !["server"][r] = "open"] /\ managed' = managed \cup {r}
          /\ upgrade' = [upgrade EXCEPT ![r] = "respond"] /\ Conn(r) \in conns
      BY <1>1, <2>1 DEF UpgradeLocked, NewSession, ManagerFound
    <3> QED
      BY <1>0, <2>0, <3>1 DEF Conn, Ends
  <2>2. CASE UNCHANGED sessionVars /\ managed' = managed /\ upgrade'[r] \in {"done", "reject"}
    <3>1. \A s \in Requests \ {r} : upgrade'[s] = upgrade[s]
      BY <1>1 DEF UpgradeLocked
    <3> QED
      BY <1>0, <2>0, <2>2, <3>1 DEF Conn
  <2>3. CASE ~(ManagerFound(r) /\ MaySupport(r))
    <3>1. /\ UNCHANGED sessionVars /\ managed' = managed
          /\ upgrade' = [upgrade EXCEPT ![r] = "done"] \/ upgrade' = [upgrade EXCEPT ![r] = "reject"]
      BY <1>1, <2>3 DEF UpgradeLocked
    <3>2. upgrade'[r] \in {"done", "reject"}
      BY <3>1
    <3> HIDE DEF TypeOK, ServerInv
    <3> QED
      BY <2>2, <3>1, <3>2
  <2> QED
    BY <2>1, <2>3
<1>2. ASSUME NEW r \in Requests, Upgrade(r) \/ UpgradeRefused(r) \/ UpgradeProceeds(r) \/ UpgradeReturns(r)
      PROVE  ServerInv'
  <2>1. UNCHANGED <<layout, accepting, serve, conns, cleanup, close, closed, alive, managed, sess>>
    BY <1>2 DEF Upgrade, UpgradeRefused, UpgradeProceeds, UpgradeReturns
  <2>2. \/ /\ serve[Conn(r)] = "serving" /\ upgrade[r] = "none"
           /\ upgrade' = [upgrade EXCEPT ![r] = "settings"]
        \/ upgrade[r] = "settings" /\ upgrade' = [upgrade EXCEPT ![r] = "lock"]
        \/ upgrade[r] # "none" /\ upgrade' = [upgrade EXCEPT ![r] = "done"]
    BY <1>2 DEF Upgrade, UpgradeRefused, UpgradeProceeds, UpgradeReturns
  <2>3. \A s \in Requests :
          /\ upgrade'[s] # "none" => serve[Conn(s)] \in {"serving", "served"}
          /\ upgrade'[s] \in {"none", "settings", "lock", "reject"} => sess["server"][s] = "none"
    BY <2>2
  <2> QED
    BY <2>1, <2>3 DEF Conn
<1>3. ASSUME NEW r \in Requests, NEW e \in Ends, SessionEnds(e, r) PROVE ServerInv'
  <2>1. \A s \in Requests : /\ sess'["server"][s] = "none" <=> sess["server"][s] = "none"
                            /\ sess'["server"][s] = "open" => sess["server"][s] = "open"
    BY <1>3 DEF SessionEnds, Ends
  <2> QED
    BY <1>0, <1>3, <2>1 DEF SessionEnds, Conn
<1>4. ASSUME NEW r \in Requests, deleteSession(r) PROVE ServerInv'
  BY <1>0, <1>4 DEF deleteSession, Conn
<1>5. ASSUME NEW c \in Conns, Accept(c) \/ StartServing(c) \/ RefuseConn(c) PROVE ServerInv'
  <2>1. /\ UNCHANGED <<layout, accepting, conns, cleanup, close, closed, upgrade, managed, sess>>
        /\ alive' \subseteq alive
    BY <1>5 DEF Accept, StartServing, RefuseConn
  <2>2. CASE Accept(c)
    <3>1. serve[c] = "none" /\ serve' = [serve EXCEPT ![c] = "accepted"] /\ accepting
      BY <2>2 DEF Accept
    <3> QED
      BY <1>0, <2>1, <3>1 DEF Conn
  <2>3. CASE StartServing(c)
    <3>1. CASE closed
      <4>1. serve[c] = "accepted" /\ serve' = [serve EXCEPT ![c] = "done"] /\ c \notin alive'
        BY <2>3, <3>1 DEF StartServing
      <4> QED
        BY <1>0, <2>1, <4>1 DEF Conn
    <3>2. CASE ~closed
      <4>1. serve[c] = "accepted" /\ serve' = [serve EXCEPT ![c] = "starting"]
        BY <2>3, <3>2 DEF StartServing
      <4> QED
        BY <1>0, <2>1, <4>1 DEF Conn
    <3> QED
      BY <3>1, <3>2
  <2>4. CASE RefuseConn(c)
    <3>1. serve[c] = "refusing" /\ serve' = [serve EXCEPT ![c] = "done"] /\ c \notin alive'
      BY <2>4 DEF RefuseConn
    <3> QED
      BY <1>0, <2>1, <3>1 DEF Conn
  <2> QED
    BY <1>5, <2>2, <2>3, <2>4
<1>6. ASSUME NEW c \in Conns, Register(c) PROVE ServerInv'
  <2>1. CASE closed
    <3>1. /\ serve' = [serve EXCEPT ![c] = "refusing"] /\ serve[c] = "starting"
          /\ UNCHANGED <<layout, alive, accepting, conns, cleanup, close, closed, upgrade, managed, sess>>
      BY <1>6, <2>1 DEF Register
    <3> QED
      BY <1>0, <3>1 DEF Conn
  <2>2. CASE ~closed
    <3>1. /\ conns' = conns \cup {c} /\ cleanup' = [cleanup EXCEPT ![c] = "armed"]
          /\ serve' = [serve EXCEPT ![c] = "registered"] /\ serve[c] = "starting"
          /\ UNCHANGED <<layout, alive, accepting, close, closed, upgrade, managed, sess>>
      BY <1>6, <2>2 DEF Register
    <3>2. \A r \in Requests : Conn(r) = c => upgrade[r] = "none" /\ sess["server"][r] = "none"
      BY <3>1
    <3> QED
      BY <1>0, <2>2, <3>1, <3>2 DEF Conn
  <2> QED
    BY <2>1, <2>2
<1>7. ASSUME NEW c \in Conns, ServeConn(c) \/ ServeReturns(c) PROVE ServerInv'
  <2>1. CASE ServeConn(c)
    BY <1>0, <2>1 DEF ServeConn, Conn
  <2>2. CASE ServeReturns(c)
    BY <1>0, <2>2 DEF ServeReturns, Conn
  <2> QED
    BY <1>7, <2>1, <2>2
<1>8. ASSUME NEW c \in Conns, CleanUp(c) PROVE ServerInv'
  <2>1. UNCHANGED <<layout, alive, accepting, serve, close, closed, upgrade, sess>> /\ c \notin alive
    BY <1>8 DEF CleanUp
  <2>2. CASE cleanup[c] = "armed"
    <3>1. conns' = conns \ {c} /\ cleanup' = [cleanup EXCEPT ![c] = "close"] /\ managed' = managed
      BY <1>8, <2>2 DEF CleanUp
    <3> QED
      BY <1>0, <2>1, <2>2, <3>1 DEF Conn
  <2>3. CASE cleanup[c] = "close"
    <3>1. conns' = conns /\ cleanup' = [cleanup EXCEPT ![c] = "done"] /\ managed' = managed \ On(c)
      BY <1>8, <2>3 DEF CleanUp
    <3>2. \A r \in Requests : r \in On(c) <=> Conn(r) = c
      BY DEF On
    <3> QED
      BY <1>0, <2>1, <2>3, <3>1, <3>2 DEF Conn
  <2> QED
    BY <1>8, <2>2, <2>3 DEF CleanUp
<1>9. CASE CloseConns
  <2>1. /\ close = "idle" /\ close' = "cancel" /\ closed' = TRUE /\ conns' = {} /\ alive' = alive \ conns
        /\ UNCHANGED <<layout, accepting, serve, cleanup, upgrade, sess>>
    BY <1>9 DEF CloseConns
  <2>2. \A r \in managed' : r \in managed /\ Conn(r) \notin conns
    <3>1. managed' = managed \ UNION {On(c) : c \in conns} /\ managed \subseteq Requests
      BY <1>9 DEF CloseConns
    <3> HIDE DEF TypeOK, ServerInv
    <3>2. \A r \in managed : Conn(r) \in conns => r \in UNION {On(c) : c \in conns}
      BY <3>1 DEF On
    <3> QED
      BY <3>1, <3>2
  <2> QED
    BY <1>0, <2>1, <2>2 DEF Conn
<1>10. CASE CloseCtx \/ CloseReturns \/ AcceptFails
  <2>1. UNCHANGED <<layout, alive, serve, conns, cleanup, closed, upgrade, managed, sess>>
    BY <1>10 DEF CloseCtx, CloseReturns, AcceptFails
  <2>2. \/ close = "cancel" /\ close' = "wait" /\ accepting' = accepting
        \/ /\ close = "wait" /\ close' = "done" /\ ~accepting /\ accepting' = accepting
           /\ \A c \in Conns : serve[c] \in {"none", "done", "served"}
        \/ accepting' = FALSE /\ close' = close
    BY <1>10 DEF CloseCtx, CloseReturns, AcceptFails
  <2> QED
    BY <1>0, <2>1, <2>2 DEF Conn
<1>11. CASE /\ UNCHANGED <<layout, accepting, serve, conns, cleanup, close, closed, upgrade, managed>>
            /\ sess'["server"] = sess["server"] /\ alive' \subseteq alive
  <2>1. \A r \in Requests : Conn(r)' = Conn(r) /\ sess'["server"][r] = sess["server"][r]
    BY <1>11 DEF Conn
  <2>2. \A c \in Conns :
          serve'[c] \in {"registered", "serving", "served", "done"} => c \in conns' \/ c \notin alive'
    BY <1>11
  <2>a. managed \subseteq Requests
    OBVIOUS
  <2>b. UNCHANGED <<accepting, serve, conns, cleanup, close, closed, upgrade, managed>>
    BY <1>11
  <2> HIDE DEF TypeOK
  <2>3. \A r \in managed' : Conn(r)' \in conns' \/ cleanup'[Conn(r)'] = "close"
    BY <2>a, <2>b, <2>1
  <2>4. \A r \in Requests :
          /\ upgrade'[r] # "none" => serve'[Conn(r)'] \in {"serving", "served"}
          /\ upgrade'[r] \in {"none", "settings", "lock", "reject"} => sess'["server"][r] = "none"
          /\ sess'["server"][r] = "open" => r \in managed' \/ Conn(r)' \notin conns'
    BY <2>b, <2>1
  <2> QED
    BY <2>b, <2>2, <2>3, <2>4
<1> HIDE DEF ServerInv
<1>12. ASSUME NEW r \in Requests, Established(r) PROVE ServerInv'
  BY <1>11, <1>12 DEF Established, NewSession, Ends
<1> HIDE DEF TypeOK
<1>13. ASSUME NEW r \in Requests,
              Dial(r) \/ DialProceeds(r) \/ DialGivesUp(r) \/ SendRequest(r) \/ ResponseFails(r)
              \/ ResponseRefused(r) \/ ResponseWrongProtocol(r) \/ CloseOwnConn(r)
       PROVE  ServerInv'
  BY <1>11, <1>13 DEF Dial, DialProceeds, DialGivesUp, SendRequest, ResponseFails, ResponseRefused,
                      ResponseWrongProtocol, CloseOwnConn
<1>14. ASSUME NEW c \in Conns,
              ConnectionDies(c) \/ InvalidSessionID(c) \/ \E e \in Ends : ReceiveSettings(e, c)
       PROVE  ServerInv'
  BY <1>11, <1>14 DEF ConnectionDies, InvalidSessionID, ReceiveSettings
<1>15. CASE UNCHANGED vars
  BY <1>11, <1>15 DEF vars
<1> QED
  BY <1>1, <1>2, <1>3, <1>4, <1>5, <1>6, <1>7, <1>8, <1>9, <1>10, <1>12, <1>13, <1>14, <1>15
     DEF Next, DialStep, UpgradeStep, ServeStep

\* A step preserves that a connection without flow control has one open session:
\* Upgrade finds every session that is open in the session manager.
LEMMA OneSessionStep ==
  ASSUME TypeOK, ServerInv, ParamsInv, OneSessionWithoutFlowControl, [Next]_vars
  PROVE  OneSessionWithoutFlowControl'
<1>0. "server" \in Ends /\ "client" \in Ends
  BY DEF Ends
<1>1. CASE UNCHANGED <<layout, fc, sess>>
  BY <1>1 DEF OneSessionWithoutFlowControl, Conn
<1>2. ASSUME NEW r \in Requests, UpgradeLocked(r) PROVE OneSessionWithoutFlowControl'
  <2>1. CASE ManagerFound(r) /\ MaySupport(r)
    <3> DEFINE x == sessionFlowControl(config["server"], addSettings(config[Peer("server")]))
    <3>1. /\ fc' = [fc EXCEPT !["server"][r] = x] /\ sess' = [sess EXCEPT !["server"][r] = "open"]
          /\ layout' = layout /\ Conn(r) \in conns
      BY <1>2, <2>1 DEF UpgradeLocked, NewSession, ManagerFound
    <3>2. \A s \in Requests : sess["server"][s] = "open" => fc["server"][s] = x
      BY <1>0 DEF ParamsInv
    <3>3. x.Enabled \/ managed \cap On(Conn(r)) = {}
      BY <2>1 DEF MaySupport, Flow, Peer
    <3> HIDE DEF x
    <3>4. CASE x.Enabled
      <4>1. \A s \in Requests : sess'["server"][s] = "open" => fc'["server"][s] = x
        BY <1>0, <3>1, <3>2 DEF TypeOK
      <4> QED
        BY <3>4, <4>1 DEF OneSessionWithoutFlowControl
    <3>5. CASE managed \cap On(Conn(r)) = {}
      <4>1. \A s \in Requests : Conn(s) = Conn(r) => sess["server"][s] # "open"
        BY <3>1, <3>5 DEF ServerInv, On
      <4>2. \A s \in Requests \ {r} : /\ sess'["server"][s] = sess["server"][s]
                                      /\ fc'["server"][s] = fc["server"][s]
        BY <1>0, <3>1 DEF TypeOK
      <4> QED
        BY <3>1, <4>1, <4>2 DEF OneSessionWithoutFlowControl, Conn
    <3> QED
      BY <3>3, <3>4, <3>5
  <2>2. CASE ~(ManagerFound(r) /\ MaySupport(r))
    BY <1>1, <1>2, <2>2 DEF UpgradeLocked
  <2> QED
    BY <2>1, <2>2
<1>3. ASSUME NEW r \in Requests, Established(r) PROVE OneSessionWithoutFlowControl'
  <2>1. fc'["server"] = fc["server"] /\ sess'["server"] = sess["server"] /\ layout' = layout
    BY <1>0, <1>3 DEF Established, NewSession, TypeOK
  <2> QED
    BY <2>1 DEF OneSessionWithoutFlowControl, Conn
<1>4. ASSUME NEW r \in Requests, NEW e \in Ends, SessionEnds(e, r) PROVE OneSessionWithoutFlowControl'
  <2>1. \A s \in Requests : sess'["server"][s] = "open" => sess["server"][s] = "open"
    BY <1>0, <1>4 DEF SessionEnds, TypeOK
  <2>2. fc' = fc /\ layout' = layout
    BY <1>4 DEF SessionEnds
  <2> QED
    BY <2>1, <2>2 DEF OneSessionWithoutFlowControl, Conn
<1>5. ASSUME NEW r \in Requests,
             Dial(r) \/ DialProceeds(r) \/ DialGivesUp(r) \/ SendRequest(r) \/ ResponseFails(r)
             \/ ResponseRefused(r) \/ ResponseWrongProtocol(r) \/ CloseOwnConn(r) \/ deleteSession(r)
             \/ Upgrade(r) \/ UpgradeRefused(r) \/ UpgradeProceeds(r) \/ UpgradeReturns(r)
      PROVE  OneSessionWithoutFlowControl'
  BY <1>1, <1>5 DEF Dial, DialProceeds, DialGivesUp, SendRequest, ResponseFails, ResponseRefused,
                    ResponseWrongProtocol, CloseOwnConn, deleteSession, Upgrade, UpgradeRefused,
                    UpgradeProceeds, UpgradeReturns
<1>6. ASSUME NEW c \in Conns,
             Accept(c) \/ ServeStep(c) \/ CleanUp(c) \/ ConnectionDies(c) \/ InvalidSessionID(c)
             \/ \E e \in Ends : ReceiveSettings(e, c)
      PROVE  OneSessionWithoutFlowControl'
  BY <1>1, <1>6 DEF Accept, ServeStep, StartServing, Register, RefuseConn, ServeConn, ServeReturns,
                    CleanUp, ConnectionDies, InvalidSessionID, ReceiveSettings
<1>7. CASE CloseConns \/ CloseCtx \/ CloseReturns \/ AcceptFails \/ UNCHANGED vars
  BY <1>1, <1>7 DEF CloseConns, CloseCtx, CloseReturns, AcceptFails, vars
<1> QED
  BY <1>2, <1>3, <1>4, <1>5, <1>6, <1>7 DEF Next, DialStep, UpgradeStep

\* A step preserves what DialInv says of a dial that failed.
LEMMA DialInvStep ==
  ASSUME TypeOK, DialInv, [Next]_vars
  PROVE  DialInv'
<1> USE DEF TypeOK, DialInv
<1>1. ASSUME NEW r \in Requests, Dial(r) \/ DialProceeds(r) \/ DialGivesUp(r) PROVE DialInv'
  <2>1. UNCHANGED <<layout, alive, upgrade, given>>
    BY <1>1 DEF Dial, DialProceeds, DialGivesUp
  <2>2. dial[r] \in {"idle", "handshake", "settings"} /\ \A s \in Requests \ {r} : dial'[s] = dial[s]
    BY <1>1 DEF Dial, DialProceeds, DialGivesUp
  <2>3. dial'[r] \in {"handshake", "settings", "request"} \/ dial'[r] = Failed(r)
    BY <1>1 DEF Dial, DialProceeds, DialGivesUp
  <2> QED
    BY <2>1, <2>2, <2>3 DEF Failed, Conn
<1>2. ASSUME NEW r \in Requests, SendRequest(r) PROVE DialInv'
  <2>1. UNCHANGED <<layout, alive, upgrade>> /\ given \subseteq given'
    BY <1>2 DEF SendRequest
  <2>2. /\ dial[r] = "request" /\ \A s \in Requests \ {r} : dial'[s] = dial[s]
        /\ dial'[r] = "response" \/ (dial'[r] = Failed(r) /\ r \in given')
    BY <1>2 DEF SendRequest
  <2> QED
    BY <2>1, <2>2 DEF Failed, Conn
<1>3. ASSUME NEW r \in Requests, ResponseFails(r) \/ ResponseRefused(r) \/ ResponseWrongProtocol(r)
      PROVE  DialInv'
  <2>1. UNCHANGED <<layout, alive, upgrade>> /\ given' = given \cup {r} /\ dial' = [dial EXCEPT ![r] = Failed(r)]
    BY <1>3 DEF ResponseFails, ResponseRefused, ResponseWrongProtocol, CloseSessionStream
  <2> QED
    BY <2>1 DEF Failed, Conn
<1>4. ASSUME NEW r \in Requests, Established(r) PROVE DialInv'
  BY <1>4 DEF Established, Conn
<1>5. ASSUME NEW r \in Requests, CloseOwnConn(r) PROVE DialInv'
  BY <1>5 DEF CloseOwnConn, OwnSessionEnded, Conn
<1>6. ASSUME NEW r \in Requests, Upgrade(r) \/ UpgradeStep(r) PROVE DialInv'
  <2>1. UNCHANGED <<layout, alive, dial, given>> /\ \A s \in Requests \ {r} : upgrade'[s] = upgrade[s]
    BY <1>6 DEF Upgrade, UpgradeStep, UpgradeRefused, UpgradeProceeds, UpgradeLocked, UpgradeReturns
  <2>2. dial[r] = "response" \/ upgrade[r] # "none"
    BY <1>6 DEF Upgrade, UpgradeStep, UpgradeRefused, UpgradeProceeds, UpgradeLocked, UpgradeReturns
  <2> QED
    BY <2>1, <2>2 DEF Conn
<1>7. CASE UNCHANGED <<layout, dial, given, upgrade>> /\ alive' \subseteq alive
  BY <1>7 DEF Conn
<1> HIDE DEF TypeOK, DialInv
<1>8. ASSUME NEW r \in Requests, deleteSession(r) \/ \E e \in Ends : SessionEnds(e, r) PROVE DialInv'
  BY <1>7, <1>8 DEF deleteSession, SessionEnds
<1>9. ASSUME NEW c \in Conns,
             Accept(c) \/ ServeStep(c) \/ CleanUp(c) \/ ConnectionDies(c) \/ InvalidSessionID(c)
             \/ \E e \in Ends : ReceiveSettings(e, c)
      PROVE  DialInv'
  BY <1>7, <1>9 DEF Accept, ServeStep, StartServing, Register, RefuseConn, ServeConn, ServeReturns,
                    CleanUp, ConnectionDies, InvalidSessionID, ReceiveSettings
<1>10. CASE CloseConns \/ CloseCtx \/ CloseReturns \/ AcceptFails \/ UNCHANGED vars
  BY <1>7, <1>10 DEF CloseConns, CloseCtx, CloseReturns, AcceptFails, vars
<1> QED
  BY <1>1, <1>2, <1>3, <1>4, <1>5, <1>6, <1>8, <1>9, <1>10 DEF Next, DialStep

-----------------------------------------------------------------------------
\* Inv is an invariant of server.go, client_conn.go and transport.go.
THEOREM Invariance == Spec => []Inv
<1>1. Init => ServerInv /\ ParamsInv /\ DialInv /\ OneSessionWithoutFlowControl
  <2> SUFFICES ASSUME Init PROVE ServerInv /\ ParamsInv /\ DialInv /\ OneSessionWithoutFlowControl
    OBVIOUS
  <2>1. \A e \in Ends, r \in Requests : sess[e][r] = "none"
    BY DEF Init
  <2>2. "server" \in Ends /\ "client" \in Ends
    BY DEF Ends
  <2>3. ServerInv
    BY <2>1, <2>2 DEF Init, ServerInv
  <2>4. ParamsInv
    BY <2>1, <2>2 DEF Init, ParamsInv
  <2> QED
    BY <2>1, <2>2, <2>3, <2>4 DEF Init, DialInv, OneSessionWithoutFlowControl
<1>2. /\ TypeOK /\ ServerInv /\ ParamsInv /\ DialInv /\ OneSessionWithoutFlowControl /\ [Next]_vars
      => ServerInv' /\ ParamsInv' /\ DialInv' /\ OneSessionWithoutFlowControl'
  BY ServerStep, ParamsStep, DialInvStep, OneSessionStep
<1> QED
  BY <1>1, <1>2, Typed, PTL DEF Spec, Inv

\* Dial and Upgrade: two ends that both have a session agree on its flow control,
\* its limits and its protocol.
THEOREM Agreement == Spec => []SessionsAgree
<1>1. Inv => SessionsAgree
  <2> SUFFICES ASSUME Inv, NEW r \in Requests, \A e \in Ends : sess[e][r] # "none"
               PROVE  /\ \A e \in Ends : LimitsAgree(fc[e][r], fc[Peer(e)][r])
                      /\ protocol["client"][r] = protocol["server"][r]
                      /\ protocol["client"][r] \in {NoProtocol} \cup (ClientProtocols \cap ServerProtocols)
    BY DEF SessionsAgree
  <2>1. ASSUME NEW e \in Ends PROVE LimitsAgree(fc[e][r], fc[Peer(e)][r])
    <3>1. Peer(e) \in Ends /\ Peer(Peer(e)) = e
      BY DEF Ends, Peer
    <3>2. /\ fc[e][r] = sessionFlowControl(config[e], addSettings(config[Peer(e)]))
          /\ fc[Peer(e)][r] = sessionFlowControl(config[Peer(e)], addSettings(config[e]))
      BY <3>1 DEF Inv, ParamsInv
    <3>3. config[e] \in Config /\ config[Peer(e)] \in Config
      BY <3>1 DEF Inv, TypeOK
    <3> QED
      BY <3>2, <3>3, DecisionsAgree
  <2>2. "client" \in Ends /\ "server" \in Ends
    BY DEF Ends
  <2>3. /\ protocol["client"][r] = protocol["server"][r]
        /\ ProtocolAccepted(protocol["client"][r])
        /\ protocol["server"][r] \in ServerProtocols \cup {NoProtocol}
    BY <2>2 DEF Inv, ParamsInv, TypeOK
  <2> QED
    BY <2>1, <2>3 DEF ProtocolAccepted
<1> QED
  BY <1>1, Invariance, PTL

\* Upgrade: without flow control, a connection never has two open sessions.
THEOREM OneSession == Spec => []OneSessionWithoutFlowControl
  BY Invariance, PTL DEF Inv

\* Server.Close: when it returns, no accepted connection and no session is left.
THEOREM Closed == Spec => []ServerClosed
<1>1. Inv => ServerClosed
  <2> SUFFICES ASSUME Inv, close = "done"
               PROVE  /\ \A c \in Conns : serve[c] # "none" => c \notin alive
                      /\ conns = {} /\ \A r \in managed : cleanup[Conn(r)] = "close"
    BY DEF ServerClosed
  <2> QED
    BY DEF Inv, ServerInv
<1> QED
  BY <1>1, Invariance, PTL

\* dial: a dial that failed leaves no session and no connection behind.
THEOREM DialsCleanedUp == Spec => []DialCleansUp
<1>1. Inv => DialCleansUp
  BY DEF Inv, ServerInv, DialInv, DialCleansUp
<1> QED
  BY <1>1, Invariance, PTL
=============================================================================
