--------------------------- MODULE Establishment ---------------------------
(***************************************************************************)
(* server.go, client_conn.go and transport.go: sessions are established on *)
(* QUIC connections by ClientConn.Dial or Transport.Dial at the client and *)
(* by Upgrade at the server, while SETTINGS are exchanged, connections     *)
(* fail, sessions end, and the server is closed.                           *)
(*                                                                         *)
(* Every region under connsMx is one step.  QUIC and HTTP/3 are external:  *)
(* a connection may die at any time, a CONNECT request is answered with a  *)
(* status or reset, and both ends learn that a session has ended at the    *)
(* other (Session).  Of a session manager only the entries of sessions are *)
(* kept; SessionManager models the rest.                                   *)
(***************************************************************************)
EXTENDS FlowControlSettings, Sequences

CONSTANTS
  Conns, Requests,
  Layouts,          \* which connection a request is made on, and the requests
                    \* made by Transport.Dial, on a connection of their own
  Configs,          \* the values of Config
  ServerProtocols, ClientProtocols,  \* ApplicationProtocols of each end
  Offers            \* values of WT-Available-Protocols, which the application
                    \* at the client may set itself; <<>> if it is malformed

ASSUME ConfigsAssumption ==
  /\ Configs \subseteq Config /\ Offers \subseteq Seq(STRING)
  /\ \A l \in Layouts : l.conn \in [Requests -> Conns] /\ l.own \subseteq Requests

NoProtocol == ""

VARIABLES
  config,     \* the Config of each end
  layout,
  alive,      \* connections that are not closed
  settings,   \* per connection, the ends that received SETTINGS
  \* the client
  dial,       \* progress of dial
  offer,      \* WT-Available-Protocols of the request
  \* the server
  accepting,  \* the loop in serve has not ended
  serve,      \* progress of ServeQUICConn
  conns,      \* keys of the map conns
  cleanup,    \* progress of the AfterFunc that cleans up a connection
  close,      \* progress of Server.Close
  closed, ctxDone,  \* the field closed, and the server's ctx is cancelled
  upgrade,    \* progress of Upgrade
  managed,    \* sessions in the session managers of the server
  \* the CONNECT streams
  rsp,        \* what the client can read: nothing, a status, or a reset
  given,      \* requests that the client cancelled or closed
  fc,         \* per end, the parameters of its sessions
  protocol,   \* per end, the application protocols of its sessions
  sess        \* per end, the life of its sessions

vars == <<config, layout, alive, settings, dial, offer, accepting, serve, conns,
          cleanup, close, closed, ctxDone, upgrade, managed, rsp, given, fc, protocol, sess>>

fixedVars == <<config, layout>>
netVars == <<alive, settings>>
clientVars == <<dial, offer>>
serverVars == <<accepting, serve, conns, cleanup, close, closed, ctxDone>>
sessionVars == <<fc, protocol, sess>>

Conn(r) == layout.conn[r]
On(c) == {r \in Requests : Conn(r) = c}
Set(f, x, v) == [f EXCEPT ![x] = v]

Init ==
  /\ config \in [Ends -> Configs] /\ layout \in Layouts
  /\ alive = Conns /\ settings = [c \in Conns |-> {}]
  /\ dial = [r \in Requests |-> "idle"] /\ offer = [r \in Requests |-> <<>>]
  /\ accepting = TRUE /\ serve = [c \in Conns |-> "none"] /\ conns = {}
  /\ cleanup = [c \in Conns |-> "none"]
  /\ close = "idle" /\ closed = FALSE /\ ctxDone = FALSE
  /\ upgrade = [r \in Requests |-> "none"] /\ managed = {}
  /\ rsp = [r \in Requests |-> "none"] /\ given = {}
  /\ fc = [e \in Ends |-> [r \in Requests |-> Disabled]]
  /\ protocol = [e \in Ends |-> [r \in Requests |-> NoProtocol]]
  /\ sess = [e \in Ends |-> [r \in Requests |-> "none"]]

-----------------------------------------------------------------------------
\* QUIC and HTTP/3.
ConnectionDies(c) ==
  /\ c \in alive /\ alive' = alive \ {c}
  /\ UNCHANGED <<fixedVars, settings, clientVars, serverVars, upgrade, managed, rsp, given, sessionVars>>

\* The SETTINGS of its peer reach e.  The server reads them once it serves the
\* connection.
ReceiveSettings(e, c) ==
  /\ c \in alive /\ e \notin settings[c]
  /\ e = "server" => serve[c] = "serving"
  /\ settings' = Set(settings, c, settings[c] \cup {e})
  /\ UNCHANGED <<fixedVars, alive, clientVars, serverVars, upgrade, managed, rsp, given, sessionVars>>

\* A stream of the peer names an invalid session ID, at either end.
InvalidSessionID(c) ==
  /\ serve[c] = "serving" /\ c \in alive
  /\ alive' = alive \ {c}
  /\ UNCHANGED <<fixedVars, settings, clientVars, serverVars, upgrade, managed, rsp, given, sessionVars>>

-----------------------------------------------------------------------------
\* The client.  A dial that fails gives up its request; Transport.Dial then
\* closes the connection, which is its own.
Failed(r) == IF r \in layout.own THEN "failing" ELSE "failed"

\* A connection of Transport.Dial is used for one request.
Dial(r) ==
  /\ dial[r] = "idle" /\ On(Conn(r)) \cap layout.own \subseteq {r}
  /\ dial' = Set(dial, r, "handshake")
  /\ UNCHANGED <<fixedVars, netVars, offer, serverVars, upgrade, managed, rsp, given, sessionVars>>

\* One of the two selects goes on: the handshake is complete, and the server has
\* what WebTransport requires.
DialProceeds(r) ==
  /\ \/ dial[r] = "handshake" /\ dial' = Set(dial, r, "settings")
     \/ /\ dial[r] = "settings" /\ "client" \in settings[Conn(r)]
        /\ dial' = Set(dial, r, "request")
  /\ UNCHANGED <<fixedVars, netVars, offer, serverVars, upgrade, managed, rsp, given,
                 sessionVars>>

\* ... or ends: ctx, the connection or the Transport is done, or a requirement is
\* not met.
DialGivesUp(r) ==
  /\ dial[r] \in {"handshake", "settings"}
  /\ dial' = Set(dial, r, Failed(r))
  /\ UNCHANGED <<fixedVars, netVars, offer, serverVars, upgrade, managed, rsp, given,
                 sessionVars>>

\* OpenRequestStream and SendRequestHeader, with the header made above.
SendRequest(r) ==
  /\ dial[r] = "request"
  /\ \/ /\ Conn(r) \in alive /\ \E o \in Offers : offer' = Set(offer, r, o)
        /\ dial' = Set(dial, r, "response") /\ UNCHANGED given
     \/ dial' = Set(dial, r, Failed(r)) /\ given' = given \cup {r} /\ UNCHANGED offer
  /\ UNCHANGED <<fixedVars, netVars, serverVars, upgrade, managed, rsp,
                 sessionVars>>

\* ReadResponse fails: the request is cancelled.
ResponseFails(r) ==
  /\ dial[r] = "response" /\ (rsp[r] = "reset" \/ Conn(r) \notin alive)
  /\ given' = given \cup {r}
  /\ dial' = Set(dial, r, Failed(r))
  /\ UNCHANGED <<fixedVars, netVars, offer, serverVars, upgrade, managed, rsp,
                 sessionVars>>

ResponseRefused(r) ==
  /\ dial[r] = "response" /\ rsp[r] = "error"
  /\ given' = given \cup {r}
  /\ dial' = Set(dial, r, Failed(r))
  /\ UNCHANGED <<fixedVars, netVars, offer, serverVars, upgrade, managed, rsp,
                 sessionVars>>

\* negotiateProtocol, if the response has a WT-Protocol header.
ProtocolAccepted(p) == p = NoProtocol \/ p \in ClientProtocols

\* closeSessionStream, for a response with a protocol that was not offered.
AbandonSession(r) == UNCHANGED given
CloseSessionStream(r) == given' = given \cup {r}

ResponseWrongProtocol(r) ==
  /\ dial[r] = "response" /\ rsp[r] = "ok" /\ ~ProtocolAccepted(protocol["server"][r])
  /\ CloseSessionStream(r)
  /\ dial' = Set(dial, r, Failed(r))
  /\ UNCHANGED <<fixedVars, netVars, offer, serverVars, upgrade, managed, rsp,
                 sessionVars>>

\* newSession at end e.
NewSession(e, r, p) ==
  /\ fc' = [fc EXCEPT ![e][r] = sessionFlowControl(config[e], addSettings(config[Peer(e)]))]
  /\ protocol' = [protocol EXCEPT ![e][r] = p]
  /\ sess' = [sess EXCEPT ![e][r] = "open"]

Established(r) ==
  /\ dial[r] = "response" /\ rsp[r] = "ok" /\ ProtocolAccepted(protocol["server"][r])
  /\ NewSession("client", r, protocol["server"][r])
  /\ dial' = Set(dial, r, "established")
  /\ UNCHANGED <<fixedVars, netVars, offer, serverVars, upgrade, managed, rsp, given>>

SessionNotWatched(r) == FALSE
OwnSessionEnded(r) == dial[r] = "established" /\ r \in layout.own /\ sess["client"][r] = "ended"

\* Transport.Dial closes its connection: when dial failed, and when the session
\* ends (context.AfterFunc).
CloseOwnConn(r) ==
  /\ \/ dial[r] = "failing" /\ dial' = Set(dial, r, "failed")
     \/ OwnSessionEnded(r) /\ UNCHANGED dial
  /\ alive' = alive \ {Conn(r)}
  /\ UNCHANGED <<fixedVars, settings, offer, serverVars, upgrade, managed, rsp, given,
                 sessionVars>>

-----------------------------------------------------------------------------
\* A session ends: its application closes it (at the server not before Upgrade
\* returned it), the connection is gone, or the other end has ended it.
SessionEnds(e, r) ==
  /\ sess[e][r] = "open"
  /\ \/ e = "server" => upgrade[r] = "done"
     \/ Conn(r) \notin alive \/ r \in given \/ sess[Peer(e)][r] = "ended"
  /\ sess' = [sess EXCEPT ![e][r] = "ended"]
  /\ UNCHANGED <<fixedVars, netVars, clientVars, serverVars, upgrade, managed, rsp, given, fc,
                 protocol>>

\* deleteSession, called when the context of the session is done.
deleteSession(r) ==
  /\ r \in managed /\ sess["server"][r] = "ended"
  /\ managed' = managed \ {r}
  /\ UNCHANGED <<fixedVars, netVars, clientVars, serverVars, upgrade, rsp, given, sessionVars>>

-----------------------------------------------------------------------------
\* The server.  serve accepts a connection and looks at closed; ServeQUICConn
\* looks at it again when it registers the connection.
Accept(c) ==
  /\ accepting /\ serve[c] = "none"
  /\ \A d \in Conns : serve[d] # "accepted"
  /\ serve' = Set(serve, c, "accepted")
  /\ UNCHANGED <<fixedVars, netVars, clientVars, accepting, conns, cleanup, close, closed, ctxDone,
                 upgrade, managed, rsp, given, sessionVars>>

StartServing(c) ==
  /\ serve[c] = "accepted"
  /\ \/ closed /\ serve' = Set(serve, c, "done") /\ alive' = alive \ {c}
     \/ ~closed /\ serve' = Set(serve, c, "starting") /\ UNCHANGED alive
  /\ UNCHANGED <<fixedVars, settings, clientVars, accepting, conns, cleanup, close, closed, ctxDone,
                 upgrade, managed, rsp, given, sessionVars>>

Register(c) ==
  /\ serve[c] = "starting"
  /\ IF closed THEN serve' = Set(serve, c, "refusing") /\ UNCHANGED <<conns, cleanup>>
     ELSE /\ conns' = conns \cup {c} /\ cleanup' = Set(cleanup, c, "armed")
          /\ serve' = Set(serve, c, "registered")
  /\ UNCHANGED <<fixedVars, netVars, clientVars, accepting, close, closed, ctxDone, upgrade, managed,
                 rsp, given, sessionVars>>

RefuseConn(c) ==
  /\ serve[c] = "refusing" /\ serve' = Set(serve, c, "done")
  /\ alive' = alive \ {c}
  /\ UNCHANGED <<fixedVars, settings, clientVars, accepting, conns, cleanup, close, closed, ctxDone,
                 upgrade, managed, rsp, given, sessionVars>>

\* NewRawServerConn, which may fail, and the goroutines that accept streams.
ServeConn(c) ==
  /\ serve[c] = "registered" /\ \E s \in {"serving", "done"} : serve' = Set(serve, c, s)
  /\ UNCHANGED <<fixedVars, netVars, clientVars, accepting, conns, cleanup, close, closed, ctxDone,
                 upgrade, managed, rsp, given, sessionVars>>

\* AcceptStream and AcceptUniStream fail, and the handlers have returned.  When ctx
\* is done, a goroutine closes the connection.
Handling(c) == \E r \in On(c) : upgrade[r] \notin {"none", "done"}

ServeReturns(c) ==
  /\ serve[c] = "serving" /\ (ctxDone \/ c \notin alive) /\ ~Handling(c)
  /\ serve' = Set(serve, c, "served")
  /\ alive' = IF ctxDone THEN alive \ {c} ELSE alive
  /\ UNCHANGED <<fixedVars, settings, clientVars, accepting, conns, cleanup, close, closed, ctxDone,
                 upgrade, managed, rsp, given, sessionVars>>

\* The AfterFunc on the context of the connection.
CleanUp(c) ==
  /\ c \notin alive
  /\ \/ cleanup[c] = "armed" /\ conns' = conns \ {c} /\ cleanup' = Set(cleanup, c, "close") /\ UNCHANGED managed
     \/ /\ cleanup[c] = "close" /\ cleanup' = Set(cleanup, c, "done")
        /\ managed' = managed \ On(c) /\ UNCHANGED conns
  /\ UNCHANGED <<fixedVars, netVars, clientVars, accepting, serve, close, closed, ctxDone, upgrade, rsp,
                 given, sessionVars>>

\* Close: the region under connsMx, ctxCancel, and refCount.Wait.
CloseConns ==
  /\ close = "idle" /\ close' = "cancel" /\ closed' = TRUE
  /\ alive' = alive \ conns /\ conns' = {}
  /\ managed' = managed \ UNION {On(c) : c \in conns}
  /\ UNCHANGED <<fixedVars, settings, clientVars, accepting, serve, cleanup, ctxDone, upgrade, rsp, given,
                 sessionVars>>

CloseCtx ==
  /\ close = "cancel" /\ close' = "wait" /\ ctxDone' = TRUE
  /\ UNCHANGED <<fixedVars, netVars, clientVars, accepting, serve, conns, cleanup, closed, upgrade,
                 managed, rsp, given, sessionVars>>

CloseReturns ==
  /\ close = "wait" /\ ~accepting
  /\ \A c \in Conns : serve[c] \in {"none", "done", "served"}
  /\ close' = "done"
  /\ UNCHANGED <<fixedVars, netVars, clientVars, accepting, serve, conns, cleanup, closed, ctxDone,
                 upgrade, managed, rsp, given, sessionVars>>

\* Accept of the listener fails, and serve returns.
AcceptFails ==
  /\ accepting /\ ctxDone /\ \A c \in Conns : serve[c] # "accepted"
  /\ accepting' = FALSE
  /\ UNCHANGED <<fixedVars, netVars, clientVars, serve, conns, cleanup, close, closed, ctxDone, upgrade,
                 managed, rsp, given, sessionVars>>

-----------------------------------------------------------------------------
\* Upgrade, called by the application for a CONNECT request.
Upgrade(r) ==
  /\ upgrade[r] = "none" /\ dial[r] = "response"
  /\ serve[Conn(r)] = "serving" /\ Conn(r) \in alive
  /\ upgrade' = Set(upgrade, r, "settings")
  /\ UNCHANGED <<fixedVars, netVars, clientVars, serverVars, managed, rsp, given, sessionVars>>

\* The request is refused (method, protocol, origin), the SETTINGS do not arrive
\* in time or lack datagrams, or the connection is gone: Upgrade returns an error,
\* and the application answers the request.
UpgradeRefused(r) ==
  /\ upgrade[r] = "settings" /\ upgrade' = Set(upgrade, r, "done")
  /\ rsp' = Set(rsp, r, "error")
  /\ UNCHANGED <<fixedVars, netVars, clientVars, serverVars, managed, given, sessionVars>>

UpgradeProceeds(r) ==
  /\ upgrade[r] = "settings" /\ "server" \in settings[Conn(r)]
  /\ upgrade' = Set(upgrade, r, "lock")
  /\ UNCHANGED <<fixedVars, netVars, clientVars, serverVars, managed, rsp, given, sessionVars>>

\* The first protocol offered that the server supports.
selectProtocol(o) ==
  LET found == {i \in 1..Len(o) : o[i] \in ServerProtocols}
  IN  IF found = {} THEN NoProtocol
      ELSE o[CHOOSE i \in found : \A j \in found : i <= j]

\* Under connsMx.  Without flow control there can be one session.
Flow == sessionFlowControl(config["server"], addSettings(config["client"])).Enabled
ManagerKept(r) == TRUE
ManagerFound(r) == Conn(r) \in conns
AnyNumber(r) == TRUE
MaySupport(r) == Flow \/ managed \cap On(Conn(r)) = {}

UpgradeLocked(r) ==
  /\ upgrade[r] = "lock"
  /\ \/ /\ ~ManagerFound(r)
        /\ upgrade' = Set(upgrade, r, "done") /\ rsp' = Set(rsp, r, "error")
        /\ UNCHANGED <<managed, sessionVars>>
     \/ /\ ManagerFound(r) /\ ~MaySupport(r)
        /\ upgrade' = Set(upgrade, r, "reject") /\ UNCHANGED <<managed, rsp, sessionVars>>
     \/ /\ ManagerFound(r) /\ MaySupport(r)
        /\ NewSession("server", r, selectProtocol(offer[r]))
        /\ managed' = managed \cup {r}
        /\ upgrade' = Set(upgrade, r, "respond") /\ UNCHANGED rsp
  /\ UNCHANGED <<fixedVars, netVars, clientVars, serverVars, given>>

\* CancelRead and CancelWrite, or WriteHeader and Flush, which a session that
\* has ended in the meantime may have made impossible.
UpgradeReturns(r) ==
  /\ upgrade[r] \in {"reject", "respond"} /\ upgrade' = Set(upgrade, r, "done")
  /\ \/ upgrade[r] = "reject" /\ rsp' = Set(rsp, r, "reset")
     \/ upgrade[r] = "respond" /\ rsp' = Set(rsp, r, "ok")
     \/ upgrade[r] = "respond" /\ sess["server"][r] = "ended" /\ rsp' = Set(rsp, r, "reset")
  /\ UNCHANGED <<fixedVars, netVars, clientVars, serverVars, managed, given, sessionVars>>

-----------------------------------------------------------------------------
DialStep(r) ==
  \/ SendRequest(r) \/ ResponseFails(r) \/ ResponseRefused(r) \/ ResponseWrongProtocol(r)
  \/ Established(r) \/ CloseOwnConn(r)
UpgradeStep(r) == UpgradeRefused(r) \/ UpgradeProceeds(r) \/ UpgradeLocked(r) \/ UpgradeReturns(r)
ServeStep(c) == StartServing(c) \/ Register(c) \/ RefuseConn(c) \/ ServeConn(c) \/ ServeReturns(c)

Next ==
  \/ \E r \in Requests :
       \/ Dial(r) \/ DialProceeds(r) \/ DialGivesUp(r) \/ DialStep(r)
       \/ Upgrade(r) \/ UpgradeStep(r) \/ deleteSession(r)
       \/ \E e \in Ends : SessionEnds(e, r)
  \/ \E c \in Conns :
       \/ Accept(c) \/ ServeStep(c) \/ CleanUp(c)
       \/ ConnectionDies(c) \/ InvalidSessionID(c)
       \/ \E e \in Ends : ReceiveSettings(e, c)
  \/ CloseConns \/ CloseCtx \/ CloseReturns \/ AcceptFails

Spec == Init /\ [][Next]_vars

\* Goroutines run, and Upgrade's timer fires.  Nothing is assumed about the network
\* and the applications.
FairSpec ==
  /\ Spec
  /\ \A r \in Requests : WF_vars(DialStep(r)) /\ WF_vars(UpgradeStep(r))
  /\ \A c \in Conns : WF_vars(ServeStep(c))
  /\ WF_vars(CloseCtx \/ CloseReturns) /\ WF_vars(AcceptFails)

-----------------------------------------------------------------------------
\* What sessionFlowControl can return.
Params == {sessionFlowControl(c, addSettings(d)) : c \in Config, d \in Config} \cup {Disabled}

\* The types of the variables of server.go, client_conn.go and transport.go.
TypeOK ==
  /\ config \in [Ends -> Config] /\ layout \in Layouts
  /\ alive \subseteq Conns /\ settings \in [Conns -> SUBSET Ends]
  /\ dial \in [Requests -> {"idle", "handshake", "settings", "request", "response", "established",
                            "failing", "failed"}]
  /\ offer \in [Requests -> Offers \cup {<<>>}]
  /\ accepting \in BOOLEAN /\ closed \in BOOLEAN /\ ctxDone \in BOOLEAN
  /\ serve \in [Conns -> {"none", "accepted", "starting", "refusing", "registered", "serving",
                          "served", "done"}]
  /\ conns \subseteq Conns
  /\ cleanup \in [Conns -> {"none", "armed", "close", "done"}]
  /\ close \in {"idle", "cancel", "wait", "done"}
  /\ upgrade \in [Requests -> {"none", "settings", "lock", "reject", "respond", "done"}]
  /\ managed \subseteq Requests /\ given \subseteq Requests
  /\ rsp \in [Requests -> {"none", "error", "reset", "ok"}]
  /\ fc \in [Ends -> [Requests -> Params]]
  /\ protocol \in [Ends -> [Requests -> ServerProtocols \cup {NoProtocol}]]
  /\ sess \in [Ends -> [Requests -> {"none", "open", "ended"}]]

\* Two ends that both have a session agree on it, although each decides for
\* itself: they use flow control or neither does, what one may open and send is
\* what the other is prepared for, for any Configs; and they speak the same
\* application protocol, one that both applications listed, or none.
SessionsAgree ==
  \A r \in Requests : (\A e \in Ends : sess[e][r] # "none") =>
    /\ \A e \in Ends : LimitsAgree(fc[e][r], fc[Peer(e)][r])
    /\ protocol["client"][r] = protocol["server"][r]
    /\ protocol["client"][r] \in {NoProtocol} \cup (ClientProtocols \cap ServerProtocols)

\* "Multiple sessions on one HTTP/3 connection require WebTransport flow control"
\* (server.go:441): without it, no two sessions of a connection are open at the
\* server at a time, however Upgrade, the end of a session and deleteSession
\* are interleaved.
OneSessionWithoutFlowControl ==
  \A r, s \in Requests :
    /\ r # s /\ Conn(r) = Conn(s)
    /\ sess["server"][r] = "open" /\ sess["server"][s] = "open"
    => fc["server"][r].Enabled /\ fc["server"][s].Enabled

\* Server.Close leaves nothing behind: when it returns, every connection that was
\* accepted is closed, and no session is left in a session manager, also none of
\* an Upgrade that was under way, except that the cleanup of a connection may
\* be about to close its session manager.
ServerClosed ==
  close = "done" =>
    /\ \A c \in Conns : serve[c] # "none" => c \notin alive
    /\ conns = {} /\ \A r \in managed : cleanup[Conn(r)] = "close"

\* A dial that fails, at whatever point, leaves nothing behind: if the server has a
\* session, its CONNECT stream or the connection was closed, so that the session
\* ends, and Transport.Dial has closed the QUIC connection it made.
DialCleansUp ==
  \A r \in Requests : dial[r] = "failed" =>
    /\ sess["server"][r] = "open" => r \in given \/ Conn(r) \notin alive
    /\ r \in layout.own => Conn(r) \notin alive

\* Once called, Server.Close returns, whatever the connections and Upgrades are doing.
\* "The QUIC connection is closed when the returned session is closed"
\* (transport.go:56).
ConnectionsReleased ==
  /\ close # "idle" ~> close = "done"
  /\ \A c \in Conns : (\E r \in On(c) \cap layout.own : sess["client"][r] = "ended") ~> c \notin alive
=============================================================================
