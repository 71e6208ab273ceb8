------------------------ MODULE FlowControlSettings ------------------------
(***************************************************************************)
(* config.go: how the two ends of a connection agree on flow control.      *)
(* Each end sends SETTINGS computed from its Config, and decides from its  *)
(* Config and the SETTINGS it received whether flow control is used in a   *)
(* session and which limits apply (newSession, session.go).  Establishment *)
(* uses these operators.                                                   *)
(***************************************************************************)
EXTENDS Integers

CONSTANTS
  Values,           \* values of the fields of a Config
  MaxStreamsLimit,  \* maxStreamsLimit (2^60)
  MaxVarint         \* quicvarint.Max (2^62-1)

ASSUME ValuesAssumption ==
  Values \subseteq Int /\ MaxStreamsLimit \in Nat \ {0} /\ MaxVarint \in Nat \ {0}

Ends == {"client", "server"}
Peer(e) == IF e = "client" THEN "server" ELSE "client"

Config == [MaxIncomingStreams : Values, MaxIncomingUniStreams : Values,
           MaxIncomingData : Values]

Min(a, b) == IF a <= b THEN a ELSE b

streamLimit(limit) == IF limit <= 0 THEN 0 ELSE Min(limit, MaxStreamsLimit)
dataLimit(limit) == Min(IF limit >= 0 THEN limit ELSE 0, MaxVarint)

\* addSettings: a setting that is not sent reads as zero.
addSettings(c) ==
  [bidi |-> IF c.MaxIncomingStreams # 0 THEN streamLimit(c.MaxIncomingStreams) ELSE 0,
   uni  |-> IF c.MaxIncomingUniStreams # 0 THEN streamLimit(c.MaxIncomingUniStreams) ELSE 0,
   data |-> IF c.MaxIncomingData # 0 THEN dataLimit(c.MaxIncomingData) ELSE 0]

ConfiguredAtAll(c) ==
  c.MaxIncomingStreams # 0 \/ c.MaxIncomingUniStreams # 0 \/ c.MaxIncomingData # 0
localEnabled(c) ==
  c.MaxIncomingStreams > 0 \/ c.MaxIncomingUniStreams > 0 \/ c.MaxIncomingData > 0
peerEnabled(remote) == remote.bidi > 0 \/ remote.uni > 0 \/ remote.data > 0

\* The limits of a session without flow control (newSession).
Disabled ==
  [Enabled |-> FALSE, MaxIncomingStreams |-> MaxStreamsLimit,
   MaxIncomingUniStreams |-> MaxStreamsLimit, MaxOutgoingStreams |-> MaxStreamsLimit,
   MaxOutgoingUniStreams |-> MaxStreamsLimit, MaxIncomingData |-> 0, MaxOutgoingData |-> 0]

sessionFlowControl(c, remote) ==
  IF ~localEnabled(c) \/ ~peerEnabled(remote) THEN Disabled
  ELSE [Enabled               |-> TRUE,
        MaxIncomingStreams    |-> streamLimit(c.MaxIncomingStreams),
        MaxIncomingUniStreams |-> streamLimit(c.MaxIncomingUniStreams),
        MaxOutgoingStreams    |-> remote.bidi,
        MaxOutgoingUniStreams |-> remote.uni,
        MaxIncomingData       |-> dataLimit(c.MaxIncomingData),
        MaxOutgoingData       |-> remote.data]

-----------------------------------------------------------------------------
\* What an end may open and send is what its peer is prepared to receive.
LimitsAgree(a, b) ==
  /\ a.Enabled = b.Enabled
  /\ a.MaxOutgoingStreams = b.MaxIncomingStreams
  /\ a.MaxOutgoingUniStreams = b.MaxIncomingUniStreams
  /\ a.MaxOutgoingData = b.MaxIncomingData
=============================================================================
