-------------------------- MODULE MCEstablishment --------------------------
EXTENDS Establishment

\* Two requests of a ClientConn share a connection, or Transport.Dial makes one.
MCLayouts == [conn : {[r \in Requests |-> "c1"]}, own : {{}, {"r1"}}]

\* No flow control, flow control with clipped limits, and invalid values.
MCConfigs ==
  {[MaxIncomingStreams |-> 0, MaxIncomingUniStreams |-> 0, MaxIncomingData |-> -1],
   [MaxIncomingStreams |-> 2, MaxIncomingUniStreams |-> -1, MaxIncomingData |-> 1]}

\* What the client lists, and one that its application made up.
MCOffers == {<<"x", "a">>, <<"s">>}
MCValues == {-1, 0, 1, 2}
=============================================================================
