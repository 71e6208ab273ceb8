----------------------------- MODULE MCSession -----------------------------
EXTENDS Session

\* Lengths of characters: a message that fits, one that is cut between two
\* characters, and one whose second character does not fit.
MCMessages == {<<2, 1>>, <<3, 1>>, <<1, 3>>}

Capsule(type, value, short, trailing) ==
  [type |-> type, value |-> value, short |-> short, trailing |-> trailing]

\* One capsule of every kind that the parser tells apart.
MCReceived ==
  {Capsule(t, 1, FALSE, FALSE) : t \in {"WT_CLOSE_SESSION", "WT_MAX_DATA", "WT_MAX_STREAMS",
     "WT_DATA_BLOCKED", "WT_STREAMS_BLOCKED", "WT_MAX_STREAM_DATA", "unknown"}}
  \cup {Capsule("WT_MAX_DATA", 1, TRUE, FALSE), Capsule("WT_DATA_BLOCKED", 1, FALSE, TRUE),
        Capsule("WT_MAX_STREAMS", MaxStreamsLimit + 1, FALSE, FALSE)}
=============================================================================
