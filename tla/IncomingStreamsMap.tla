------------------------- MODULE IncomingStreamsMap -------------------------
(***************************************************************************)
(* streams_map_incoming.go: the streams that the peer opened in one        *)
(* WebTransport session, the limit advertised to the peer, and the queue   *)
(* from which the application accepts them.  The same generic type serves  *)
(* bidirectional and unidirectional streams.                               *)
(*                                                                         *)
(* addIncomingStream is only called under the mutex of the session         *)
(* manager, so one goroutine at a time adds streams.  Any number of        *)
(* goroutines of the application accept and remove streams.  The peer      *)
(* numbers its streams 1, 2, ...; they arrive in any order.                *)
(***************************************************************************)
EXTENDS Naturals, Sequences, FiniteSets

CONSTANTS
  Accepters,       \* goroutines that call AcceptStream
  MaxOpenStreams,  \* maxOpenStreams, after the min with maxStreamsLimit
  StreamsLimit,    \* maxStreamsLimit (2^60)
  Overrun,         \* how far the peer may exceed the limit it was given
  MaxOpened        \* bound: streams the peer opens in the session

ASSUME LimitsAssumption ==
  /\ MaxOpenStreams \in Nat /\ StreamsLimit \in Nat /\ Overrun \in Nat /\ MaxOpened \in Nat
  /\ MaxOpenStreams <= StreamsLimit

VARIABLES
  closed,            \* ctx was cancelled by CloseSession
  queue,             \* acceptQueue.queue
  token,             \* acceptQueue.c holds a value
  m,                 \* the keys of the map, {} once it is nil
  numStreams,
  maxStreams,
  queuedMaxStreams,
  addPC, addID,      \* the goroutine in addIncomingStream, and its stream
  updates,           \* limits that calls of RemoveStream have yet to queue
  advertised,        \* limits passed to queueMaxStreams, in order
  pc, ctxDone,       \* the calls of AcceptStream, and those whose ctx is done
  accepted,          \* streams returned to the application, still in use
  finished, gone,    \* streams closed by the application, with the session
  opened, inFlight,  \* the peer: streams opened, and not yet arrived
  delivered          \* how many of advertised have reached the peer

vars == <<closed, queue, token, m, numStreams, maxStreams, queuedMaxStreams, addPC,
          addID, updates, advertised, pc, ctxDone, accepted, finished, gone, opened,
          inFlight, delivered>>

limitVars == <<numStreams, maxStreams>>
updateVars == <<updates, queuedMaxStreams, advertised>>
acceptVars == <<queue, token, pc, ctxDone>>
addVars == <<addPC, addID>>
streamVars == <<accepted, finished, gone>>
peerVars == <<opened, inFlight, delivered>>

\* What a step of AcceptStream leaves alone, besides streams it returns.
notAccept == <<closed, m, limitVars, updateVars, addVars, finished, gone, peerVars>>

TypeOK ==
  /\ closed \in BOOLEAN /\ token \in BOOLEAN
  /\ queue \in Seq(Nat) /\ advertised \in Seq(Nat)
  /\ m \in SUBSET Nat /\ updates \subseteq Nat /\ inFlight \subseteq Nat
  /\ accepted \subseteq Nat /\ finished \subseteq Nat /\ gone \subseteq Nat
  /\ numStreams \in Nat
  /\ maxStreams \in 0..StreamsLimit /\ queuedMaxStreams \in 0..StreamsLimit
  /\ opened \in Nat /\ delivered \in 0..Len(advertised)
  /\ addPC \in {"idle", "append", "notify", "refused"} /\ addID \in Nat
  /\ pc \in [Accepters -> {"idle", "next", "select", "parked"}]
  /\ ctxDone \subseteq Accepters

Init ==
  /\ closed = FALSE /\ token = FALSE
  /\ queue = <<>> /\ advertised = <<>>
  /\ m = {} /\ updates = {} /\ inFlight = {}
  /\ accepted = {} /\ finished = {} /\ gone = {}
  /\ numStreams = 0 /\ maxStreams = MaxOpenStreams /\ queuedMaxStreams = MaxOpenStreams
  /\ opened = 0 /\ delivered = 0
  /\ addPC = "idle" /\ addID = 0
  /\ pc = [a \in Accepters |-> "idle"]
  /\ ctxDone = {}

-----------------------------------------------------------------------------
\* The limit the peer knows of.
PeerLimit == IF delivered = 0 THEN MaxOpenStreams ELSE advertised[delivered]

PeerOpens ==
  /\ opened < PeerLimit + Overrun /\ opened < MaxOpened
  /\ opened' = opened + 1 /\ inFlight' = inFlight \cup {opened + 1}
  /\ UNCHANGED <<closed, m, limitVars, updateVars, acceptVars, addVars, streamVars,
                 delivered>>

\* A WT_MAX_STREAMS capsule reaches the peer.
PeerReceives ==
  /\ delivered < Len(advertised) /\ delivered' = delivered + 1
  /\ UNCHANGED <<closed, m, limitVars, updateVars, acceptVars, addVars, streamVars,
                 opened, inFlight>>

-----------------------------------------------------------------------------
AtLimitOneEarly == numStreams + 1 >= maxStreams
AtLimit == numStreams >= maxStreams

\* AddStream up to the unlock, and what addIncomingStream does with an error.
AddToMap(id) ==
  /\ ~closed /\ ~AtLimit
  /\ numStreams' = numStreams + 1
  /\ m' = m \cup {id}
  /\ addPC' = "append" /\ addID' = id
  /\ UNCHANGED gone

AddAfterClose(id) ==
  /\ closed
  /\ gone' = gone \cup {id}
  /\ UNCHANGED <<numStreams, m, addPC, addID>>

AddOverLimit(id) ==
  /\ ~closed /\ AtLimit
  /\ gone' = gone \cup {id}
  /\ addPC' = "refused"
  /\ UNCHANGED <<numStreams, m, addID>>

AddStream(id) ==
  /\ addPC = "idle"
  /\ AddToMap(id) \/ AddAfterClose(id) \/ AddOverLimit(id)
  /\ inFlight' = inFlight \ {id}
  /\ UNCHANGED <<closed, maxStreams, updateVars, acceptVars, accepted, finished, opened,
                 delivered>>

\* acceptQueue.add: the stream is appended under the mutex of the queue ...
AddToQueue ==
  /\ addPC = "append" /\ addPC' = "notify"
  /\ queue' = Append(queue, addID) /\ addID' = 0
  /\ UNCHANGED <<closed, m, limitVars, updateVars, token, pc, ctxDone, streamVars,
                 peerVars>>

\* ... then a value is sent to the channel, unless its buffer is full.  A
\* goroutine parked in the select receives it directly.
NotifyNobody == UNCHANGED <<token, pc>>
Notify ==
  \/ \E a \in Accepters : /\ pc[a] = "parked"
                          /\ pc' = [pc EXCEPT ![a] = "next"]
                          /\ UNCHANGED token
  \/ (\A a \in Accepters : pc[a] # "parked") /\ token' = TRUE /\ UNCHANGED pc

NotifyConsumers ==
  /\ addPC = "notify" /\ addPC' = "idle"
  /\ Notify
  /\ UNCHANGED <<closed, m, limitVars, updateVars, queue, ctxDone, addID, streamVars,
                 peerVars>>

-----------------------------------------------------------------------------
\* AcceptStream.
Go(a, position) == pc' = [pc EXCEPT ![a] = position]
Return(a) == Go(a, "idle") /\ ctxDone' = ctxDone \ {a}

AcceptStream(a) ==
  /\ pc[a] = "idle" /\ ~closed
  /\ Go(a, "next")
  /\ UNCHANGED <<notAccept, queue, token, ctxDone, accepted>>

TryNext(a) ==
  /\ pc[a] = "next"
  /\ \/ /\ queue # <<>>
        /\ accepted' = accepted \cup {Head(queue)} /\ queue' = Tail(queue)
        /\ Return(a)
     \/ queue = <<>> /\ Go(a, "select") /\ UNCHANGED <<queue, accepted, ctxDone>>
  /\ UNCHANGED <<notAccept, token>>

\* The select: a context is done, or there is a value in the channel ...
CallDone(a) == closed \/ a \in ctxDone

SelectDone(a) ==
  /\ pc[a] \in {"select", "parked"} /\ CallDone(a)
  /\ Return(a)
  /\ UNCHANGED <<notAccept, queue, token, accepted>>

SelectNotified(a) ==
  /\ pc[a] = "select" /\ token
  /\ token' = FALSE /\ Go(a, "next")
  /\ UNCHANGED <<notAccept, queue, ctxDone, accepted>>

\* ... or the goroutine parks.
SelectParks(a) ==
  /\ pc[a] = "select" /\ ~token /\ ~CallDone(a)
  /\ Go(a, "parked")
  /\ UNCHANGED <<notAccept, queue, token, ctxDone, accepted>>

CtxDone(a) ==
  /\ pc[a] # "idle" /\ a \notin ctxDone
  /\ ctxDone' = ctxDone \cup {a}
  /\ UNCHANGED <<notAccept, queue, token, pc, accepted>>

-----------------------------------------------------------------------------
\* RemoveStream, called by a stream when it is closed.  The limit is raised
\* under mx, so that MaxOpenStreams streams can be open at a time ...
RaisedWithoutCap(open) == numStreams + MaxOpenStreams
RaisedOneTooFar(open) ==
  LET limit == numStreams + MaxOpenStreams + 1 - Cardinality(open)
  IN  IF limit <= StreamsLimit THEN limit ELSE StreamsLimit
Raised(open) ==
  LET limit == numStreams + MaxOpenStreams - Cardinality(open)
  IN  IF limit <= StreamsLimit THEN limit ELSE StreamsLimit

RemoveStream(id) ==
  /\ accepted' = accepted \ {id} /\ finished' = finished \cup {id}
  /\ m' = m \ {id}
  /\ IF /\ id \in m
        /\ Cardinality(m') < MaxOpenStreams /\ maxStreams < StreamsLimit
        /\ Raised(m') > maxStreams
     THEN maxStreams' = Raised(m') /\ updates' = updates \cup {Raised(m')}
     ELSE UNCHANGED <<maxStreams, updates>>
  /\ UNCHANGED <<closed, numStreams, queuedMaxStreams, advertised, acceptVars, addVars,
                 gone, peerVars>>

\* ... and WT_MAX_STREAMS is queued under maxStreamsMx, unless a higher limit
\* was queued in the meantime.
QueueInAnyOrder(limit) ==
  queuedMaxStreams' = limit /\ advertised' = Append(advertised, limit)
QueueNothing(limit) == UNCHANGED <<queuedMaxStreams, advertised>>
QueueIfHigher(limit) ==
  IF limit > queuedMaxStreams
  THEN queuedMaxStreams' = limit /\ advertised' = Append(advertised, limit)
  ELSE UNCHANGED <<queuedMaxStreams, advertised>>

QueueMaxStreams(limit) ==
  /\ updates' = updates \ {limit}
  /\ QueueIfHigher(limit)
  /\ UNCHANGED <<closed, m, limitVars, acceptVars, addVars, streamVars, peerVars>>

\* CloseSession: cancel the context, close the streams, drop the map.  It is
\* called by any goroutine that closes the session, among them the one whose
\* stream AddStream refused.
ForgetStreams == ~closed /\ closed' = TRUE /\ m' = {} /\ UNCHANGED gone
CloseMap == ~closed /\ closed' = TRUE /\ m' = {} /\ gone' = gone \cup m

CloseSession ==
  /\ \/ CloseMap /\ UNCHANGED addPC
     \/ /\ addPC = "refused" /\ addPC' = "idle"
        /\ CloseMap \/ (closed /\ UNCHANGED <<closed, m, gone>>)
  /\ UNCHANGED <<limitVars, updateVars, acceptVars, addID, accepted, finished, peerVars>>

AcceptStep(a) == TryNext(a) \/ SelectDone(a) \/ SelectNotified(a) \/ SelectParks(a)

Next ==
  \/ PeerOpens \/ PeerReceives
  \/ \E id \in inFlight : AddStream(id)
  \/ AddToQueue \/ NotifyConsumers
  \/ \E a \in Accepters : AcceptStream(a) \/ AcceptStep(a) \/ CtxDone(a)
  \/ \E id \in accepted : RemoveStream(id)
  \/ \E limit \in updates : QueueMaxStreams(limit)
  \/ CloseSession

Spec == Init /\ [][Next]_vars

\* Goroutines that can run do run; nothing is assumed about the peer.
Fairness ==
  /\ WF_vars(AddToQueue \/ NotifyConsumers)
  /\ \A a \in Accepters : WF_vars(AcceptStep(a))

FairSpec == Spec /\ Fairness

-----------------------------------------------------------------------------
\* While the session is open the limit always leaves room for MaxOpenStreams
\* open streams, up to maxStreamsLimit: RemoveStream loses no credit.
CreditExact ==
  LET credit == numStreams + MaxOpenStreams - Cardinality(m)
  IN  /\ Cardinality(m) <= MaxOpenStreams /\ numStreams <= maxStreams
      /\ ~closed => maxStreams = IF credit <= StreamsLimit THEN credit ELSE StreamsLimit

\* The map implements a credit window of MaxOpenStreams: AddStream takes no stream
\* beyond the limit, and RemoveStream raises the limit only for streams that
\* are gone, whatever the order in which streams arrive and finish.
Credit == INSTANCE CreditWindow WITH Window <- MaxOpenStreams, granted <- maxStreams,
                                     used <- numStreams, consumed <- numStreams - Cardinality(m)
CreditImplemented == Credit!Spec

\* "WT_MAX_STREAMS must not be queued out of order" (line 137): the peer's
\* UpdateStreamLimit fails on a limit that does not increase.  Once the calls of
\* RemoveStream have returned, the peer has been sent the current limit.
CreditAdvertised ==
  /\ \A i \in 1..Len(advertised) :
       advertised[i] > (IF i = 1 THEN MaxOpenStreams ELSE advertised[i - 1])
  /\ updates = {} => queuedMaxStreams = maxStreams

\* AddStream only fails when the peer opened more streams than the limit it
\* was sent: raising maxStreams before the capsule is queued is the safe order.
RefusedOnlyOverLimit ==
  [][addPC' = "refused" /\ addPC = "idle" =>
       opened > (IF advertised = <<>> THEN MaxOpenStreams ELSE advertised[Len(advertised)])]_vars

\* Every stream that arrived is closed with the session, unless the application
\* closed it first, also one that arrives during or after CloseSession.
StreamsClosedWithSession ==
  closed => \A id \in 1..opened : id \in gone \cup finished \cup inFlight

\* A call of AcceptStream does not go to sleep while a stream is queued: the
\* notification is "preserved ... if an item is enqueued between checking the
\* queue and waiting on this channel" (lines 14-15).
NotificationPreserved ==
  (\E a \in Accepters : pc[a] = "parked") /\ queue # <<>> =>
    \/ addPC = "notify"
    \/ \E a \in Accepters : pc[a] = "next"
    \/ closed

\* A stream waiting to be accepted is handed to a call of AcceptStream, if there
\* is one.
AcceptServed ==
  \A a \in Accepters : (queue # <<>> /\ pc[a] # "idle") ~> (queue = <<>> \/ pc[a] = "idle")
=============================================================================
