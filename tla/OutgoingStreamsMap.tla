------------------------- MODULE OutgoingStreamsMap -------------------------
(***************************************************************************)
(* streams_map_outgoing.go: the map of the streams that this endpoint      *)
(* opened in one WebTransport session, and the stream limit granted by the *)
(* peer.  The same generic type serves bidirectional and unidirectional    *)
(* streams.                                                                *)
(*                                                                         *)
(* Each member of Callers is a goroutine of the application that calls     *)
(* OpenStream and OpenStreamSync, one call at a time, any number of times. *)
(* A region of code that runs under the mutex mx is one action.  A call    *)
(* that returns without changing anything (the session is closed, the      *)
(* context is already done, other callers are queued) is a stuttering      *)
(* step.                                                                   *)
(***************************************************************************)
EXTENDS Naturals, Sequences, FiniteSets

CONSTANTS
  Callers,            \* goroutines that open streams
  InitialMaxStreams,  \* the peer's limit when the session starts
  Limits              \* values carried by the WT_MAX_STREAMS capsules received

ASSUME LimitsAssumption ==
  /\ InitialMaxStreams \in Nat
  /\ Limits \subseteq Nat

ASSUME CallersAssumption == IsFiniteSet(Callers)

VARIABLES
  closeErr,     \* CloseSession was called
  openQueue,    \* the waitChans, each named by the caller that created it
  numStreams,
  maxStreams,
  blockedSent,
  m,            \* the keys of the map, {} once it is nil
  streamCtxs,   \* callers whose cancel function is registered
  pc,           \* where each caller is
  wake,         \* state of the waitChan of each caller (capacity 1)
  arg,          \* the limit a caller is about to pass to queueBlocked
  str,          \* the QUIC stream a caller got from openStreamSync
  ctxDone,      \* callers whose own context is done
  cancelled,    \* callers whose derived context CloseSession cancelled
  nextID,       \* number of QUIC streams opened for this session
  finished,     \* streams closed by the application
  gone,         \* streams on which closeWithSession was called
  blocked       \* limits passed to queueBlocked, in order

vars == <<closeErr, openQueue, numStreams, maxStreams, blockedSent, m,
          streamCtxs, pc, wake, arg, str, ctxDone, cancelled, nextID,
          finished, gone, blocked>>

limitVars == <<numStreams, maxStreams, blockedSent>>
streamVars == <<m, nextID, finished, gone>>
ctxVars == <<streamCtxs, ctxDone, cancelled>>
localVars == <<wake, arg, str>>

\* Positions of a caller that is queued for a slot.
Waiting == {"blocked1", "relock1", "select", "ctxWoken", "chanWoken"}

\* Positions of a caller that owns a slot counted in numStreams for which no
\* QUIC stream exists yet.
Holding == {"blocked2", "relock2", "opening", "openFailed"}

Positions == {"idle", "limitErr", "opened"} \cup Waiting \cup Holding

TypeOK ==
  /\ closeErr \in BOOLEAN /\ blockedSent \in BOOLEAN
  /\ openQueue \in Seq(Callers)
  /\ numStreams \in Nat /\ maxStreams \in Nat /\ nextID \in Nat
  /\ m \subseteq Nat /\ finished \subseteq Nat /\ gone \subseteq Nat
  /\ streamCtxs \subseteq Callers
  /\ ctxDone \subseteq Callers
  /\ cancelled \subseteq Callers
  /\ pc \in [Callers -> Positions]
  /\ wake \in [Callers -> {"empty", "token", "closed"}]
  /\ arg \in [Callers -> Nat]
  /\ str \in [Callers -> Nat]
  /\ blocked \in Seq(Nat)

Init ==
  /\ closeErr = FALSE /\ blockedSent = FALSE
  /\ openQueue = <<>> /\ blocked = <<>>
  /\ numStreams = 0 /\ maxStreams = InitialMaxStreams /\ nextID = 0
  /\ m = {} /\ finished = {} /\ gone = {}
  /\ streamCtxs = {} /\ ctxDone = {} /\ cancelled = {}
  /\ pc = [c \in Callers |-> "idle"]
  /\ wake = [c \in Callers |-> "empty"]
  /\ arg = [c \in Callers |-> 0]
  /\ str = [c \in Callers |-> 0]

-----------------------------------------------------------------------------
\* slices.DeleteFunc on openQueue: a channel is queued at most once.
Without(q, c) ==
  IF \E i \in 1..Len(q) : q[i] = c
  THEN LET k == CHOOSE i \in 1..Len(q) : q[i] = c
       IN  [j \in 1..(Len(q) - 1) |-> IF j < k THEN q[j] ELSE q[j + 1]]
  ELSE q

Go(c, position) == pc' = [pc EXCEPT ![c] = position]

\* Non-blocking send to the channel of the first waiter, if there is a waiter
\* and the limit leaves room.  The arguments are the channels, openQueue,
\* numStreams and maxStreams as the calling code has just left them.
UnblockLastWaiter(w, q, n, limit) ==
  IF q # <<>> /\ n < limit THEN [w EXCEPT ![q[Len(q)]] = "token"] ELSE w
UnblockNobody(w, q, n, limit) == w
maybeUnblockOpenSync(w, q, n, limit) ==
  IF q # <<>> /\ n < limit THEN [w EXCEPT ![Head(q)] = "token"] ELSE w

\* Decide under mx to send WT_STREAMS_BLOCKED for the current limit.
MarkBlocked(c, position) ==
  /\ blockedSent' = TRUE
  /\ arg' = [arg EXCEPT ![c] = maxStreams]
  /\ Go(c, position)

\* A call returns: its contexts go out of scope.
Return(c) ==
  /\ Go(c, "idle")
  /\ ctxDone' = ctxDone \ {c} /\ cancelled' = cancelled \ {c}

\* OpenStream fails early once the session is closed, and leaves free slots to
\* the callers that are queued.
OpenStreamAllowed == ~closeErr /\ openQueue = <<>>

\* OpenStream: at the limit, the first caller to notice is about to queue a
\* WT_STREAMS_BLOCKED capsule; below it, a QUIC stream is opened under mx.
\* When conn.OpenStream fails the slot is returned under the same lock.
OpenStream(c) ==
  /\ pc[c] = "idle" /\ OpenStreamAllowed
  /\ \/ /\ numStreams >= maxStreams /\ ~blockedSent
        /\ MarkBlocked(c, "limitErr")
        /\ UNCHANGED <<numStreams, m, nextID>>
     \/ /\ numStreams < maxStreams
        /\ numStreams' = numStreams + 1
        /\ nextID' = nextID + 1
        /\ m' = m \cup {nextID + 1}
        /\ UNCHANGED <<blockedSent, arg, pc>>
  /\ UNCHANGED <<closeErr, openQueue, maxStreams, ctxVars, wake, str, finished,
                 gone, blocked>>

\* OpenStreamSync up to its first unlock, waitForStreamLimit included: take a
\* slot, or queue up (and be the one to send WT_STREAMS_BLOCKED).
OpenStreamSync(c) ==
  /\ pc[c] = "idle" /\ ~closeErr
  /\ \/ /\ openQueue = <<>> /\ numStreams < maxStreams
        /\ numStreams' = numStreams + 1
        /\ streamCtxs' = streamCtxs \cup {c}
        /\ Go(c, "opening")
        /\ UNCHANGED <<openQueue, blockedSent, arg>>
     \/ /\ openQueue # <<>> \/ numStreams >= maxStreams
        /\ openQueue' = Append(openQueue, c)
        /\ IF numStreams >= maxStreams /\ ~blockedSent
           THEN MarkBlocked(c, "blocked1")
           ELSE Go(c, "select") /\ UNCHANGED <<blockedSent, arg>>
        /\ UNCHANGED <<numStreams, streamCtxs>>
  /\ UNCHANGED <<closeErr, maxStreams, wake, str, ctxDone, cancelled, streamVars,
                 blocked>>

\* queueBlocked, called without mx (lines 168, 252 and 292).  It may close the
\* session; CloseSession can happen at this point like at any other.
QueueBlocked(c) ==
  /\ pc[c] \in {"limitErr", "blocked1", "blocked2"}
  /\ blocked' = Append(blocked, arg[c])
  /\ arg' = [arg EXCEPT ![c] = 0]
  /\ Go(c, CASE pc[c] = "limitErr" -> "idle"
             [] pc[c] = "blocked1" -> "relock1"
             [] pc[c] = "blocked2" -> "relock2")
  /\ UNCHANGED <<closeErr, openQueue, limitVars, ctxVars, wake, str, streamVars>>

\* mx is taken again before the select.
Relock1(c) ==
  /\ pc[c] = "relock1"
  /\ IF closeErr
     THEN Return(c) /\ wake' = [wake EXCEPT ![c] = "empty"]
     ELSE Go(c, "select") /\ UNCHANGED <<wake, ctxDone, cancelled>>
  /\ UNCHANGED <<closeErr, openQueue, limitVars, streamCtxs, arg, str, streamVars,
                 blocked>>

\* select: the context is done, or the waitChan holds a value or is closed.
SelectIgnoresCtx(c) == FALSE
SelectCtx(c) ==
  /\ pc[c] = "select" /\ c \in ctxDone
  /\ Go(c, "ctxWoken")
  /\ UNCHANGED <<closeErr, openQueue, limitVars, ctxVars, localVars, streamVars,
                 blocked>>

SelectChan(c) ==
  /\ pc[c] = "select" /\ wake[c] # "empty"
  /\ wake' = [wake EXCEPT ![c] = IF @ = "token" THEN "empty" ELSE @]
  /\ Go(c, "chanWoken")
  /\ UNCHANGED <<closeErr, openQueue, limitVars, ctxVars, arg, str, streamVars,
                 blocked>>

\* A waiter whose context is done leaves the queue and passes a wakeup it may
\* have got to the next waiter (lines 262-269 and 277-283).  Its channel is
\* garbage from here on.
LeaveQueueSilently(c) ==
  /\ openQueue' = Without(openQueue, c)
  /\ wake' = [wake EXCEPT ![c] = "empty"]
LeaveQueue(c) ==
  /\ openQueue' = Without(openQueue, c)
  /\ wake' = maybeUnblockOpenSync([wake EXCEPT ![c] = "empty"], openQueue', numStreams,
                                  maxStreams)

CtxWoken(c) ==
  /\ pc[c] = "ctxWoken"
  /\ LeaveQueue(c)
  /\ Return(c)
  /\ UNCHANGED <<closeErr, limitVars, streamCtxs, arg, str, streamVars, blocked>>

\* The woken waiter takes its slot and pops the front of the queue.  With a
\* further waiter queued at the limit, WT_STREAMS_BLOCKED is due; otherwise the
\* next waiter may be woken.
TakeSlot(c) ==
  LET rest == Tail(openQueue)
      atLimit == rest # <<>> /\ numStreams + 1 >= maxStreams
      w == [wake EXCEPT ![c] = "empty"]
  IN  /\ numStreams' = numStreams + 1
      /\ openQueue' = rest
      /\ wake' = IF atLimit THEN w
                 ELSE maybeUnblockOpenSync(w, rest, numStreams + 1, maxStreams)
      /\ IF atLimit /\ ~blockedSent
         THEN MarkBlocked(c, "blocked2") /\ UNCHANGED streamCtxs
         ELSE /\ streamCtxs' = streamCtxs \cup {c}
              /\ Go(c, "opening")
              /\ UNCHANGED <<blockedSent, arg>>

ChanWoken(c) ==
  /\ pc[c] = "chanWoken"
  /\ \/ /\ closeErr
        /\ Return(c)
        /\ wake' = [wake EXCEPT ![c] = "empty"]
        /\ UNCHANGED <<openQueue, numStreams, blockedSent, arg, streamCtxs>>
     \/ /\ ~closeErr /\ c \in ctxDone
        /\ LeaveQueue(c)
        /\ Return(c)
        /\ UNCHANGED <<numStreams, blockedSent, arg, streamCtxs>>
     \/ ~closeErr /\ c \notin ctxDone /\ TakeSlot(c) /\ UNCHANGED <<ctxDone, cancelled>>
  /\ UNCHANGED <<closeErr, maxStreams, str, streamVars, blocked>>

\* mx is taken again after the second queueBlocked; the call goes on to
\* register its cancel function.
Relock2(c) ==
  /\ pc[c] = "relock2"
  /\ IF closeErr
     THEN Return(c) /\ UNCHANGED streamCtxs
     ELSE /\ streamCtxs' = streamCtxs \cup {c}
          /\ Go(c, "opening")
          /\ UNCHANGED <<ctxDone, cancelled>>
  /\ UNCHANGED <<closeErr, openQueue, limitVars, localVars, streamVars, blocked>>

\* conn.OpenStreamSync(ctx) (quic-go) returns a stream or an error.
QUICOpens(c) ==
  /\ pc[c] = "opening"
  /\ \/ /\ nextID' = nextID + 1
        /\ str' = [str EXCEPT ![c] = nextID + 1]
        /\ Go(c, "opened")
     \/ Go(c, "openFailed") /\ UNCHANGED <<nextID, str>>
  /\ UNCHANGED <<closeErr, openQueue, limitVars, m, ctxVars, wake, arg, finished,
                 gone, blocked>>

\* The stream is entered into the map, or closed with the session if
\* CloseSession ran in the meantime.
RegisterWithoutCheck(c) == m' = m \cup {str[c]} /\ UNCHANGED gone
Register(c) ==
  IF closeErr THEN gone' = gone \cup {str[c]} /\ UNCHANGED m
              ELSE m' = m \cup {str[c]} /\ UNCHANGED gone

Opened(c) ==
  /\ pc[c] = "opened"
  /\ streamCtxs' = streamCtxs \ {c}
  /\ Register(c)
  /\ str' = [str EXCEPT ![c] = 0]
  /\ Return(c)
  /\ UNCHANGED <<closeErr, openQueue, limitVars, wake, arg, nextID, finished,
                 blocked>>

\* openStreamSync failed: return the slot and wake the next waiter.
KeepSlot(n) == n
ReturnSlot(n) == n - 1

OpenFailed(c) ==
  /\ pc[c] = "openFailed"
  /\ streamCtxs' = streamCtxs \ {c}
  /\ IF closeErr
     THEN UNCHANGED <<numStreams, wake>>
     ELSE /\ numStreams' = ReturnSlot(numStreams)
          /\ wake' = maybeUnblockOpenSync(wake, openQueue, numStreams', maxStreams)
  /\ Return(c)
  /\ UNCHANGED <<closeErr, openQueue, maxStreams, blockedSent, arg, str, streamVars,
                 blocked>>

\* removeStream, called by the stream when both its sides are closed.
removeStream(id) ==
  /\ m' = m \ {id}
  /\ finished' = finished \cup {id}
  /\ UNCHANGED <<closeErr, openQueue, limitVars, ctxVars, pc, localVars, nextID,
                 gone, blocked>>

\* A WT_MAX_STREAMS capsule.  One that does not increase the limit is an error
\* that leaves the map alone (the session then closes itself).
SetLimitOnly(limit) == maxStreams' = limit /\ UNCHANGED blockedSent
SetLimit(limit) == maxStreams' = limit /\ blockedSent' = FALSE

UpdateStreamLimit(limit) ==
  /\ ~closeErr /\ limit > maxStreams
  /\ SetLimit(limit)
  /\ wake' = maybeUnblockOpenSync(wake, openQueue, numStreams, limit)
  /\ UNCHANGED <<closeErr, openQueue, numStreams, ctxVars, pc, arg, str, streamVars,
                 blocked>>

\* CloseSession closes every waitChan, cancels every registered context and
\* closes every stream of the map.
CloseNoChans == UNCHANGED wake
CloseWaitChans ==
  wake' = [c \in Callers |-> IF \E i \in 1..Len(openQueue) : openQueue[i] = c
                             THEN "closed" ELSE wake[c]]

CloseSession ==
  /\ ~closeErr
  /\ closeErr' = TRUE
  /\ cancelled' = cancelled \cup streamCtxs
  /\ CloseWaitChans
  /\ openQueue' = <<>>
  /\ gone' = gone \cup m
  /\ m' = {}
  /\ UNCHANGED <<limitVars, streamCtxs, pc, arg, str, ctxDone, nextID, finished,
                 blocked>>

\* The application's context is cancelled or times out during a call.
CtxDone(c) ==
  /\ pc[c] \notin {"idle", "limitErr"} /\ c \notin ctxDone
  /\ ctxDone' = ctxDone \cup {c}
  /\ UNCHANGED <<closeErr, openQueue, limitVars, streamCtxs, pc, localVars,
                 cancelled, streamVars, blocked>>

CallStep(c) ==
  \/ QueueBlocked(c) \/ Relock1(c) \/ SelectCtx(c) \/ SelectChan(c) \/ CtxWoken(c)
  \/ ChanWoken(c) \/ Relock2(c) \/ Opened(c) \/ OpenFailed(c)

Next ==
  \/ \E c \in Callers : \/ OpenStream(c) \/ OpenStreamSync(c) \/ CallStep(c)
                        \/ QUICOpens(c) \/ CtxDone(c)
  \/ \E id \in m : removeStream(id)
  \/ \E limit \in Limits : UpdateStreamLimit(limit)
  \/ CloseSession

Spec == Init /\ [][Next]_vars

\* Goroutines that can run do run, mx is fair, and conn.OpenStreamSync returns
\* once its context is done.  Nothing is assumed about the peer.
Fairness ==
  \A c \in Callers :
    /\ WF_vars(CallStep(c))
    /\ WF_vars(c \in ctxDone \cup cancelled /\ QUICOpens(c))

FairSpec == Spec /\ Fairness

-----------------------------------------------------------------------------
\* The streams this endpoint opened or is about to open stay within the limit
\* the peer advertised, although a woken waiter takes its slot (line 285)
\* without comparing numStreams with maxStreams again.
\* While the session is open, every slot counted in numStreams is a stream or
\* belongs to a call in progress: the error paths return their slot.
SlotsExact ==
  LET used == nextID + Cardinality({c \in Callers : pc[c] \in Holding})
  IN  numStreams <= maxStreams /\ used <= numStreams /\ (~closeErr => used = numStreams)

\* While the session is open, openQueue holds exactly the calls that wait, each
\* once: popping openQueue[0] (line 286) never drops the channel of another call.
QueueHoldsWaiters ==
  ~closeErr =>
    /\ \A i, j \in 1..Len(openQueue) : openQueue[i] = openQueue[j] => i = j
    /\ \A c \in Callers :
         pc[c] \in Waiting <=> \E i \in 1..Len(openQueue) : openQueue[i] = c

\* No lost wakeup: if the limit leaves room while calls wait, the first of them
\* has been woken, or has given up and is about to wake the next.
NoLostWakeup ==
  ~closeErr /\ openQueue # <<>> /\ numStreams < maxStreams =>
    \/ wake[Head(openQueue)] = "token"
    \/ pc[Head(openQueue)] \in {"chanWoken", "ctxWoken"}

\* WT_STREAMS_BLOCKED is queued at most once for each limit, by whichever call
\* hits it, also when the limit grows while queueBlocked runs without mx; and
\* when calls wait at the limit, the peer has been told or is being told so.
PeerToldOnce ==
  /\ \A i, j \in 1..Len(blocked) : blocked[i] = blocked[j] => i = j
  /\ ~closeErr /\ openQueue # <<>> /\ numStreams >= maxStreams =>
       \/ \E i \in 1..Len(blocked) : blocked[i] = maxStreams
       \/ \E c \in Callers : /\ pc[c] \in {"limitErr", "blocked1", "blocked2"}
                             /\ arg[c] = maxStreams

\* Every stream opened in the session is closed with it unless the application
\* closed it first; one returned by conn.OpenStreamSync around CloseSession is
\* closed by its own call, and never entered into the map that is now nil.
StreamsClosedWithSession ==
  closeErr =>
    /\ m = {}
    /\ \A id \in 1..nextID : \/ id \in gone \cup finished
                             \/ \E c \in Callers : pc[c] = "opened" /\ str[c] = id

\* Every call returns after CloseSession, wherever it was blocked, and
\* OpenStreamSync returns once its context is done.
CallsReleased ==
  \A c \in Callers : (closeErr \/ c \in ctxDone) ~> pc[c] = "idle"

\* A free slot is taken by the first waiter, unless it gives up.
FirstWaiterServed ==
  \A c \in Callers :
    (~closeErr /\ openQueue # <<>> /\ numStreams < maxStreams /\ Head(openQueue) = c)
      ~> pc[c] \notin Waiting
=============================================================================
