# Verification of webtransport-go

TLA+ models of webtransport-go, the TLC configurations that check them, and
TLAPS proofs.  Line numbers refer to the Go files in `src/`.

## The system

An endpoint (`server.go`, `client_conn.go`, `transport.go`) serves QUIC
connections.  On each connection a **session manager** (`session_manager.go`)
hands incoming streams to WebTransport **sessions** (`session.go`) and buffers
those that arrive before their session.  A session owns the CONNECT stream
with two goroutines: one reads capsules, one writes the queue of outgoing
capsules.  It has two **incoming streams maps** (`streams_map_incoming.go`) and
two **outgoing streams maps** (`streams_map_outgoing.go`), for bidirectional and
unidirectional streams, and one pair of **data flow controllers**
(`flow_control.go`).  Whether flow control is used is decided by each end from
its `Config` and the peer's SETTINGS (`config.go`).  **Streams**
(`send_stream.go`, `receive_stream.go`, `stream.go`) wrap QUIC streams; they
report to the maps when they are closed and ask the controllers for credit.
`capsule.go`, `errors.go` and `protocol.go` hold codecs and constants.

Interactions that matter: streams and maps queue capsules in the session; a full
queue, a flow control error, a failed read or write and the application all
close the session; closing it closes the maps, which close the streams and
release blocked calls; the manager forgets a session whose context is done;
a dial or an Upgrade that fails must leave no session behind at either end.

## Modules

A region of code under a mutex is one action, a goroutine blocked in a `select`
is a position of its `pc`, a channel of capacity one is a flag.

| Module | Code | State and actions |
|---|---|---|
| `OutgoingStreamsMap` | `streams_map_outgoing.go` | `openQueue`, `numStreams`, `maxStreams`, `blockedSent`, `m` as in the struct; each caller has a `pc` whose positions are the points where `mx` is not held. Actions: `OpenStream`, `OpenStreamSync` and the steps of `waitForStreamLimit`, `removeStream`, `UpdateStreamLimit`, `CloseSession`. quic-go's `OpenStreamSync` and the application's contexts are external. |
| `IncomingStreamsMap` | `streams_map_incoming.go`, `addIncomingStream` | the map, the accept queue with its channel, the limit and the limit queued last. `AddStream`, the two halves of `acceptQueue.add`, the steps of `AcceptStream`, the two regions of `RemoveStream`, `CloseSession`. The peer opens streams and receives limits. A second `RemoveStream` of a stream finds no entry and is a stuttering step. |
| `DataFlowControl` | `flow_control.go`, `writeData` and `waitForUpdate` of `send_stream.go` | the outgoing controller with its writers at one end, the incoming controller at the other, WT_MAX_DATA capsules between them. The decision of `IsNewlyBlocked` and the queueing of `WT_DATA_BLOCKED` are two steps of a writer, since the controller is unlocked in between. |
| `CreditWindow` | | what `IncomingStreamsMap` and `DataFlowControl` promise: an abstract receiver that grants credit as units are consumed, owes at most a window, and takes nothing back. Both modules instantiate it (`CreditImplemented`). |
| `Session` | `session.go` | capsule queue, pending close with its message, `closeErr`, `closeMx`, the CONNECT stream, and what the peer did to it (`peerEnded`: ended or stopped it; `peerCloses`: sent a capsule that closes the session). A `CloseWithError` that waits for `closeMx` has a position of its own (`"lock"`). Steps of `queueCapsule`, `closeWithError`, `writeToConnectStream`, `readFromConnectStream`, `CloseWithError`. The reader gets every kind of capsule; those that it applies are `UpdateStreamLimit` and `UpdateMaxData` of the other modules, which may refuse the value and close the session. |
| `Capsules` | `capsule.go` | operators that `Session` uses: which capsules `parseNextCapsule` returns, skips and rejects, and what is left of the close message. A message is a sequence of the lengths of its characters; a cut is a number of bytes. |
| `SessionManager` | `session_manager.go` | entries, timers, the list of recently closed sessions. Every method is an action; a timer that fires and a context that is done start goroutines that run later. |
| `SendStream` | `send_stream.go` | the header left to send, `streamHdrMu`, `writeErr`, both deadlines and `deadlineNotifyCh`, what is on the wire and how much of it is reliable. Steps of `Write` (header, data, the waits for credit and for the session to close), `Close`, `CancelWrite` and the goroutine they start, `SetWriteDeadline`, `closeWithSession`. The QUIC stream, the peer's STOP_SENDING and the credit of `DataFlowControl` are external. |
| `ReceiveStream` | `receive_stream.go`, `registerClose` of `stream.go` | bytes received, read and credited, both deadlines, the final size. Steps of `Read`, the callback for the final size, `CancelRead`, `SetReadDeadline`, `closeWithSession`, and the end of the send side of a bidirectional stream, which joins the receive side in `registerClose`. The QUIC stream is external. |
| `ErrorCodes` | `errors.go` | operators: the mapping of application codes around the reserved HTTP/3 codes, and back. `ReceiveStream` uses it for the codes of resets. |
| `FlowControlSettings` | `config.go`, `newSession` | operators: the SETTINGS sent, the decision each end takes, the limits of the session. |
| `Establishment` | `server.go`, `client_conn.go`, `transport.go` | the server's connection table and `closed`, the steps of serving a connection, of `Upgrade` and of `Close`; `dial` with every way it can fail, `Transport.Dial` with the connection it owns; the SETTINGS that have arrived, the sessions and their parameters at each end, the negotiated protocol. The network, connections that die, and applications that give up are external. |
| `...Proofs` | | theorems about the module of that name; `EstablishmentProofs` also those about `FlowControlSettings`, `ReceiveStreamProofs` about `ErrorCodes`, `SessionProofs` about `Capsules` |

Each `MC...` module adds what TLC needs: sets of values, and symmetry where no
liveness is checked.  Operators whose names describe a mistake (`KeepSlot`,
`CutAnywhere`, ...) stand before the definition they vary; replacing that
definition by them violates the property that `PROJECT.json` names, which shows
that the property can fail.  The type invariants (`TypeOK`) document the
variables; they hold on all instances.  Those of `OutgoingStreamsMap`,
`Establishment`, `Session`, `SessionManager` and `SendStream` are proved as part of
the inductive invariants; the other proofs state the part of the types they need.

## Runs

| Run | Question | Instance |
|---|---|---|
| `outgoing` | Is the peer's limit kept, and is no slot, wakeup, WT_STREAMS_BLOCKED or stream lost? Do calls return on close, on cancellation, and when there is room? | 3 callers, limits 1 and 2 |
| `incoming` | Is credit exact, advertised in order, granted as `CreditWindow` allows, and only a peer past its limit refused? Does AcceptStream return? | 1 accepting goroutine, 2 open streams, cap 4, 5 streams, 1 past the limit |
| `incoming_two_accepters` | (finding) Is a notification preserved with two accepting goroutines? | 2 accepting goroutines |
| `session` | Are capsules written once, in order, none dropped from an open session, WT_CLOSE_SESSION last, nothing after half a capsule; does the peer get the message; is the writer always notified? Does CloseWithError return, and is the CONNECT stream released? | 1 queuer, 1 opener (both queue capsules, the opener under `closeMx`), 1 closer, queue of 2, 4 capsules, one received capsule of every kind, 3 messages of at most 3 bytes, a CONNECT stream that fails or that the peer ends at any time |
| `session_deadlock` | (finding) Can a goroutine close the session while it holds `closeMx`? | queue of 1 |
| `manager` | Does every stream have exactly one fate, and is it delivered or reset in the end? | 2 sessions, 2 streams, list of 1, timers arbitrarily late |
| `manager_timeout` | (finding) Is a stream reset when the timeout has passed, and not before? | 1 session, 2 streams, timers on time |
| `data` | Do the limits hold at both ends as `CreditWindow` states, is no update lost, is the peer told once of each limit that a writer waits for, and does a Write return? | 2 writers of 6 bytes, window 8 |
| `send_stream` | Is the header sent whole, first, once and reliably, whoever sends it? Do deadlines and the session release a blocked Write, and does the stream leave its map? | 1 writer, Close and CancelWrite, 1 change of the deadline, 1 unit of data |
| `send_stream_cancel` | (finding) Does CancelWrite unblock a Write? | no deadline |
| `receive_stream` | Is every byte credited once, and the peer's code reported? Does the stream leave its map when both sides are closed? Is a blocked Read released? | 1 reader, 2 bytes, 1 change of the deadline, one code past a reserved one |
| `establishment` | Do the ends agree on their sessions? Is there one session without flow control? Does a closed server have none, does a failed dial leave nothing, and are connections released? | 1 connection, shared by 2 requests or owned by one of them, 2 Configs per end (off; on with clipped limits), 2 offers of protocols |

### Bounds

Two actors of a kind show every pairwise race; the outgoing map has three
callers because a wakeup involves one that leaves, one that is next and one that
takes the slot.  `MaxOpened` (5) exceeds `StreamsLimit` (4), so that the cap is
reached; a queue of 2 with 4 capsules fills up, also after it was cleared, and the
queuer and the opener are two goroutines in `queueCapsule`; `MaxRecent` 1 with two
sessions makes the list drop an ID; the receiver withholds an
update as long as less than a quarter of the window was consumed: below a window
of 8 a quarter is at most one byte and every read sends one, so 8 is the smallest
window in which the rule has an effect, and twelve bytes exceed it.  A header of two
units can be cut in the middle; one writer, and one reader, is what the deadlines
of a stream are made for (one value in `deadlineNotifyCh`).  The messages of the
session fit, are cut between characters, and would be cut inside one.  The two
requests of `establishment` meet in `Upgrade`, which is where a second session
is refused; the connection table is keyed by connection, and connections share
nothing but `closed`.  `MaxTime` leaves room for two timeouts.  Deadlock
checking is off: applications may stop calling, sessions end, and bounded
counters run out; that calls return is stated as liveness instead.

### Fairness

Goroutines that can run do run, and mutexes are not starved (Go's mutexes have
a starvation mode): weak fairness of the steps of each goroutine, strong
fairness where a `Write` waits for `streamHdrMu`.  In
addition: `conn.OpenStreamSync` returns once its context is done; a write on
the CONNECT stream returns once the stream is reset or its deadline has
expired, a read once the stream is reset; armed timers fire, among them the one
with which `Upgrade` waits for SETTINGS; for `WritesFinish` capsules are
delivered and the receiving application keeps reading; in `SendStream` QUIC
grants credit for what is written on a stream.  Nothing else is assumed of the
peer: it may never raise a WebTransport limit, never send data, never answer a
request and never close.  Nothing is assumed of applications, which need not close
sessions, give up a dial or call `Close`.

### What the runs show

All properties of the passing runs hold.  Four runs show where the code differs
from a comment, a doc or the intent of a test; `PROJECT.json` quotes them:

1. `Session.OpenStream` and `OpenUniStream` hold `closeMx`; if the capsule queue
   is full when the map queues WT_STREAMS_BLOCKED, `closeWithError` locks it again.
   The session can then no longer be closed.
2. With several goroutines in `AcceptStream`, one may sleep although a stream is
   queued, since the channel keeps one notification.
3. A buffered stream may stay buffered for more than `ReorderingTimeout`, because
   later streams restart the timer.  (The opposite also happens: an `onTimer` that
   already waits for the mutex resets a stream that was buffered just before.)
4. A `Write` that the peer stopped with the code for a closed session waits for
   `closeWithSession`.  `CancelWrite` and `Close` do not release it; they take a
   unidirectional stream out of the map, so that closing the session does not
   release it either (a bidirectional one leaves it when both sides are closed).
   `Read` and `CancelRead` follow the same pattern; `ReadReleased` is therefore
   stated for streams that `closeWithSession` has reached.

`ConnectStreamReleased` makes an exception (`Crossed`): a `CloseWithError` that
crosses what the peer does, so that WT_CLOSE_SESSION is not sent.  The reader
returns because the peer ended the stream, or sent a capsule that closes the session;
its `closeWithError` is a later call, which closes nothing, and its return cancels
the context.  If the writer sees the context before the notification (line 194), or
its write fails before the capsule is pending (line 223), it returns too, and nobody
closes the CONNECT stream:

- if the peer ended the stream or stopped it, that side is over, and the other is
  left to quic-go and to the peer;
- if the peer sent a malformed capsule, a limit that is refused, or WT_CLOSE_SESSION,
  both sides of the stream are left open although the session is closed.

The code does leak the stream in these states, and the model reaches them.  They are
an exception and not a finding, because no comment, doc or test states what they
break.

`CloseReturns` counts a call of `CloseWithError` from the moment it waits for
`closeMx`.  Its exception is finding 1: behind an `OpenStream` that holds `closeMx`
and waits for it, no call of `CloseWithError` returns.

## Proofs

Everything below holds for every value of the constants that satisfies the
named assumptions; TLC evaluates these on each instance.  Every safety property
of the passing runs is proved.  Each invariant that an induction needs was checked
by TLC on the instance of its run before it was proved.

`OutgoingStreamsMapProofs`, for every finite set of callers and all limits
(`CallersAssumption`, `LimitsAssumption`): the type invariant, `SlotsExact`,
`QueueHoldsWaiters` and `NoLostWakeup`.  The limit is not inductive alone,
because a woken waiter takes its slot without checking the limit again (line
285).  The argument: a wakeup in transit (a value in a channel, or a caller past
the `select` that has not got `mx` yet) always belongs to the *first* of the
queue, and while one is in transit there is room (`WakeupInv`).  Nobody else can
take that room: `OpenStream` and the fast path of `OpenStreamSync` give way to a
queue that is not empty, and the limit never decreases.  That in turn needs the
queue to hold exactly the waiting calls, each once.  `SlotAccounting` equates
`numStreams` with the streams opened plus the callers that hold a slot, by a
count of a finite set that each step changes by at most one.  The inductive
invariant `Inv` is the conjunction of these with `NoLostWakeup` and the types.
On top of it, `StreamInv` gives every stream a place and `StreamsClosedWithSession`
follows; `TellInv` says that the limits passed to `queueBlocked`, and those that
calls are about to pass without `mx`, are pairwise different, with `blockedSent`
telling whether the current limit is among them, and `WaitersTold` that calls wait
at the limit only when it is set: together they give `PeerToldOnce`.

`IncomingStreamsMapProofs`, for all limits, accepting goroutines and numbers of
streams (`LimitsAssumption`): `CreditExact`, `CreditAdvertised`,
`StreamsClosedWithSession`, `RefusedOnlyOverLimit`, and the refinement
`CreditImplemented`.  `CreditInv` relates the limit, the number of streams and
the size of the map by sums; each step changes the size by one, and the cap is
the only way to fall behind the exact credit.  It also counts the streams in
flight, which with those added are among the streams opened: hence a refusal
means that the peer opened too many.  `LimitsInv` says that a limit that was
raised is either still to be queued or at most the one queued last, so that the
two regions of `RemoveStream` may interleave.  `StreamsInv` gives each stream a
place: in flight, in the map, finished or gone.

`DataFlowControlProofs`, for every set of writers, window and number of bytes
(`WindowAssumption`): `NoFlowControlError`, `WindowKept`, `NoLostUpdate`,
`BlockedOncePerLimit`, and the refinement `CreditImplemented`.  `CapsulesInv`
orders the limits on their way between what the sender knows and what the receiver
enforces; `WaitersInv` says that a writer that was blocked and holds the current
channel has seen no update.  `BlockedInv` says that the limits queued in
WT_DATA_BLOCKED and those that writers are about to queue (`Telling`) are pairwise
different and at most `lastBlockedAt`: two writers may queue theirs in either order,
but not the same one.  `ToldInv` says that `lastBlockedAt` was queued or is about to
be, and is the limit that writers wait for.

`SessionProofs`, for all goroutines, sizes of the queue, and messages
(`BoundsAssumption`, `MessagesAssumption`: a UTF-8 character has one to four
bytes): `CapsulesInOrder`, `CloseIsLast`, `WriterNotified` and `PeerGetsMessage`.
`CloseInv` ties `closeErr`, the progress of `closeWithError` and the pending capsule
together.  `OrderInv` numbers what is on the wire and in the queue without a gap;
the capsule that was written but not popped is in both, which is what the second
lock of the writer could break.  `RisingInv` takes over when closing has cleared the
queue: what is on the wire, in the hands of the writer and in the queue rises, whatever
is popped or appended.  `LostInv` says that a goroutine that found the queue full is on
its way to close the session, or that it is closed.  `LastInv` says that the writer has
ended when it has closed the stream.  `WakeInv` names, for each of the two things the writer may
wait for, the notification that is on its way.  `TruncatesAtCharacter` is about
`truncateUTF8` alone: it leaves the longest prefix of whole characters that fits, for
every message.  The bytes of a message are a recursive function, so this is
an induction; it is carried out with a least counterexample (`Least`, from the
well-foundedness of the natural numbers), which needs no theorem with an operator
parameter.

`SessionManagerProofs`, for all sessions, streams, timeouts and lengths of the list
of closed sessions (`TimeAssumption`): `StreamFate`, and `TimerPending`, that a
buffered stream always has a timer that runs or an `onTimer` that waits for the
mutex.  `PlaceInv` keeps the places of a stream apart.  `EntryInv` says that only an
unestablished session has buffered streams, and that the entry of an open session
stays until `deleteSession`: that is why neither `deleteSession` nor a late
`onTimer` discards a buffered stream unseen.  `TimerInv` says that two
sessions never share a timer, so that stopping one leaves the others running.

`SendStreamProofs`, for any number of writers (`WritersAssumption`,
`BoundsAssumption`): `HeaderFirst` and `HeaderDelivered`.  `OwnerInv` says who may
send the header: the Write that holds `streamHdrMu`, until `writeErr` moves the rest
to the goroutine of `Close` or `CancelWrite`.  `WireInv` then says that the wire and
what is left of the header add up, and `SentInv` that the reliable boundary
covers the header wherever the application may finish or reset the stream.

`ReceiveStreamProofs`, for every finite set of readers, number of bytes and set of
codes (`ReadersAssumption`, `CodesAssumption`, `RangeAssumption`): `CreditedOnce`,
`CodeReported` and `RemovedWhenBothClosed`.  `CountInv` splits the bytes into those
taken, counted under `flowControlMx` and credited, with what each goroutine holds in
between as a sum (`Held`, the size of a finite set, which a step changes in one
goroutine).  `ErrorInv` says that the error a Read has seen no longer changes.
The mapping of error codes is reversible (`RoundTrip`) and hence injective, for
every range of codes.

`EstablishmentProofs`, for all connections, requests, Configs and offers
(`ConfigsAssumption`): the type invariant, `SessionsAgree`,
`OneSessionWithoutFlowControl`, `ServerClosed` and `DialCleansUp`.  `ServerInv`
ties the connection table to the state of each connection and the sessions to
the table: this is what makes a closed server free of sessions although Upgrade
and Close run at the same time, and what lets Upgrade's check find every open
session.  `ParamsInv` says that parameters were computed from both Configs.
Agreement then follows from `DecisionsAgree`: two ends agree on flow control and on
the limits for all integer values in their Configs (`ValuesAssumption`), because a
clipped limit is positive exactly if the configured value is (`LimitRange`).
`DialInv` says that a dial that fails after its request was seen has given the
request up.

The assumptions on the sets of goroutines only say that they are finite, where
something is counted, and that no goroutine is named like the value that stands for
none (`"free"`, `"callback"`).

Only model-checked: the liveness properties (`CallsReleased`, `FirstWaiterServed`,
`AcceptServed`, `WritesFinish`, `CloseReturns`, `ConnectStreamReleased`,
`BufferedResolved`, `WriteReleased`, `StreamRemoved`, `ReadReleased`,
`ConnectionsReleased`), since TLAPS does not reason about fairness; and the
four properties that the code violates.

## Not modelled

- Datagrams: `Session` passes them to the HTTP/3 stream.
- `protocol.go` (constants), the example and interop programs.
- The parts of `server.go` and `client_conn.go` that read stream headers: they end
  in `AddStream` of `SessionManager`.  Which requests `Upgrade` refuses, and which
  responses `dial` does, is one choice each; the check of the origin is among
  the reasons.
- Varints and the framing of capsules, quic-go and http3.  What http3 does with
  data written before the response header (the goroutines of a session start
  before `WriteHeader`), and whether a read of a response observes a context, is
  left to them; the model allows a session to end before its response.
- `Transport.Close` before any `Dial`: it calls a function that `init` sets.

## Plan

1. Proofs of the safety half of more liveness properties, as `TimerPending` is for
   `BufferedResolved`: what a blocked `Write`, `Read` or `AcceptStream` waits for is
   still on its way.
2. A composition of the two ends of a session, with the outgoing map of one and
   the incoming map of the other; `CreditWindow` is the interface to use.
