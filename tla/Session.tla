------------------------------ MODULE Session ------------------------------
(***************************************************************************)
(* session.go: the outgoing capsule queue of a session, the two goroutines *)
(* that own the CONNECT stream, and the way a session is closed.           *)
(*                                                                         *)
(* Queuers are goroutines of the application and of the streams: they      *)
(* queue capsules (in OpenStreamSync, for example, which does not hold     *)
(* closeMx meanwhile) and report flow control errors.  Closers call        *)
(* CloseWithError.  Openers call OpenStream, which holds closeMx while the *)
(* streams map may queue a capsule.  A region under closeMx or             *)
(* capsuleQueueMx is one action.                                           *)
(*                                                                         *)
(* Only the call of closeWithError that sets closeErr goes past its first  *)
(* lines, so its progress is one variable, stage, whoever makes the call.  *)
(* The CONNECT stream (http3) is external: a write succeeds, or fails      *)
(* after a part or nothing of the capsule has been written.                *)
(***************************************************************************)
EXTENDS Capsules

CONSTANTS
  Queuers, Closers, Openers,
  MaxQueued,     \* maxQueuedOutgoingCapsules
  MaxCapsules,   \* bound: capsules queued in a behaviour
  Messages,      \* messages that the application passes to CloseWithError
  FlowControlEnabled

ASSUME BoundsAssumption ==
  /\ MaxQueued \in Nat /\ MaxCapsules \in Nat
  /\ FlowControlEnabled \in BOOLEAN
ASSUME MessagesAssumption == Messages \subseteq Seq(1..4) /\ MaxCloseMsgLen \in Nat

Callers == Queuers \cup Closers \cup Openers

VARIABLES
  closeErr,      \* "none", or what closed the session first
  closeMx,       \* the opener that holds closeMx, or "free"
  stage,         \* progress of the closeWithError that set closeErr
  capsuleQueue,  \* capsules are numbered in the order they are queued
  pendingClose,  \* pendingCloseCapsule # nil
  message,       \* the message of the CloseWithError that closed the session
  peerMessage,   \* the bytes that the peer finds in WT_CLOSE_SESSION
  updated,       \* capsuleQueueUpdated holds a value
  queued,        \* number of capsules queued
  lost,          \* a capsule found the queue full
  ctxDone,       \* the session's context is cancelled
  reader, writer, pc,
  current,       \* the capsule that the writer took from the queue
  wire,          \* capsules written to the CONNECT stream; 0 is WT_CLOSE_SESSION
  partial,       \* a write failed half way
  sendState, readCanceled,  \* the two sides of the CONNECT stream
  deadline,      \* closeWithError set the write deadline
  peerEnded,     \* the peer ended its side or ours, or the connection was lost
  peerCloses     \* the peer sent a capsule that closes the session

vars == <<closeErr, closeMx, stage, capsuleQueue, pendingClose, message, updated, queued,
          lost, ctxDone, reader, writer, pc, current, wire, partial, peerMessage, sendState,
          readCanceled, deadline, peerEnded, peerCloses>>

closeVars == <<closeErr, stage, message>>
queueVars == <<capsuleQueue, pendingClose, queued, lost>>
wireVars == <<wire, partial, peerMessage>>
connectVars == <<sendState, readCanceled, deadline, peerEnded, peerCloses>>

CLOSE == 0

TypeOK ==
  /\ closeErr \in {"none", "app", "remote", "fc", "full", "read", "write"}
  /\ closeMx \in {"free"} \cup Openers
  /\ stage \in {"none", "maps", "queue", "finish", "done"}
  /\ capsuleQueue \in Seq(Nat) /\ Len(capsuleQueue) <= MaxQueued
  /\ pendingClose \in BOOLEAN /\ updated \in BOOLEAN /\ ctxDone \in BOOLEAN
  /\ queued \in Nat /\ current \in Nat /\ lost \in BOOLEAN
  /\ reader \in {"reading", "read", "remote", "fc", "closing", "exit"}
  /\ writer \in {"select", "lock", "write", "pop", "sendClose", "failed", "partial",
                 "recheck", "closing", "exit"}
  /\ pc \in [Callers -> {"idle", "append", "notify", "full", "lock", "closing", "wait"}]
  /\ wire \in Seq(Nat) /\ partial \in BOOLEAN
  /\ message \in {<<>>} \cup Messages /\ peerMessage \in Seq({"start", "continuation"})
  /\ sendState \in {"open", "canceled", "closed"}
  /\ readCanceled \in BOOLEAN /\ deadline \in BOOLEAN
  /\ peerEnded \in BOOLEAN /\ peerCloses \in BOOLEAN

Init ==
  /\ closeErr = "none" /\ closeMx = "free" /\ stage = "none"
  /\ capsuleQueue = <<>> /\ pendingClose = FALSE /\ updated = FALSE /\ queued = 0
  /\ lost = FALSE /\ ctxDone = FALSE
  /\ reader = "reading" /\ writer = "select"
  /\ pc = [c \in Callers |-> "idle"]
  /\ current = 0 /\ wire = <<>> /\ partial = FALSE /\ message = <<>> /\ peerMessage = <<>>
  /\ sendState = "open" /\ readCanceled = FALSE /\ deadline = FALSE
  /\ peerEnded = FALSE /\ peerCloses = FALSE

-----------------------------------------------------------------------------
\* closeWithError, the region under closeMx: the first caller sets closeErr.
SetFirst(err) == closeErr' = err /\ stage' = "maps"
CloseFirstWith(err, msg) ==
  closeMx = "free" /\ closeErr = "none" /\ SetFirst(err) /\ message' = msg
FirstClose(err) == CloseFirstWith(err, <<>>)
LaterClose == closeMx = "free" /\ closeErr # "none" /\ UNCHANGED closeVars

\* The rest of closeWithError: the four streams maps are closed ...
CloseMaps ==
  /\ stage = "maps" /\ stage' = "queue"
  /\ UNCHANGED <<closeErr, message, closeMx, queueVars, updated, ctxDone, reader, writer,
                 pc, current, wireVars, connectVars>>

\* ... the queued capsules are dropped, in favour of WT_CLOSE_SESSION if the
\* application closes the session ...
DropQueue == pendingClose' = (closeErr = "app") /\ capsuleQueue' = <<>>

ClearQueue ==
  /\ stage = "queue" /\ stage' = "finish"
  /\ DropQueue
  /\ UNCHANGED <<closeErr, message, closeMx, updated, queued, lost, ctxDone, reader, writer,
                 pc, current, wireVars, connectVars>>

\* ... and the writer is told to send it, within closeSessionTimeout, or the
\* CONNECT stream is reset.
ResetSend == IF sendState = "open" THEN "canceled" ELSE sendState

FinishWithoutDeadline ==
  \/ closeErr = "app" /\ updated' = TRUE /\ UNCHANGED connectVars
  \/ /\ closeErr # "app"
     /\ readCanceled' = TRUE /\ sendState' = ResetSend
     /\ UNCHANGED <<updated, deadline, peerEnded, peerCloses>>
Finish ==
  \/ /\ closeErr = "app"
     /\ deadline' = TRUE /\ updated' = TRUE
     /\ UNCHANGED <<sendState, readCanceled, peerEnded, peerCloses>>
  \/ /\ closeErr # "app"
     /\ readCanceled' = TRUE /\ sendState' = ResetSend
     /\ UNCHANGED <<updated, deadline, peerEnded, peerCloses>>

FinishClose ==
  /\ stage = "finish" /\ stage' = "done"
  /\ Finish
  /\ UNCHANGED <<closeErr, message, closeMx, queueVars, ctxDone, reader, writer, pc,
                 current, wireVars>>

ClosingStep == CloseMaps \/ ClearQueue \/ FinishClose

-----------------------------------------------------------------------------
Go(p, position) == pc' = [pc EXCEPT ![p] = position]

\* A call returns and releases closeMx if it holds it.
Return(p) == Go(p, "idle") /\ closeMx' = IF closeMx = p THEN "free" ELSE closeMx

\* The bound on capsules, those that are about to be appended included.
MoreCapsules == queued + Cardinality({p \in Callers : pc[p] = "append"}) < MaxCapsules

\* queueCapsule: nothing is queued once the context is done.
QueueCapsule(q) ==
  /\ pc[q] = "idle" /\ ~ctxDone /\ MoreCapsules
  /\ Go(q, "append")
  /\ UNCHANGED <<closeVars, closeMx, queueVars, updated, ctxDone, reader, writer, current,
                 wireVars, connectVars>>

\* OpenStream: the session is open, and the streams map is at its limit and
\* queues WT_STREAMS_BLOCKED.  (Otherwise nothing of the session changes.)
OpenStream(o) ==
  /\ pc[o] = "idle" /\ closeMx = "free" /\ closeErr = "none"
  /\ ~ctxDone /\ MoreCapsules
  /\ closeMx' = o
  /\ Go(o, "append")
  /\ UNCHANGED <<closeVars, queueVars, updated, ctxDone, reader, writer, current,
                 wireVars, connectVars>>

QueueFull == Len(capsuleQueue) >= MaxQueued

AppendCapsule(p) ==
  /\ pc[p] = "append"
  /\ IF QueueFull
     THEN Go(p, "full") /\ lost' = TRUE /\ UNCHANGED <<capsuleQueue, queued>>
     ELSE /\ capsuleQueue' = Append(capsuleQueue, queued + 1)
          /\ queued' = queued + 1
          /\ Go(p, "notify") /\ UNCHANGED lost
  /\ UNCHANGED <<closeVars, closeMx, pendingClose, updated, ctxDone, reader, writer,
                 current, wireVars, connectVars>>

\* The send to capsuleQueueUpdated does not block.
DropNotification == UNCHANGED updated
SendNotification == updated' = TRUE

NotifyWriter(p) ==
  /\ pc[p] = "notify"
  /\ SendNotification
  /\ Return(p)
  /\ UNCHANGED <<closeVars, queueVars, ctxDone, reader, writer, current, wireVars,
                 connectVars>>

\* The queue was full: the session is closed.
CloseQueueFull(p) ==
  /\ pc[p] = "full"
  /\ \/ FirstClose("full") /\ Go(p, "closing") /\ UNCHANGED closeMx
     \/ LaterClose /\ Return(p)
  /\ UNCHANGED <<queueVars, updated, ctxDone, reader, writer, current, wireVars,
                 connectVars>>

\* closeWithFlowControlError, called when the peer sent too much on a stream
\* or opened too many.
CloseWithFlowControlError(q) ==
  /\ pc[q] = "idle"
  /\ FirstClose("fc") /\ Go(q, "closing")
  /\ UNCHANGED <<closeMx, queueVars, updated, ctxDone, reader, writer, current, wireVars,
                 connectVars>>

\* CloseWithError, called by the application, waits for closeMx ...
CloseWithError(a) ==
  /\ pc[a] = "idle" /\ Go(a, "lock")
  /\ UNCHANGED <<closeVars, closeMx, queueVars, updated, ctxDone, reader, writer, current,
                 wireVars, connectVars>>

\* ... and returns if the session was closed already.
CloseByApplication(a) ==
  /\ pc[a] = "lock"
  /\ \/ (\E msg \in Messages : CloseFirstWith("app", msg)) /\ Go(a, "closing") /\ UNCHANGED closeMx
     \/ LaterClose /\ Return(a)
  /\ UNCHANGED <<queueVars, updated, ctxDone, reader, writer, current, wireVars,
                 connectVars>>

\* The first call of closeWithError ends; CloseWithError waits for ctx.Done.
EndClose(p) ==
  /\ \/ pc[p] = "closing" /\ stage = "done" /\ p \in Closers /\ Go(p, "wait") /\ UNCHANGED closeMx
     \/ pc[p] = "closing" /\ stage = "done" /\ p \notin Closers /\ Return(p)
     \/ pc[p] = "wait" /\ ctxDone /\ Return(p)
  /\ UNCHANGED <<closeVars, queueVars, updated, ctxDone, reader, writer, current,
                 wireVars, connectVars>>

-----------------------------------------------------------------------------
\* writeToConnectStream.  What none of its steps changes:
notWriter == <<closeMx, reader, pc, pendingClose, queued, lost, deadline, peerCloses>>

WriterExit == writer' = "exit" /\ ctxDone' = TRUE

WriterSelect ==
  /\ writer = "select"
  /\ \/ ctxDone /\ WriterExit /\ UNCHANGED updated
     \/ updated /\ updated' = FALSE /\ writer' = "lock" /\ UNCHANGED ctxDone
  /\ UNCHANGED <<notWriter, closeVars, capsuleQueue, current, wireVars, sendState,
                 readCanceled, peerEnded>>

\* WT_CLOSE_SESSION takes precedence over the queue.
CloseFirst ==
  CASE pendingClose -> "sendClose"
    [] ~pendingClose /\ capsuleQueue = <<>> -> "select"
    [] OTHER -> "write"

WriterLock ==
  /\ writer = "lock" /\ writer' = CloseFirst
  /\ current' = IF CloseFirst = "write" THEN Head(capsuleQueue) ELSE 0
  /\ UNCHANGED <<notWriter, closeVars, capsuleQueue, updated, ctxDone, wireVars, sendState,
                 readCanceled, peerEnded>>

WriteSucceeds ==
  /\ writer = "write" /\ sendState = "open"
  /\ wire' = Append(wire, current) /\ current' = 0
  /\ writer' = "pop"
  /\ UNCHANGED <<notWriter, closeVars, capsuleQueue, updated, ctxDone, partial, peerMessage,
                 sendState, readCanceled, peerEnded>>

\* A write fails when the stream was reset, when the deadline expires, or on
\* account of the peer (STOP_SENDING) or the connection, which ends the stream.
Stopped == sendState = "open" /\ ~deadline

WriteFails ==
  /\ writer = "write"
  /\ writer' = "failed" /\ current' = 0
  /\ sendState' = IF Stopped THEN "canceled" ELSE sendState
  /\ peerEnded' = (peerEnded \/ Stopped)
  /\ UNCHANGED <<notWriter, closeVars, capsuleQueue, updated, ctxDone, wireVars,
                 readCanceled>>

\* Part of a capsule was written: nothing can follow it, the stream is reset.
LeaveOpen == UNCHANGED <<readCanceled, sendState>>
ResetBothSides == readCanceled' = TRUE /\ sendState' = ResetSend

WriteFailsPartly ==
  /\ writer = "write"
  /\ writer' = "partial" /\ current' = 0
  /\ partial' = TRUE
  /\ ResetBothSides
  /\ peerEnded' = (peerEnded \/ Stopped)
  /\ UNCHANGED <<notWriter, closeVars, capsuleQueue, updated, ctxDone, wire, peerMessage>>

\* The failed write closes the session.  If CloseWithError was first and its
\* capsule is pending, the writer goes on to send that.
ExitAfterFailure == writer' = "exit" /\ ctxDone' = TRUE
AfterFailure == writer' = "recheck" /\ UNCHANGED ctxDone

WriterCloses ==
  /\ \/ writer \in {"failed", "partial"} /\ FirstClose("write") /\ writer' = "closing"
        /\ UNCHANGED ctxDone
     \/ writer = "failed" /\ LaterClose /\ AfterFailure
     \/ writer = "partial" /\ LaterClose /\ WriterExit
     \/ writer = "closing" /\ stage = "done" /\ WriterExit /\ UNCHANGED closeVars
     \/ writer = "recheck" /\ pendingClose /\ writer' = "lock" /\ UNCHANGED <<ctxDone, closeVars>>
     \/ writer = "recheck" /\ ~pendingClose /\ WriterExit /\ UNCHANGED closeVars
  /\ UNCHANGED <<notWriter, capsuleQueue, updated, current, wireVars, sendState,
                 readCanceled, peerEnded>>

NothingPopped == capsuleQueue
Popped == IF capsuleQueue = <<>> THEN <<>> ELSE Tail(capsuleQueue)

WriterPop ==
  /\ writer = "pop" /\ writer' = "lock"
  /\ capsuleQueue' = Popped
  /\ UNCHANGED <<notWriter, closeVars, updated, ctxDone, current, wireVars, sendState,
                 readCanceled, peerEnded>>

\* closeSessionStream: TryWriteAll writes the whole capsule or fails.
SendClose ==
  /\ writer = "sendClose" /\ WriterExit
  /\ \/ /\ sendState = "open" /\ sendState' = "closed"
        /\ wire' = Append(wire, CLOSE)
        /\ peerMessage' = ParsedMessage(CloseMessage(message))
     \/ sendState' = ResetSend /\ UNCHANGED <<wire, peerMessage>>
  /\ readCanceled' = TRUE
  /\ UNCHANGED <<notWriter, closeVars, capsuleQueue, updated, current, partial, peerEnded>>

WriterStep ==
  \/ WriterSelect \/ WriterLock \/ WriterCloses \/ WriterPop \/ SendClose

\* readFromConnectStream: the error that the session is closed with, if any, when
\* a capsule has been read.  (An update of a limit is a step of the streams maps
\* or of the flow controllers; it may be refused.)
LimitRefused(c) ==
  FlowControlEnabled /\ parseNextCapsule(c) \in {"WT_MAX_DATA", "WT_MAX_STREAMS"}
CapsuleCloses(c) ==
  (IF parseNextCapsule(c) = "error" THEN {"read"} ELSE {}) \cup
  (IF parseNextCapsule(c) = "WT_CLOSE_SESSION" THEN {"remote"} ELSE {}) \cup
  (IF LimitRefused(c) THEN {"fc"} ELSE {})

\* Such a capsule has been read.
ReadsClosingCapsule ==
  /\ reader = "reading"
  /\ \E c \in Received : reader' \in CapsuleCloses(c)
  /\ peerCloses' = TRUE
  /\ UNCHANGED <<peerEnded, closeVars, ctxDone>>

\* The read fails: the stream ended or was reset, by us or by the peer, or the
\* connection was lost.
ReadEnds ==
  /\ reader = "reading" /\ reader' = "read"
  /\ peerEnded' = (peerEnded \/ ~readCanceled)
  /\ UNCHANGED <<peerCloses, closeVars, ctxDone>>

ReaderCloses ==
  /\ \/ /\ reader \in {"read", "remote", "fc"}
        /\ FirstClose(reader) /\ reader' = "closing" /\ UNCHANGED ctxDone
     \/ /\ reader \in {"read", "remote", "fc"}
        /\ LaterClose /\ reader' = "exit" /\ ctxDone' = TRUE
     \/ /\ reader = "closing" /\ stage = "done" /\ reader' = "exit" /\ ctxDone' = TRUE
        /\ UNCHANGED closeVars
  /\ UNCHANGED <<peerEnded, peerCloses>>

ReaderStep ==
  /\ ReadsClosingCapsule \/ ReadEnds \/ ReaderCloses
  /\ UNCHANGED <<closeMx, queueVars, updated, writer, pc, current, wireVars, sendState,
                 readCanceled, deadline>>

CallStep(p) ==
  AppendCapsule(p) \/ NotifyWriter(p) \/ CloseQueueFull(p) \/ CloseByApplication(p) \/ EndClose(p)

Next ==
  \/ ClosingStep
  \/ \E q \in Queuers : QueueCapsule(q) \/ CloseWithFlowControlError(q)
  \/ \E a \in Closers : CloseWithError(a)
  \/ \E o \in Openers : OpenStream(o)
  \/ \E p \in Callers : CallStep(p)
  \/ WriterStep \/ WriteSucceeds \/ WriteFails \/ WriteFailsPartly
  \/ ReaderStep

Spec == Init /\ [][Next]_vars

\* Goroutines that can run do run.  A write on a stream that was reset or whose
\* deadline expired returns, and so does a read on a stream that was reset.
Fairness ==
  /\ WF_vars(ClosingStep) /\ WF_vars(WriterStep)
  /\ WF_vars((sendState # "open" \/ deadline) /\ (WriteSucceeds \/ WriteFails \/ WriteFailsPartly))
  /\ WF_vars((readCanceled \/ reader # "reading") /\ ReaderStep)
  /\ \A p \in Callers : WF_vars(CallStep(p))

FairSpec == Spec /\ Fairness

-----------------------------------------------------------------------------
\* While the session is open, capsules are written exactly once and in the
\* order they were queued, although the writer takes the lock again to pop the
\* capsule it has written.  When closeWithError has cleared the queue in between,
\* the writer still writes no capsule twice and none out of order.  A capsule that
\* finds the queue full is not dropped from a session that stays open.
CapsulesInOrder ==
  LET rest == IF writer = "pop" THEN Tail(capsuleQueue) ELSE capsuleQueue
  IN  /\ stage \in {"none", "maps", "queue"} => wire \o rest = [i \in 1..queued |-> i]
      /\ \A i, j \in 1..Len(wire) : i < j /\ wire[j] # CLOSE => wire[i] < wire[j]
      /\ lost => closeErr # "none" \/ \E p \in Callers : pc[p] = "full"

\* "WT_CLOSE_SESSION is sent from here so it doesn't race with capsule writes"
\* (line 191): it is the last capsule on the CONNECT stream, it is sent once and
\* only when CloseWithError closed the session.  Nothing, and in particular not
\* WT_CLOSE_SESSION, is written after half a capsule.
CloseIsLast ==
  /\ \A i \in 1..Len(wire) : wire[i] = CLOSE =>
       i = Len(wire) /\ closeErr = "app" /\ sendState = "closed"
  /\ partial => sendState = "canceled"

\* No lost wakeup of the writer: if it waits in its select, something to write
\* implies a notification, sent or about to be sent.
WriterNotified ==
  writer = "select" /\ (capsuleQueue # <<>> \/ pendingClose) =>
    \/ updated \/ ctxDone
    \/ \E p \in Callers : pc[p] = "notify"
    \/ stage = "finish"

\* A goroutine that calls closeWithError does not hold closeMx itself.  The
\* streams map may close the session from OpenStream when it queues a capsule
\* (TestOutgoingStreamsMapQueueBlockedCanCloseSession).
NoSelfDeadlock == \A p \in Callers : pc[p] = "full" => closeMx # p

\* CloseWithError returns, even if the peer grants no credit on the CONNECT
\* stream and no other goroutine of the peer or the application moves; also a
\* call that waits for closeMx, unless an OpenStream that holds closeMx waits for
\* it itself (NoSelfDeadlock).
CloseReturns ==
  \A a \in Closers :
    pc[a] = "lock" ~> pc[a] = "idle" \/ \E o \in Openers : closeMx = o /\ pc[o] = "full"

\* The peer of a session that the application closes finds in WT_CLOSE_SESSION
\* the longest prefix of whole characters of the message that fits into the
\* capsule, and the parser leaves it as it is.
PeerGetsMessage ==
  \A i \in 1..Len(wire) : wire[i] = CLOSE => peerMessage = LongestPrefix(message)

\* The application closed the session, and before WT_CLOSE_SESSION was sent the
\* peer ended the stream or sent a capsule that closes the session.
Crossed ==
  /\ closeErr = "app" /\ (peerEnded \/ peerCloses)
  /\ ~partial /\ \A i \in 1..Len(wire) : wire[i] # CLOSE

\* Once the session is closed, the writer ends; so does the reader, and both
\* sides of the CONNECT stream are closed or reset.  The exception is a call of
\* CloseWithError that crosses what the peer does.  The reader then cancels the
\* context and the writer may return on that (line 194) before it sees the pending
\* capsule, or its write fails before the capsule is pending: nobody closes the
\* stream then, and after a capsule (malformed, a refused limit, or
\* WT_CLOSE_SESSION) both sides of it are still open.
ConnectStreamReleased ==
  closeErr # "none" ~> /\ writer = "exit"
                       /\ \/ reader = "exit" /\ readCanceled /\ sendState # "open"
                          \/ Crossed
=============================================================================
