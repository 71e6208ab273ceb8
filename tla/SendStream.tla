----------------------------- MODULE SendStream -----------------------------
(***************************************************************************)
(* send_stream.go: a send stream, whose header precedes the data, used by  *)
(* goroutines that Write, Close, CancelWrite and set deadlines while the   *)
(* peer or the session may reset it.                                       *)
(*                                                                         *)
(* The QUIC stream is external: a write makes progress, fails when the     *)
(* stream was closed or reset or its deadline has expired, or blocks.  The *)
(* credit for data (DataFlowControl) is external too: it may run out and   *)
(* be granted at any time.  The header has two units, 1 and 2 on the wire. *)
(***************************************************************************)
EXTENDS Naturals, Sequences

CONSTANTS
  Writers,  \* goroutines that call Write
  MaxData,  \* bound: units of data written in a behaviour
  MaxSets   \* bound: calls of SetWriteDeadline

ASSUME BoundsAssumption == MaxData \in Nat /\ MaxSets \in Nat
ASSUME WritersAssumption == "free" \notin Writers

Finishers == {"Close", "CancelWrite"}
HeaderLen == 2
DATA == 3

VARIABLES
  streamHdr,     \* units of the header left to send
  hdrMu,         \* the writer that holds streamHdrMu, or "free"
  writeErr,      \* Close or CancelWrite left the header to a goroutine
  pc,            \* the calls of Write
  seen,          \* the deadline a blocked Write last looked at
  finish,        \* the calls of Close and CancelWrite
  asyncPC, asyncHdr, asyncOp,  \* the goroutine that sends the header
  deadline,      \* writeDeadline
  quicDeadline,  \* the deadline of the QUIC stream
  notifyCh,      \* deadlineNotifyCh: nil, empty or full
  setting, sets, \* a call of SetWriteDeadline in progress, and their number
  lateDeadline,  \* a deadline was set after Close or CancelWrite
  sendState, by, \* state of the QUIC stream, and who reset it
  wire, boundary,  \* units written, and how many are delivered reliably
  removed,       \* onClose was called: the stream has left the streams map
  session        \* progress of closeWithSession

vars == <<streamHdr, hdrMu, writeErr, pc, seen, finish, asyncPC, asyncHdr, asyncOp, deadline,
          quicDeadline, notifyCh, setting, sets, lateDeadline, sendState, by, wire,
          boundary, removed, session>>

hdrVars == <<streamHdr, hdrMu, writeErr>>
asyncVars == <<asyncPC, asyncHdr, asyncOp>>
deadlineVars == <<deadline, quicDeadline, notifyCh>>
setVars == <<setting, sets, lateDeadline>>
quicVars == <<sendState, by, wire, boundary>>

Deadlines == {"none", "soon", "past"}

TypeOK ==
  /\ streamHdr \in 0..HeaderLen /\ asyncHdr \in 0..HeaderLen
  /\ hdrMu \in {"free"} \cup Writers /\ writeErr \in BOOLEAN
  /\ pc \in [Writers -> {"idle", "lock", "header", "data", "limit", "check", "wait", "gone",
                         "goneCheck", "goneWait", "fail"}]
  /\ seen \in [Writers -> Deadlines]
  /\ finish \in [Finishers -> {"idle", "first", "second", "done"}]
  /\ asyncPC \in {"none", "clear", "clearQUIC", "header", "end", "remove"}
  /\ asyncOp \in Finishers
  /\ deadline \in Deadlines /\ quicDeadline \in Deadlines
  /\ notifyCh \in {"nil", "empty", "full"}
  /\ setting \in {"no", "none", "soon"} /\ sets \in 0..MaxSets /\ lateDeadline \in BOOLEAN
  /\ sendState \in {"open", "closed", "canceled"}
  /\ by \in {"nobody", "app", "session", "peer", "peerGone"}
  /\ wire \in Seq(1..DATA) /\ boundary \in 0..Len(wire)
  /\ removed \in BOOLEAN
  /\ session \in {"open", "canceled", "closed"}

\* newSendStream, for a stream opened by this endpoint.
Init ==
  /\ streamHdr = HeaderLen /\ hdrMu = "free" /\ writeErr = FALSE
  /\ pc = [w \in Writers |-> "idle"] /\ seen = [w \in Writers |-> "none"]
  /\ finish = [f \in Finishers |-> "idle"]
  /\ asyncPC = "none" /\ asyncHdr = 0 /\ asyncOp = "Close"
  /\ deadline = "none" /\ quicDeadline = "none" /\ notifyCh = "nil"
  /\ setting = "no" /\ sets = 0 /\ lateDeadline = FALSE
  /\ sendState = "open" /\ by = "nobody" /\ wire = <<>> /\ boundary = 0
  /\ removed = FALSE /\ session = "open"

-----------------------------------------------------------------------------
\* The QUIC stream.  It may be written to while it is open and its deadline has
\* not expired; otherwise a write returns one of Errors.
Writable == sendState = "open" /\ quicDeadline # "past"

Errors ==
  {e \in {"timeout", "gone", "other"} :
     \/ e = "timeout" /\ quicDeadline = "past"
     \/ e = "gone" /\ by \in {"session", "peerGone"}
     \/ e = "other" /\ (sendState = "closed" \/ by \in {"app", "peer"})}

Reset(who) ==
  IF sendState = "open" THEN sendState' = "canceled" /\ by' = who
                        ELSE UNCHANGED <<sendState, by>>

FinishQUIC(f) ==
  \/ f = "CancelWrite" /\ Reset("app")
  \/ /\ f = "Close"
     /\ sendState' = (IF sendState = "open" THEN "closed" ELSE sendState)
     /\ UNCHANGED by

\* SetReliableBoundary: what was written so far survives a later reset.
SetReliableBoundary == boundary' = IF sendState = "open" THEN Len(wire) ELSE boundary

\* The next unit of a header of which `left` units are left.
NextUnit(left) == Append(wire, HeaderLen - left + 1)

\* The peer sends STOP_SENDING, with the code for a closed session or another.
PeerStops(who) ==
  /\ sendState = "open"
  /\ Reset(who)
  /\ UNCHANGED <<hdrVars, pc, seen, finish, asyncVars, deadlineVars, setVars, wire, boundary,
                 removed, session>>

-----------------------------------------------------------------------------
Go(w, position) == pc' = [pc EXCEPT ![w] = position]

\* Write, when write returns an error: it waits for the session to close if the
\* session is gone, keeps the stream after a timeout, and gives it up otherwise.
AfterError(e) ==
  CASE e = "timeout" -> "idle"
    [] e = "gone"    -> "gone"
    [] e = "other"   -> "fail"

Write(w) ==
  /\ pc[w] = "idle" /\ Len(wire) < HeaderLen + MaxData
  /\ Go(w, "lock")
  /\ UNCHANGED <<hdrVars, seen, finish, asyncVars, deadlineVars, setVars, quicVars, removed,
                 session>>

\* streamHdrMu is held while the header is written.
WriteLock(w) ==
  /\ pc[w] = "lock" /\ hdrMu = "free"
  /\ \/ writeErr /\ Go(w, "fail") /\ UNCHANGED hdrMu
     \/ ~writeErr /\ streamHdr = 0 /\ Go(w, "data") /\ UNCHANGED hdrMu
     \/ ~writeErr /\ streamHdr > 0 /\ Go(w, "header") /\ hdrMu' = w
  /\ UNCHANGED <<streamHdr, writeErr, seen, finish, asyncVars, deadlineVars, setVars, quicVars,
                 removed, session>>

HeaderUnit(w) ==
  /\ pc[w] = "header" /\ streamHdr > 0 /\ Writable
  /\ wire' = NextUnit(streamHdr)
  /\ streamHdr' = streamHdr - 1
  /\ UNCHANGED <<hdrMu, writeErr, pc, seen, finish, asyncVars, deadlineVars, setVars, sendState,
                 by, boundary, removed, session>>

\* maybeSendStreamHeader returns, with the rest of the header kept if it failed.
HeaderReturns(w) ==
  /\ pc[w] = "header"
  /\ \/ streamHdr = 0 /\ Go(w, "data")
     \/ streamHdr > 0 /\ \E e \in Errors : Go(w, AfterError(e))
  /\ SetReliableBoundary
  /\ hdrMu' = "free"
  /\ UNCHANGED <<streamHdr, writeErr, seen, finish, asyncVars, deadlineVars, setVars, sendState,
                 by, wire, removed, session>>

\* Some data is written: all there was, or up to the limit, or more follows.
WriteData(w) ==
  /\ pc[w] = "data" /\ Writable /\ Len(wire) < HeaderLen + MaxData
  /\ wire' = Append(wire, DATA)
  /\ \E position \in {"idle", "data", "limit"} : Go(w, position)
  /\ UNCHANGED <<hdrVars, seen, finish, asyncVars, deadlineVars, setVars, sendState, by, boundary,
                 removed, session>>

LimitReached(w) ==
  /\ pc[w] = "data" /\ Writable
  /\ Go(w, "limit")
  /\ UNCHANGED <<hdrVars, seen, finish, asyncVars, deadlineVars, setVars, quicVars, removed,
                 session>>

DataFails(w) ==
  /\ pc[w] = "data"
  /\ \E e \in Errors : Go(w, AfterError(e))
  /\ UNCHANGED <<hdrVars, seen, finish, asyncVars, deadlineVars, setVars, quicVars, removed,
                 session>>

\* onClose, and Write returns the error.
WriteEnds(w) ==
  /\ pc[w] = "fail"
  /\ removed' = TRUE
  /\ Go(w, "idle")
  /\ UNCHANGED <<hdrVars, seen, finish, asyncVars, deadlineVars, setVars, quicVars, session>>

-----------------------------------------------------------------------------
\* waitForUpdate waits for credit, handleSessionGoneError for the session to
\* close; both look at the deadline again when it is changed.
Waits == {"limit", "gone"}
Check(k) == IF k = "limit" THEN "check" ELSE "goneCheck"
Wait(k) == IF k = "limit" THEN "wait" ELSE "goneWait"

Forget(w) == seen' = [seen EXCEPT ![w] = "none"]

StartWait(w, k) ==
  /\ pc[w] = k
  /\ notifyCh' = IF notifyCh = "nil" THEN "empty" ELSE notifyCh
  /\ Go(w, Check(k))
  /\ UNCHANGED <<hdrVars, seen, finish, asyncVars, deadline, quicDeadline, setVars, quicVars,
                 removed, session>>

CheckDeadline(w, k) ==
  /\ pc[w] = Check(k)
  /\ \/ deadline = "past" /\ Go(w, "idle") /\ UNCHANGED seen
     \/ deadline # "past" /\ Go(w, Wait(k)) /\ seen' = [seen EXCEPT ![w] = deadline]
  /\ UNCHANGED <<hdrVars, finish, asyncVars, deadlineVars, setVars, quicVars, removed, session>>

DeadlineChanged(w, k) ==
  /\ pc[w] = Wait(k) /\ notifyCh = "full"
  /\ notifyCh' = "empty"
  /\ Go(w, Check(k))
  /\ Forget(w)
  /\ UNCHANGED <<hdrVars, finish, asyncVars, deadline, quicDeadline, setVars, quicVars,
                 removed, session>>

TimerFires(w, k) ==
  /\ pc[w] = Wait(k) /\ seen[w] = "past"
  /\ Go(w, "idle")
  /\ Forget(w)
  /\ UNCHANGED <<hdrVars, finish, asyncVars, deadlineVars, setVars, quicVars, removed,
                 session>>

\* The context of the QUIC stream is done.
StreamDone(w) ==
  /\ pc[w] = "wait" /\ sendState # "open"
  /\ \E e \in Errors \ {"timeout"} : Go(w, AfterError(e))
  /\ Forget(w)
  /\ UNCHANGED <<hdrVars, finish, asyncVars, deadlineVars, setVars, quicVars, removed,
                 session>>

Updated(w) ==
  /\ pc[w] = "wait"
  /\ Go(w, "data")
  /\ Forget(w)
  /\ UNCHANGED <<hdrVars, finish, asyncVars, deadlineVars, setVars, quicVars, removed,
                 session>>

SessionClosed(w) ==
  /\ pc[w] = "goneWait" /\ session = "closed"
  /\ Go(w, "fail")
  /\ Forget(w)
  /\ UNCHANGED <<hdrVars, finish, asyncVars, deadlineVars, setVars, quicVars, removed,
                 session>>

-----------------------------------------------------------------------------
\* Close and CancelWrite, each called once, from the moment they get streamHdrMu.
\* The header that was not sent yet is left to a goroutine.
HandOverSilently(f) ==
  /\ asyncPC' = "clear" /\ asyncHdr' = streamHdr /\ asyncOp' = f
  /\ streamHdr' = 0 /\ UNCHANGED writeErr
HandOver(f) ==
  /\ asyncPC' = "clear" /\ asyncHdr' = streamHdr /\ asyncOp' = f
  /\ streamHdr' = 0 /\ writeErr' = TRUE

FinishLock(f) ==
  /\ finish[f] = "idle" /\ hdrMu = "free"
  /\ \/ /\ ~writeErr /\ streamHdr > 0
        /\ HandOver(f)
        /\ finish' = [finish EXCEPT ![f] = "done"]
     \/ /\ writeErr \/ streamHdr = 0
        /\ finish' = [finish EXCEPT ![f] = IF writeErr THEN "done" ELSE "first"]
        /\ UNCHANGED <<streamHdr, writeErr, asyncVars>>
  /\ UNCHANGED <<hdrMu, pc, seen, deadlineVars, setVars, quicVars, removed, session>>

\* Close calls onClose and then closes the QUIC stream, CancelWrite resets the
\* QUIC stream and then calls onClose.
FinishStream(f) ==
  /\ finish[f] = IF f = "Close" THEN "second" ELSE "first"
  /\ FinishQUIC(f)
  /\ finish' = [finish EXCEPT ![f] = IF f = "Close" THEN "done" ELSE "second"]
  /\ UNCHANGED <<hdrVars, pc, seen, asyncVars, deadlineVars, setVars, wire, boundary, removed,
                 session>>

FinishRemove(f) ==
  /\ finish[f] = IF f = "Close" THEN "first" ELSE "second"
  /\ removed' = TRUE
  /\ finish' = [finish EXCEPT ![f] = IF f = "Close" THEN "second" ELSE "done"]
  /\ UNCHANGED <<hdrVars, pc, seen, asyncVars, deadlineVars, setVars, quicVars, session>>

-----------------------------------------------------------------------------
\* SetWriteDeadline: the part under deadlineMu.
NotNotified == notifyCh
Notified == IF notifyCh = "nil" THEN "nil" ELSE "full"

SetWriteDeadline(t) ==
  /\ setting = "no" /\ sets < MaxSets
  /\ deadline' = t /\ notifyCh' = Notified
  /\ setting' = t /\ sets' = sets + 1
  /\ UNCHANGED <<hdrVars, pc, seen, finish, asyncVars, quicDeadline, lateDeadline, quicVars,
                 removed, session>>

SetQUICDeadline ==
  /\ setting # "no"
  /\ quicDeadline' = setting
  /\ setting' = "no"
  /\ lateDeadline' = (lateDeadline \/ writeErr)
  /\ UNCHANGED <<hdrVars, pc, seen, finish, asyncVars, deadline, notifyCh, sets, quicVars, removed,
                 session>>

\* Time passes; the timers of blocked calls expire too.
Expired(d) == IF d = "soon" THEN "past" ELSE d
Expire ==
  /\ "soon" \in {deadline, quicDeadline} \cup {seen[w] : w \in Writers}
  /\ deadline' = Expired(deadline) /\ quicDeadline' = Expired(quicDeadline)
  /\ seen' = [w \in Writers |-> Expired(seen[w])]
  /\ UNCHANGED <<hdrVars, pc, finish, asyncVars, notifyCh, setVars, quicVars, removed, session>>

-----------------------------------------------------------------------------
\* The goroutine that sends the header: it clears the deadline in two steps.
KeepDeadline == quicDeadline
NoDeadline == "none"

AsyncClear ==
  \/ /\ asyncPC = "clear" /\ asyncPC' = "clearQUIC"
     /\ deadline' = "none" /\ notifyCh' = Notified
     /\ UNCHANGED <<hdrVars, pc, seen, finish, asyncHdr, asyncOp, quicDeadline, setVars, quicVars,
                    removed, session>>
  \/ /\ asyncPC = "clearQUIC" /\ asyncPC' = "header"
     /\ quicDeadline' = NoDeadline
     /\ UNCHANGED <<hdrVars, pc, seen, finish, asyncHdr, asyncOp, deadline, notifyCh, setVars,
                    quicVars, removed, session>>

AsyncUnit ==
  /\ asyncPC = "header" /\ asyncHdr > 0 /\ Writable
  /\ wire' = NextUnit(asyncHdr)
  /\ asyncHdr' = asyncHdr - 1
  /\ UNCHANGED <<hdrVars, pc, seen, finish, asyncPC, asyncOp, deadlineVars, setVars, sendState, by,
                 boundary, removed, session>>

\* The write of the header returns, and its error is ignored.
AsyncBoundary ==
  /\ asyncPC = "header" /\ (asyncHdr = 0 \/ Errors # {})
  /\ SetReliableBoundary
  /\ asyncPC' = "end"
  /\ UNCHANGED <<hdrVars, pc, seen, finish, asyncHdr, asyncOp, deadlineVars, setVars, sendState,
                 by, wire, removed, session>>

AsyncEnd ==
  /\ asyncPC = "end" /\ asyncPC' = "remove"
  /\ FinishQUIC(asyncOp)
  /\ UNCHANGED <<hdrVars, pc, seen, finish, asyncHdr, asyncOp, deadlineVars, setVars, wire,
                 boundary, removed, session>>

NotRemoved == removed
Removed == TRUE
AsyncRemove ==
  /\ asyncPC = "remove" /\ asyncPC' = "none"
  /\ removed' = Removed
  /\ UNCHANGED <<hdrVars, pc, seen, finish, asyncHdr, asyncOp, deadlineVars, setVars, quicVars,
                 session>>

\* closeWithSession, which the streams map calls for the streams it holds; onClose
\* takes a unidirectional stream out of the map.
closeWithSession ==
  /\ \/ session = "open" /\ ~removed /\ Reset("session") /\ session' = "canceled"
     \/ session = "canceled" /\ session' = "closed" /\ UNCHANGED <<sendState, by>>
  /\ UNCHANGED <<hdrVars, pc, seen, finish, asyncVars, deadlineVars, setVars, wire, boundary,
                 removed>>

-----------------------------------------------------------------------------
WriterStep(w) ==
  \/ HeaderUnit(w) \/ HeaderReturns(w) \/ WriteData(w) \/ DataFails(w) \/ WriteEnds(w)
  \/ StreamDone(w) \/ SessionClosed(w)
  \/ \E k \in Waits : \/ StartWait(w, k) \/ CheckDeadline(w, k) \/ DeadlineChanged(w, k)
                      \/ TimerFires(w, k)
FinishStep(f) == FinishStream(f) \/ FinishRemove(f)
AsyncStep == AsyncClear \/ AsyncUnit \/ AsyncBoundary \/ AsyncEnd \/ AsyncRemove

Next ==
  \/ \E w \in Writers : \/ Write(w) \/ WriteLock(w) \/ WriterStep(w) \/ LimitReached(w)
                        \/ Updated(w)
  \/ \E f \in Finishers : FinishLock(f) \/ FinishStep(f)
  \/ AsyncStep
  \/ \E t \in {"none", "soon"} : SetWriteDeadline(t)
  \/ SetQUICDeadline \/ Expire \/ closeWithSession
  \/ \E who \in {"peer", "peerGone"} : PeerStops(who)

Spec == Init /\ [][Next]_vars

\* Goroutines run, streamHdrMu is not starved, and QUIC grants credit for what is
\* written.  Nothing is assumed about the credit of DataFlowControl, the session
\* and the application.
FairSpec ==
  /\ Spec
  /\ \A w \in Writers : WF_vars(WriterStep(w)) /\ SF_vars(WriteLock(w))
  /\ \A f \in Finishers : WF_vars(FinishStep(f))
  /\ WF_vars(AsyncStep) /\ WF_vars(session = "canceled" /\ closeWithSession)

-----------------------------------------------------------------------------
\* The peer reads the whole header, once, before any data, whichever goroutines
\* send its parts: a Write that timed out in the header, the next Write, or the
\* goroutine of Close or CancelWrite (the purpose of writeErr, line 41).
HeaderFirst ==
  \A i \in 1..Len(wire) : wire[i] = IF i <= HeaderLen THEN i ELSE DATA

\* A stream that the application closes, or cancels, carries its complete header,
\* reliably, so that the peer can tell which session it belongs to; also after an
\* expired deadline, unless a deadline is set once the header is being sent.
HeaderDelivered ==
  ~lateDeadline => /\ sendState = "closed" => Len(wire) >= HeaderLen
                   /\ by = "app" => boundary >= HeaderLen

\* A blocked Write returns when closeWithSession has run, and when the deadline
\* expires, also one that is set while it is blocked (lines 305-306).
WriteReleased ==
  \A w \in Writers :
    /\ session = "closed" ~> pc[w] = "idle"
    /\ (deadline = "past" /\ quicDeadline = "past") ~> (deadline # "past" \/ pc[w] = "idle")

\* After Close or CancelWrite the stream leaves the streams map, whichever of
\* the two was first and however the header was sent.
StreamRemoved == \A f \in Finishers : finish[f] # "idle" ~> removed

\* "Write will unblock immediately" after CancelWrite (line 222).
CancelUnblocksWrite ==
  \A w \in Writers : finish["CancelWrite"] # "idle" ~> pc[w] = "idle"
=============================================================================
