--------------------------- MODULE ReceiveStream ---------------------------
(***************************************************************************)
(* receive_stream.go: a receive stream, read by several goroutines while   *)
(* the peer, the application or the session ends it, and stream.go: the    *)
(* bidirectional stream it may be part of, which leaves the streams map    *)
(* when both sides are closed.  A unidirectional stream is one whose send  *)
(* side is closed from the start.                                          *)
(*                                                                         *)
(* The QUIC stream is external: Read returns data, the error of the stream *)
(* or a timeout, or blocks; CancelRead makes it fail; the callback for the *)
(* final size runs at most once, at any time after the size is known.      *)
(* Bytes are counted without the stream header, which was read before.     *)
(***************************************************************************)
EXTENDS ErrorCodes, Integers, FiniteSets

CONSTANTS
  Readers,                 \* goroutines that call Read
  Codes,                   \* codes that the applications use
  WTSessionGoneErrorCode,  \* outside the range of ErrorCodes
  MaxBytes,                \* bound: bytes the peer sends
  NewDeadlines,            \* arguments of SetReadDeadline
  MaxSets                  \* bound: calls of SetReadDeadline

ASSUME CodesAssumption ==
  /\ Codes \subseteq StreamErrorCodes /\ MaxBytes \in Nat /\ MaxSets \in Nat
  /\ WTSessionGoneErrorCode \in Nat /\ WTSessionGoneErrorCode \notin FirstErrorCode..LastErrorCode

\* Another goroutine of the QUIC connection, named "callback", reports the final size.
ASSUME ReadersAssumption == IsFiniteSet(Readers) /\ "callback" \notin Readers

VARIABLES
  taken,           \* bytes that QUIC's Read returned
  size,            \* the final size, -1 until it is known
  ended, code,     \* how the QUIC stream ended, and its HTTP/3 error code
  bytesRead, finalSizeKnown,
  callback,        \* progress of onReceiveFinalSize
  newly,           \* bytes that a goroutine has yet to count, then to credit
  credited,        \* bytes passed to AddBytesRead of the session
  pc, err,         \* the calls of Read, and what QUIC's Read returned
  seen,            \* the deadline a waiting Read last looked at
  cancel,          \* progress of CancelRead
  sendSide,        \* progress of registerClose for the send side
  sendSideClosed, recvSideClosed,
  removed,         \* onClose of the streams map was called
  session,         \* progress of closeWithSession
  deadline, quicDeadline, notifyCh, setting, sets  \* as in SendStream

vars == <<taken, size, ended, code, bytesRead, finalSizeKnown, callback, newly, credited,
          pc, err, seen, cancel, sendSide, sendSideClosed,
          recvSideClosed, removed, session, deadline, quicDeadline, notifyCh, setting, sets>>

quicVars == <<taken, size, ended, code>>
countVars == <<bytesRead, finalSizeKnown, callback, newly, credited>>
readVars == <<pc, err, seen>>
closeVars == <<cancel, sendSide, sendSideClosed, recvSideClosed, removed, session>>
deadlineVars == <<deadline, quicDeadline, notifyCh>>
setVars == <<setting, sets>>

Deadlines == {"none", "soon", "past"}

TypeOK ==
  /\ taken \in 0..MaxBytes /\ size \in -1..MaxBytes
  /\ ended \in {"open", "fin", "reset", "canceled"} /\ code \in Nat
  /\ bytesRead \in 0..MaxBytes /\ finalSizeKnown \in BOOLEAN
  /\ callback \in {"none", "credit", "done"}
  /\ newly \in [Readers \cup {"callback"} -> 0..MaxBytes]
  /\ credited \in 0..MaxBytes
  /\ pc \in [Readers -> {"idle", "read", "count", "credit", "error", "check", "wait", "close",
                         "remove"}]
  /\ err \in [Readers -> {"nil", "EOF", "timeout", "stream"}]
  /\ seen \in [Readers -> Deadlines]
  /\ cancel \in {"idle", "close", "remove", "done"}
  /\ sendSide \in {"open", "remove", "closed"}
  /\ sendSideClosed \in BOOLEAN /\ recvSideClosed \in BOOLEAN /\ removed \in BOOLEAN
  /\ session \in {"open", "canceled", "closed"}
  /\ deadline \in Deadlines /\ quicDeadline \in Deadlines
  /\ notifyCh \in {"nil", "empty", "full"}
  /\ setting \in {"no"} \cup NewDeadlines /\ sets \in 0..MaxSets

Init ==
  /\ taken = 0 /\ size = -1 /\ ended = "open" /\ code = 0
  /\ bytesRead = 0 /\ finalSizeKnown = FALSE /\ callback = "none"
  /\ newly = [g \in Readers \cup {"callback"} |-> 0]
  /\ credited = 0
  /\ pc = [r \in Readers |-> "idle"] /\ err = [r \in Readers |-> "nil"]
  /\ seen = [r \in Readers |-> "none"]
  /\ cancel = "idle" /\ recvSideClosed = FALSE /\ removed = FALSE /\ session = "open"
  /\ \/ sendSideClosed = TRUE /\ sendSide = "closed"
     \/ sendSideClosed = FALSE /\ sendSide = "open"
  /\ deadline = "none" /\ quicDeadline = "none" /\ notifyCh = "nil"
  /\ setting = "no" /\ sets = 0

-----------------------------------------------------------------------------
\* The peer ends the stream with FIN or RESET_STREAM.
PeerEnds(s, how, c) ==
  /\ size = -1 \/ (how = "reset" /\ ended = "fin" /\ s = size)
  /\ s >= taken
  /\ size' = s
  /\ IF ended = "canceled" THEN UNCHANGED <<ended, code>>
     ELSE ended' = how /\ code' = IF how = "reset" THEN c ELSE code
  /\ UNCHANGED <<taken, countVars, readVars, closeVars, deadlineVars, setVars>>

\* CancelRead of the QUIC stream.  It does nothing once EOF was read.
QUICCancelRead(c) ==
  \/ ended \in {"open", "fin"} /\ ended' = "canceled" /\ code' = c
  \/ ended \in {"reset", "canceled"} /\ UNCHANGED <<ended, code>>
  \/ ended = "fin" /\ taken = size /\ UNCHANGED <<ended, code>>

\* Read of the QUIC stream returns n bytes that arrived, an error, or both.
Errors == {"nil", "EOF", "stream", "timeout"}
Most == IF size = -1 THEN MaxBytes ELSE size
QUICRead(n, e) ==
  \/ e = "nil" /\ n > 0 /\ ended \in {"open", "fin"}
  \/ e = "EOF" /\ ended = "fin" /\ taken + n = size
  \/ e = "stream" /\ n = 0 /\ ended \in {"reset", "canceled"}
  \/ e = "timeout" /\ n = 0 /\ quicDeadline = "past"

-----------------------------------------------------------------------------
Go(r, position) == pc' = [pc EXCEPT ![r] = position]

Read(r) ==
  /\ pc[r] = "idle"
  /\ Go(r, "read")
  /\ UNCHANGED <<quicVars, countVars, err, seen, closeVars, deadlineVars, setVars>>

ReadQUIC(r, n, e) ==
  /\ pc[r] = "read"
  /\ QUICRead(n, e)
  /\ taken' = taken + n
  /\ newly' = [newly EXCEPT ![r] = n]
  /\ err' = [err EXCEPT ![r] = e]
  /\ Go(r, "count")
  /\ UNCHANGED <<size, ended, code, bytesRead, finalSizeKnown, callback, credited, seen, closeVars,
                 deadlineVars, setVars>>

\* Under flowControlMx: bytes below a known final size are already accounted for.
CountedAgain(n) == n
Counted(n) == IF finalSizeKnown THEN 0 ELSE n

CountBytes(r) ==
  /\ pc[r] = "count"
  /\ newly' = [newly EXCEPT ![r] = Counted(@)]
  /\ bytesRead' = bytesRead + Counted(newly[r])
  /\ Go(r, "credit")
  /\ UNCHANGED <<quicVars, finalSizeKnown, callback, credited, err, seen,
                 closeVars, deadlineVars, setVars>>

\* addBytesRead: if the flow controller of the session refuses the bytes, the
\* session is closed, which may happen at any time (closeWithSession).
addBytesRead(g) ==
  /\ newly' = [newly EXCEPT ![g] = 0]
  /\ credited' = credited + newly[g]

\* What Read does with the error.
AfterRead(e) ==
  CASE e \in {"nil", "timeout"}                           -> "idle"
    [] e = "stream" /\ code = WTSessionGoneErrorCode      -> "error"
    [] e = "EOF" \/ (e = "stream" /\ code # WTSessionGoneErrorCode) -> "close"

CreditBytes(r) ==
  /\ pc[r] = "credit"
  /\ addBytesRead(r)
  /\ Go(r, AfterRead(err[r]))
  /\ err' = [err EXCEPT ![r] = IF AfterRead(@) = "close" THEN @ ELSE "nil"]
  /\ UNCHANGED <<quicVars, bytesRead, finalSizeKnown, callback, seen, closeVars,
                 deadlineVars, setVars>>

\* onReceiveFinalSize accounts for the bytes that will not be read.
onReceiveFinalSize ==
  /\ \/ /\ callback = "none" /\ size # -1 /\ callback' = "credit"
        /\ newly' = [newly EXCEPT !["callback"] = size - bytesRead]
        /\ bytesRead' = size /\ finalSizeKnown' = TRUE
        /\ UNCHANGED credited
     \/ /\ callback = "credit" /\ callback' = "done"
        /\ addBytesRead("callback")
        /\ UNCHANGED <<bytesRead, finalSizeKnown>>
  /\ UNCHANGED <<quicVars, readVars, closeVars, deadlineVars, setVars>>

-----------------------------------------------------------------------------
\* handleSessionGoneError: wait for closeWithSession, or for the deadline.
StartWait(r) ==
  /\ pc[r] = "error"
  /\ notifyCh' = IF notifyCh = "nil" THEN "empty" ELSE notifyCh
  /\ Go(r, "check")
  /\ UNCHANGED <<quicVars, countVars, err, seen, closeVars, deadline, quicDeadline,
                 setVars>>

CheckDeadline(r) ==
  /\ pc[r] = "check"
  /\ \/ deadline = "past" /\ Go(r, "idle") /\ UNCHANGED seen
     \/ deadline # "past" /\ Go(r, "wait") /\ seen' = [seen EXCEPT ![r] = deadline]
  /\ UNCHANGED <<quicVars, countVars, err, closeVars, deadlineVars, setVars>>

DeadlineChanged(r) ==
  /\ pc[r] = "wait" /\ notifyCh = "full"
  /\ notifyCh' = "empty" /\ Go(r, "check") /\ seen' = [seen EXCEPT ![r] = "none"]
  /\ UNCHANGED <<quicVars, countVars, err, closeVars, deadline, quicDeadline, setVars>>

TimerFires(r) ==
  /\ pc[r] = "wait" /\ seen[r] = "past"
  /\ Go(r, "idle") /\ seen' = [seen EXCEPT ![r] = "none"]
  /\ UNCHANGED <<quicVars, countVars, err, closeVars, deadlineVars, setVars>>

SessionClosed(r) ==
  /\ pc[r] = "wait" /\ session = "closed"
  /\ Go(r, "close") /\ seen' = [seen EXCEPT ![r] = "none"]
  /\ UNCHANGED <<quicVars, countVars, err, closeVars, deadlineVars, setVars>>

-----------------------------------------------------------------------------
\* registerClose: whoever closes the second side takes the stream out of the map.
\* The flags are set and read under mx.
EitherClosed(other) == TRUE
BothClosed(other) == other

Returned(r) == err' = [err EXCEPT ![r] = "nil"]

ReadCloses(r) ==
  /\ pc[r] = "close"
  /\ recvSideClosed' = TRUE
  /\ IF BothClosed(sendSideClosed) THEN Go(r, "remove") /\ UNCHANGED err
                                   ELSE Go(r, "idle") /\ Returned(r)
  /\ UNCHANGED <<quicVars, countVars, seen, cancel, sendSide, sendSideClosed, removed, session,
                 deadlineVars, setVars>>

ReadRemoves(r) ==
  /\ pc[r] = "remove"
  /\ removed' = TRUE
  /\ Go(r, "idle") /\ Returned(r)
  /\ UNCHANGED <<quicVars, countVars, seen, cancel, sendSide, sendSideClosed, recvSideClosed,
                 session, deadlineVars, setVars>>

\* CancelRead, called once: a second call does nothing new.
CancelRead ==
  /\ \/ /\ cancel = "idle" /\ cancel' = "close"
        /\ \E c \in Codes : QUICCancelRead(webtransportCodeToHTTPCode(c))
        /\ UNCHANGED <<recvSideClosed, removed>>
     \/ /\ cancel = "close" /\ recvSideClosed' = TRUE
        /\ cancel' = IF BothClosed(sendSideClosed) THEN "remove" ELSE "done"
        /\ UNCHANGED <<ended, code, removed>>
     \/ /\ cancel = "remove" /\ cancel' = "done" /\ removed' = TRUE
        /\ UNCHANGED <<ended, code, recvSideClosed>>
  /\ UNCHANGED <<taken, size, countVars, readVars, sendSide, sendSideClosed, session,
                 deadlineVars, setVars>>

\* The send side of a bidirectional stream is closed.
SendSideCloses ==
  /\ \/ /\ sendSide = "open" /\ sendSideClosed' = TRUE
        /\ sendSide' = IF BothClosed(recvSideClosed) THEN "remove" ELSE "closed"
        /\ UNCHANGED removed
     \/ sendSide = "remove" /\ sendSide' = "closed" /\ removed' = TRUE /\ UNCHANGED sendSideClosed
  /\ UNCHANGED <<quicVars, countVars, readVars, cancel, recvSideClosed, session, deadlineVars,
                 setVars>>

\* closeWithSession, which the streams map calls for the streams it holds.
closeWithSession ==
  /\ \/ session = "open" /\ ~removed /\ QUICCancelRead(WTSessionGoneErrorCode) /\ session' = "canceled"
     \/ session = "canceled" /\ session' = "closed" /\ UNCHANGED <<ended, code>>
  /\ UNCHANGED <<taken, size, countVars, readVars, cancel, sendSide, sendSideClosed,
                 recvSideClosed, removed, deadlineVars, setVars>>

-----------------------------------------------------------------------------
\* SetReadDeadline: the part under deadlineMu, then the QUIC stream's deadline.
NotNotified == notifyCh
Notified == IF notifyCh = "nil" THEN "nil" ELSE "full"

SetReadDeadline(t) ==
  /\ \/ /\ setting = "no" /\ sets < MaxSets /\ setting' = t /\ sets' = sets + 1
        /\ deadline' = t /\ notifyCh' = Notified /\ UNCHANGED quicDeadline
     \/ /\ setting = t /\ setting' = "no" /\ quicDeadline' = t
        /\ UNCHANGED <<sets, deadline, notifyCh>>
  /\ UNCHANGED <<quicVars, countVars, readVars, closeVars>>

\* Time passes; the timers of waiting calls expire too.
Expired(d) == IF d = "soon" THEN "past" ELSE d
Expire ==
  /\ "soon" \in {deadline, quicDeadline} \cup {seen[r] : r \in Readers}
  /\ deadline' = Expired(deadline) /\ quicDeadline' = Expired(quicDeadline)
  /\ seen' = [r \in Readers |-> Expired(seen[r])]
  /\ UNCHANGED <<quicVars, countVars, pc, err, closeVars, notifyCh, setVars>>

ReaderStep(r) ==
  \/ (\E e \in Errors : ReadQUIC(r, 0, e)) \/ CountBytes(r) \/ CreditBytes(r) \/ ReadCloses(r) \/ ReadRemoves(r)
  \/ StartWait(r) \/ CheckDeadline(r) \/ DeadlineChanged(r) \/ TimerFires(r) \/ SessionClosed(r)

Next ==
  \/ onReceiveFinalSize \/ CancelRead \/ SendSideCloses \/ closeWithSession \/ Expire
  \/ \E s \in 0..MaxBytes, how \in {"fin", "reset"} : \E c \in Codes :
       PeerEnds(s, how, webtransportCodeToHTTPCode(c)) \/ PeerEnds(s, how, WTSessionGoneErrorCode)
  \/ \E r \in Readers :
       \/ Read(r) \/ ReaderStep(r)
       \/ \E n \in 1..(Most - taken), e \in Errors : ReadQUIC(r, n, e)
  \/ \E t \in NewDeadlines : SetReadDeadline(t)

Spec == Init /\ [][Next]_vars

\* Goroutines run once they have started, except that Read blocks until the peer
\* sends data, and the session's close runs once it has reached the stream.
\* Nothing is assumed about the peer and the application.
FairSpec ==
  /\ Spec
  /\ \A r \in Readers : WF_vars(ReaderStep(r))
  /\ WF_vars(cancel # "idle" /\ CancelRead) /\ WF_vars(sendSide # "open" /\ SendSideCloses)
  /\ WF_vars(session = "canceled" /\ closeWithSession)

-----------------------------------------------------------------------------
\* The number of bytes that the goroutines gs hold, of which g holds bytes[g].
Held(bytes, gs) == Cardinality(UNION {{g} \X (1..bytes[g]) : g \in gs})

\* Every byte is passed to the flow controller of the session exactly once, by
\* the Read that returned it or by the callback for the final size, whichever
\* locks flowControlMx first: no credit is lost, so that the session does not
\* stall, and none is counted twice, which would be a flow control error.
CreditedOnce ==
  LET uncounted == Held(newly, {r \in Readers : pc[r] = "count"})
      pending == Held(newly, {r \in Readers : pc[r] = "credit"} \cup {"callback"})
  IN  credited + pending = IF finalSizeKnown THEN size ELSE taken - uncounted

\* A Read that fails because the stream was canceled reports the code that the
\* application at either end passed to CancelWrite or CancelRead; a session that
\* was closed is never reported as an error code that cannot be converted.
CodeReported ==
  \A r \in Readers :
    pc[r] \in {"close", "remove"} /\ err[r] = "stream" =>
      /\ Convertible(code)
      /\ httpCodeToWebtransportCode(code) \in Codes

\* A stream is taken out of the streams map when, and only when, both its sides
\* are closed, whichever of them is closed last, or both at a time: one of the
\* goroutines that closed a side has done so or is about to.
RemovedWhenBothClosed ==
  (sendSideClosed /\ recvSideClosed)
    <=> removed \/ cancel = "remove" \/ sendSide = "remove" \/ \E r \in Readers : pc[r] = "remove"

\* A blocked Read returns when closeWithSession has run, and when the deadline
\* expires, also one that is set while it is blocked (lines 170-171).
ReadReleased ==
  \A r \in Readers :
    /\ session = "closed" ~> pc[r] = "idle"
    /\ (deadline = "past" /\ quicDeadline = "past") ~> (deadline # "past" \/ pc[r] = "idle")
=============================================================================
