-------------------------- MODULE DataFlowControl --------------------------
(***************************************************************************)
(* flow_control.go: the two controllers that limit the bytes sent on all   *)
(* streams of a session, one at each end, composed with the code that uses *)
(* them: writeData and waitForUpdate (send_stream.go) at the sending end,  *)
(* and the goroutine that reads capsules (session.go).                     *)
(*                                                                         *)
(* Each writer is a goroutine that writes Total bytes.  The channel        *)
(* `updated` that UpdateMaxData closes and replaces is a number.  QUIC and *)
(* the CONNECT stream deliver data and WT_MAX_DATA capsules reliably, the  *)
(* capsules in order; the receiving application reads in any portions.     *)
(***************************************************************************)
EXTENDS Integers, Sequences

CONSTANTS
  Writers,
  Window,  \* initial limit, from the settings of the receiving end
  Total    \* bound: bytes that each writer writes

ASSUME WindowAssumption == Window \in Nat \ {0} /\ Total \in Nat \ {0}

VARIABLES
  maxData, bytesSent, lastBlockedAt, updated,  \* outgoingDataFlowController
  pc, todo,   \* the writers, and the bytes they have yet to write
  chan,       \* the channel each writer got from NextUpdate
  limit,      \* the limit that IsNewlyBlocked returned to each writer
  blocked,    \* limits sent in WT_DATA_BLOCKED
  inFlight,   \* bytes sent and not yet read
  capsules,   \* WT_MAX_DATA capsules on their way to the sender
  bytesRead, recvMaxData,  \* incomingDataFlowController
  failed      \* a controller returned an error, which closes the session

vars == <<maxData, bytesSent, lastBlockedAt, updated, pc, todo, chan, limit, blocked,
          inFlight, capsules, bytesRead, recvMaxData, failed>>

sendVars == <<maxData, bytesSent, lastBlockedAt, updated>>
writerVars == <<pc, todo, chan, limit>>
recvVars == <<bytesRead, recvMaxData>>

TypeOK ==
  /\ maxData \in Nat /\ bytesSent \in Nat /\ updated \in Nat
  /\ lastBlockedAt \in -1..maxData
  /\ pc \in [Writers -> {"next", "write", "blocked", "tell", "wait", "done"}]
  /\ todo \in [Writers -> 0..Total]
  /\ chan \in [Writers -> 0..updated] /\ limit \in [Writers -> 0..maxData]
  /\ blocked \in Seq(Nat) /\ capsules \in Seq(Nat)
  /\ inFlight \in Nat /\ bytesRead \in Nat /\ recvMaxData \in Nat
  /\ failed \in BOOLEAN

Init ==
  /\ maxData = Window /\ bytesSent = 0 /\ lastBlockedAt = -1 /\ updated = 0
  /\ pc = [w \in Writers |-> "next"]
  /\ todo = [w \in Writers |-> Total]
  /\ chan = [w \in Writers |-> 0] /\ limit = [w \in Writers |-> 0]
  /\ blocked = <<>> /\ capsules = <<>>
  /\ inFlight = 0 /\ bytesRead = 0 /\ recvMaxData = Window /\ failed = FALSE

-----------------------------------------------------------------------------
Go(w, position) == pc' = [pc EXCEPT ![w] = position]
Least(a, b) == IF a <= b THEN a ELSE b

NextUpdate(w) ==
  /\ pc[w] = "next"
  /\ chan' = [chan EXCEPT ![w] = updated]
  /\ Go(w, "write")
  /\ UNCHANGED <<sendVars, todo, limit, blocked, inFlight, capsules, recvVars, failed>>

\* How many of n bytes may be sent.
AllBytes(n) == n
AddedBytes(n) == IF bytesSent < maxData THEN Least(n, maxData - bytesSent) ELSE 0

\* WriteWithLimit asks for the n bytes of a packet at a time, and returns
\* ErrWriteLimitReached when it gets less.
AddBytesSent(w, n) ==
  LET added == AddedBytes(n)
  IN  /\ pc[w] = "write"
      /\ bytesSent' = bytesSent + added
      /\ inFlight' = inFlight + added
      /\ todo' = [todo EXCEPT ![w] = @ - added]
      /\ Go(w, CASE added = todo[w] -> "done"
                 [] added # todo[w] /\ added < n -> "blocked"
                 [] OTHER -> "write")
      /\ UNCHANGED <<maxData, lastBlockedAt, updated, chan, limit, blocked, capsules,
                     recvVars, failed>>

\* The channel that a blocked writer waits for was obtained before it wrote.
LatestChan(w) == updated
EarlierChan(w) == chan[w]

NewlyBlockedAgain == bytesSent >= maxData
NewlyBlocked == bytesSent >= maxData /\ maxData # lastBlockedAt
BlockedAt == maxData

\* The controller is locked for the decision only ...
IsNewlyBlocked(w) ==
  /\ pc[w] = "blocked"
  /\ \/ NewlyBlocked /\ lastBlockedAt' = BlockedAt /\ limit' = [limit EXCEPT ![w] = maxData]
        /\ Go(w, "tell")
     \/ ~NewlyBlocked /\ Go(w, "wait") /\ UNCHANGED <<lastBlockedAt, limit>>
  /\ chan' = [chan EXCEPT ![w] = EarlierChan(w)]
  /\ UNCHANGED <<maxData, bytesSent, updated, todo, blocked, inFlight, capsules, recvVars,
                 failed>>

\* ... and the writer queues WT_DATA_BLOCKED after that.
QueueDataBlocked(w) ==
  /\ pc[w] = "tell" /\ Go(w, "wait")
  /\ blocked' = Append(blocked, limit[w])
  /\ UNCHANGED <<sendVars, todo, chan, limit, inFlight, capsules, recvVars, failed>>

\* waitForUpdate returns when the channel is closed, and then writeData starts
\* over.
WaitForUpdate(w) ==
  /\ pc[w] = "wait" /\ chan[w] # updated
  /\ Go(w, "next")
  /\ UNCHANGED <<sendVars, todo, chan, limit, blocked, inFlight, capsules, recvVars, failed>>

\* WriteWithLimit or waitForUpdate returns an error: the stream is cancelled, or
\* the deadline has expired.
GiveUp(w) ==
  /\ pc[w] \in {"write", "wait"}
  /\ Go(w, "done")
  /\ UNCHANGED <<sendVars, todo, chan, limit, blocked, inFlight, capsules, recvVars, failed>>

\* A WT_MAX_DATA capsule is received.  A limit that does not increase is an error.
UpdateMaxData ==
  /\ capsules # <<>> /\ capsules' = Tail(capsules)
  /\ IF Head(capsules) <= maxData
     THEN failed' = TRUE /\ UNCHANGED <<maxData, updated>>
     ELSE maxData' = Head(capsules) /\ updated' = updated + 1 /\ UNCHANGED failed
  /\ UNCHANGED <<bytesSent, lastBlockedAt, writerVars, blocked, inFlight, recvVars>>

-----------------------------------------------------------------------------
TooMuchOneEarly(n) == n >= recvMaxData - bytesRead
TooMuch(n) == n > recvMaxData - bytesRead

\* The limit is left alone until a quarter of the window has been consumed.
UpdateDueTooLate(read) == recvMaxData - read < 0
UpdateDueOneLate(read) == recvMaxData - read < Window - Window \div 4
UpdateDue(read) == recvMaxData - read <= Window - Window \div 4

NewLimit(read) == read + Window

AddBytesRead(n) ==
  LET read == bytesRead + n
  IN  /\ inFlight' = inFlight - n
      /\ IF TooMuch(n)
         THEN failed' = TRUE /\ UNCHANGED <<recvVars, capsules>>
         ELSE /\ bytesRead' = read
              /\ IF UpdateDue(read) /\ NewLimit(read) # recvMaxData
                 THEN /\ recvMaxData' = NewLimit(read)
                      /\ capsules' = Append(capsules, NewLimit(read))
                 ELSE UNCHANGED <<recvMaxData, capsules>>
              /\ UNCHANGED failed
      /\ UNCHANGED <<sendVars, writerVars, blocked>>

WriterStep(w) ==
  \/ NextUpdate(w) \/ IsNewlyBlocked(w) \/ QueueDataBlocked(w) \/ WaitForUpdate(w)
  \/ \E n \in 1..todo[w] : AddBytesSent(w, n)

Next ==
  \/ \E w \in Writers : WriterStep(w) \/ GiveUp(w)
  \/ UpdateMaxData
  \/ \E n \in 1..inFlight : AddBytesRead(n)

Spec == Init /\ [][Next]_vars

\* Writers run, capsules are delivered and processed, and the receiving
\* application keeps reading.
FairSpec ==
  /\ Spec
  /\ \A w \in Writers : WF_vars(WriterStep(w))
  /\ WF_vars(UpdateMaxData) /\ WF_vars(\E n \in 1..inFlight : AddBytesRead(n))

-----------------------------------------------------------------------------
\* The two controllers implement a credit window: the sender never exceeds what the
\* receiver granted (AddBytesSent), with any number of streams writing at a
\* time, and the receiver grants at most Window bytes beyond those that
\* were read (AddBytesRead), and never takes credit back.
Credit == INSTANCE CreditWindow WITH granted <- recvMaxData, used <- bytesSent, consumed <- bytesRead
CreditImplemented == Credit!Spec

\* Two endpoints that run this code never report a flow control error to each
\* other: the receiver never sees more than it allowed, and WT_MAX_DATA always
\* increases the limit.
NoFlowControlError == ~failed

\* The receiver's commitment is at most the window, and it never lets the
\* sender's credit fall to three quarters of it or less.
WindowKept ==
  /\ recvMaxData - bytesRead <= Window
  /\ recvMaxData - bytesRead = Window \/ recvMaxData - bytesRead > Window - Window \div 4

\* No lost update: a writer that waits for a channel that is still open cannot
\* send anything, because it got the channel before it found the limit reached.
NoLostUpdate ==
  \A w \in Writers : pc[w] = "wait" /\ chan[w] = updated => bytesSent >= maxData

\* WT_DATA_BLOCKED is sent at most once for each limit, by one of the blocked
\* writers; and it has been sent for the limit that a writer waits for, or one of
\* them is about to send it, although the limit may change between the write that
\* failed, IsNewlyBlocked, and the capsule.
BlockedOncePerLimit ==
  /\ \A i, j \in 1..Len(blocked) : blocked[i] = blocked[j] => i = j
  /\ \A w \in Writers : pc[w] = "wait" /\ chan[w] = updated =>
       \/ \E i \in 1..Len(blocked) : blocked[i] = maxData
       \/ \E v \in Writers : pc[v] = "tell" /\ limit[v] = maxData

\* A Write returns: the quarter-window rule never leaves both ends waiting.
WritesFinish == \A w \in Writers : <>(pc[w] = "done")
=============================================================================
