----------------------- MODULE DataFlowControlProofs -----------------------
(***************************************************************************)
(* The two controllers of flow_control.go, for any number of writers, any  *)
(* window and any amount of data: they implement a credit window, report   *)
(* no flow control error, and lose no update.                              *)
(***************************************************************************)
EXTENDS DataFlowControl, TLAPS

Types ==
  /\ maxData \in Nat /\ bytesSent \in Nat /\ recvMaxData \in Nat /\ bytesRead \in Nat
  /\ inFlight \in Nat /\ updated \in Nat /\ capsules \in Seq(Nat)
  /\ pc \in [Writers -> {"next", "write", "blocked", "tell", "wait", "done"}]
  /\ todo \in [Writers -> Nat] /\ chan \in [Writers -> Nat]

\* The limits on their way to the sender increase, from the one it knows to the
\* one the receiver enforces.
CapsulesInv ==
  /\ maxData <= recvMaxData
  /\ \A i \in 1..Len(capsules) : maxData < capsules[i] /\ capsules[i] <= recvMaxData
  /\ \A i, j \in 1..Len(capsules) : i < j => capsules[i] < capsules[j]

\* A writer that found the limit reached holds a channel that the next update
\* closes, and there was no update since.
WaitersInv ==
  \A w \in Writers :
    /\ chan[w] <= updated
    /\ pc[w] \in {"blocked", "tell", "wait"} /\ chan[w] = updated => bytesSent >= maxData

Inv ==
  /\ Types /\ CapsulesInv /\ WaitersInv /\ WindowKept /\ NoFlowControlError
  /\ bytesSent <= maxData /\ bytesSent = bytesRead + inFlight

-----------------------------------------------------------------------------
\* Arithmetic of the window.
LEMMA Bounds ==
  ASSUME NEW a \in Nat, NEW b \in Nat, NEW c \in Nat, NEW d \in Nat, c - a <= d
  PROVE  a <= a + b /\ c <= a + d
  OBVIOUS

\* AddBytesSent: a writer sends up to the limit, and is blocked only if it is reached.
LEMMA SendStep ==
  ASSUME Inv, NEW w \in Writers, NEW n \in 1..todo[w], AddBytesSent(w, n)
  PROVE  Inv'
<1> DEFINE added == AddedBytes(n)
<1>1. n \in Nat /\ todo[w] \in Nat /\ n <= todo[w]
  BY DEF Inv, Types
<1>2. /\ added \in Nat /\ added <= n /\ bytesSent + added <= maxData
      /\ added < n => bytesSent + added >= maxData
  BY <1>1 DEF Inv, Types, AddedBytes, Least
<1>3. /\ bytesSent' = bytesSent + added /\ inFlight' = inFlight + added
      /\ todo' = [todo EXCEPT ![w] = @ - added]
      /\ pc' = [pc EXCEPT ![w] = CASE added = todo[w] -> "done"
                                   [] added # todo[w] /\ added < n -> "blocked"
                                   [] OTHER -> "write"]
      /\ UNCHANGED <<maxData, updated, chan, capsules, bytesRead, recvMaxData, failed>>
  BY DEF AddBytesSent, Go, recvVars
<1> HIDE DEF added
<1>4. Types'
  <2>1. todo[w] - added \in Nat
    BY <1>1, <1>2
  <2>2. todo' \in [Writers -> Nat]
    BY <1>3, <2>1 DEF Inv, Types
  <2>3. pc' \in [Writers -> {"next", "write", "blocked", "tell", "wait", "done"}]
    BY <1>3 DEF Inv, Types
  <2>4. bytesSent \in Nat /\ inFlight \in Nat
    BY DEF Inv, Types
  <2>5. bytesSent + added \in Nat /\ inFlight + added \in Nat
    BY <1>2, <2>4
  <2> QED
    BY <1>3, <2>2, <2>3, <2>5 DEF Inv, Types
<1>5. CapsulesInv' /\ WindowKept' /\ NoFlowControlError' /\ (bytesSent <= maxData)'
  BY <1>2, <1>3 DEF Inv, CapsulesInv, WindowKept, NoFlowControlError
<1>6. (bytesSent = bytesRead + inFlight)'
  BY <1>2, <1>3 DEF Inv, Types
<1>7. WaitersInv'
  <2>1. pc'[w] = "blocked" => bytesSent' >= maxData
    BY <1>1, <1>2, <1>3 DEF Inv, Types
  <2>2. pc'[w] \notin {"tell", "wait"}
    BY <1>3 DEF Inv, Types
  <2>3. \A v \in Writers \ {w} : pc'[v] = pc[v]
    BY <1>3 DEF Inv, Types
  <2>4. bytesSent' >= bytesSent
    BY <1>2, <1>3 DEF Inv, Types
  <2> QED
    BY <1>3, <2>1, <2>2, <2>3, <2>4 DEF Inv, Types, WaitersInv
<1> QED
  BY <1>4, <1>5, <1>6, <1>7 DEF Inv

\* UpdateMaxData: the limit received is higher than the one known, and every writer
\* that waits holds an earlier channel.
LEMMA UpdateStep ==
  ASSUME Inv, UpdateMaxData
  PROVE  Inv'
<1>1. /\ capsules \in Seq(Nat) /\ capsules # <<>> /\ capsules' = Tail(capsules)
      /\ Len(capsules) >= 1 /\ Head(capsules) = capsules[1]
  BY DEF Inv, Types, UpdateMaxData
<1>2. maxData < Head(capsules) /\ Head(capsules) <= recvMaxData /\ Head(capsules) \in Nat
  BY <1>1 DEF Inv, CapsulesInv
<1>3. /\ maxData' = Head(capsules) /\ updated' = updated + 1 /\ UNCHANGED failed
      /\ UNCHANGED <<bytesSent, pc, todo, chan, inFlight, bytesRead, recvMaxData>>
  BY <1>2 DEF UpdateMaxData, writerVars, recvVars, Inv, Types
<1>4. Types'
  BY <1>1, <1>2, <1>3 DEF Inv, Types
<1>5. CapsulesInv'
  <2>1. Len(capsules') = Len(capsules) - 1 /\ \A i \in 1..Len(capsules') : capsules'[i] = capsules[i + 1]
    BY <1>1
  <2>2. Len(capsules) \in Nat /\ Len(capsules') \in Nat
    BY <1>1
  <2>3. \A i \in 1..Len(capsules') : i + 1 \in 1..Len(capsules) /\ 1 < i + 1
    BY <2>1, <2>2
  <2>4. \A i \in 1..Len(capsules') : maxData' < capsules'[i] /\ capsules'[i] <= recvMaxData
    BY <1>1, <1>3, <2>1, <2>3 DEF Inv, CapsulesInv
  <2>5. \A i, j \in 1..Len(capsules') : i < j => capsules'[i] < capsules'[j]
    BY <2>1, <2>2, <2>3 DEF Inv, CapsulesInv
  <2> QED
    BY <1>2, <1>3, <2>4, <2>5 DEF CapsulesInv
<1>6. WaitersInv'
  BY <1>3 DEF Inv, Types, WaitersInv
<1>7. WindowKept' /\ NoFlowControlError' /\ (bytesSent <= maxData)' /\ (bytesSent = bytesRead + inFlight)'
  BY <1>2, <1>3 DEF Inv, Types, WindowKept, NoFlowControlError
<1> QED
  BY <1>4, <1>5, <1>6, <1>7 DEF Inv

\* AddBytesRead: what arrives is within the limit, and a new limit is the highest.
LEMMA ReceiveStep ==
  ASSUME Inv, NEW n \in 1..inFlight, AddBytesRead(n)
  PROVE  Inv' /\ bytesRead' = bytesRead + n /\ recvMaxData' >= recvMaxData
<1> DEFINE read == bytesRead + n
<1>1. n \in Nat /\ n >= 1 /\ n <= inFlight /\ read \in Nat
  BY DEF Inv, Types
<1>2. ~TooMuch(n)
  BY <1>1 DEF Inv, Types, CapsulesInv, TooMuch
<1>3. /\ inFlight' = inFlight - n /\ bytesRead' = read /\ UNCHANGED failed
      /\ UNCHANGED <<maxData, bytesSent, updated, pc, todo, chan>>
  BY <1>2 DEF AddBytesRead, sendVars, writerVars
<1>4. WaitersInv' /\ NoFlowControlError' /\ (bytesSent <= maxData)' /\ (bytesSent = bytesRead + inFlight)'
  BY <1>1, <1>3 DEF Inv, Types, WaitersInv, NoFlowControlError
<1>5. recvMaxData \in Nat /\ Window \in Nat /\ recvMaxData < read + Window
  BY <1>1, WindowAssumption DEF Inv, Types, WindowKept
<1>6. CASE UpdateDue(read) /\ NewLimit(read) # recvMaxData
  <2>1. recvMaxData' = read + Window /\ capsules' = Append(capsules, read + Window)
    BY <1>2, <1>6 DEF AddBytesRead, NewLimit
  <2>2. Types'
    BY <1>1, <1>3, <1>5, <2>1 DEF Inv, Types
  <2>3. WindowKept'
    BY <1>1, <1>3, <1>5, <2>1 DEF WindowKept
  <2>4. CapsulesInv'
    <3>1. /\ Len(capsules) \in Nat /\ Len(capsules') = Len(capsules) + 1
          /\ capsules'[Len(capsules) + 1] = read + Window
          /\ \A i \in 1..Len(capsules) : capsules'[i] = capsules[i] /\ capsules[i] \in Nat
      BY <1>1, <1>5, <2>1 DEF Inv, Types
    <3>2. \A i \in 1..Len(capsules) : maxData < capsules'[i] /\ capsules'[i] < read + Window
      <4>1. \A i \in 1..Len(capsules) : maxData < capsules[i] /\ capsules[i] <= recvMaxData
        BY DEF Inv, CapsulesInv
      <4> HIDE DEF read
      <4> QED
        BY <1>1, <1>5, <3>1, <4>1
    <3>3. maxData < read + Window
      BY <1>1, <1>5 DEF Inv, Types, CapsulesInv
    <3>4. \A i \in 1..Len(capsules') : i \in 1..Len(capsules) \/ i = Len(capsules) + 1
      BY <3>1
    <3>5. \A i \in 1..Len(capsules') : maxData' < capsules'[i] /\ capsules'[i] <= recvMaxData'
      BY <1>1, <1>3, <1>5, <2>1, <3>1, <3>2, <3>3, <3>4
    <3>6. \A i, j \in 1..Len(capsules') : i < j => capsules'[i] < capsules'[j]
      <4> SUFFICES ASSUME NEW i \in 1..Len(capsules'), NEW j \in 1..Len(capsules'), i < j
                   PROVE  capsules'[i] < capsules'[j]
        OBVIOUS
      <4>1. i \in 1..Len(capsules)
        BY <3>1
      <4>2. CASE j \in 1..Len(capsules)
        BY <3>1, <4>1, <4>2 DEF Inv, CapsulesInv
      <4>3. CASE j = Len(capsules) + 1
        BY <3>1, <3>2, <4>1, <4>3
      <4> QED
        BY <3>4, <4>2, <4>3
    <3>7. maxData' <= recvMaxData'
      BY <1>1, <1>3, <1>5, <2>1, <3>3 DEF Inv, Types
    <3> QED
      BY <3>5, <3>6, <3>7 DEF CapsulesInv
  <2> QED
    BY <1>3, <1>4, <1>5, <2>1, <2>2, <2>3, <2>4 DEF Inv
<1>7. CASE ~(UpdateDue(read) /\ NewLimit(read) # recvMaxData)
  <2>1. UNCHANGED <<recvMaxData, capsules>>
    BY <1>2, <1>7 DEF AddBytesRead
  <2>2. WindowKept'
    BY <1>1, <1>3, <1>5, <1>7, <2>1 DEF WindowKept, UpdateDue, NewLimit
  <2>3. Types' /\ CapsulesInv'
    BY <1>1, <1>3, <2>1 DEF Inv, Types, CapsulesInv
  <2> QED
    BY <1>3, <1>4, <1>5, <2>1, <2>2, <2>3 DEF Inv
<1> QED
  BY <1>6, <1>7

\* The steps of a writer that neither send nor receive.
LEMMA WaitStep ==
  ASSUME Inv, NEW w \in Writers,
         NextUpdate(w) \/ IsNewlyBlocked(w) \/ QueueDataBlocked(w) \/ WaitForUpdate(w) \/ GiveUp(w)
  PROVE  Inv' /\ UNCHANGED <<bytesSent, bytesRead, recvMaxData>>
<1>1. UNCHANGED <<maxData, bytesSent, updated, todo, inFlight, capsules, bytesRead, recvMaxData, failed>>
  BY DEF NextUpdate, IsNewlyBlocked, QueueDataBlocked, WaitForUpdate, GiveUp, sendVars, recvVars
<1>2. Types'
  BY <1>1 DEF Inv, Types, NextUpdate, IsNewlyBlocked, QueueDataBlocked, WaitForUpdate, GiveUp, Go,
              EarlierChan
<1>3. /\ CapsulesInv' /\ WindowKept' /\ NoFlowControlError'
      /\ (bytesSent <= maxData)' /\ (bytesSent = bytesRead + inFlight)'
  BY <1>1 DEF Inv, CapsulesInv, WindowKept, NoFlowControlError
<1>4. WaitersInv'
  <2> USE DEF Inv, Types, WaitersInv, Go
  <2>1. CASE NextUpdate(w)
    BY <1>1, <2>1 DEF NextUpdate
  <2>2. CASE IsNewlyBlocked(w)
    BY <1>1, <2>2 DEF IsNewlyBlocked, EarlierChan
  <2>3. CASE QueueDataBlocked(w) \/ WaitForUpdate(w) \/ GiveUp(w)
    BY <1>1, <2>3 DEF QueueDataBlocked, WaitForUpdate, GiveUp
  <2> QED
    BY <2>1, <2>2, <2>3
<1> QED
  BY <1>1, <1>2, <1>3, <1>4 DEF Inv

-----------------------------------------------------------------------------
\* Inv is an invariant of the two controllers and the writers.
THEOREM Invariance == Spec => []Inv
<1>1. Init => Inv
  BY WindowAssumption DEF Init, Inv, Types, CapsulesInv, WaitersInv, WindowKept, NoFlowControlError
<1>2. Inv /\ [Next]_vars => Inv'
  <2> SUFFICES ASSUME Inv, [Next]_vars PROVE Inv'
    OBVIOUS
  <2>1. CASE UNCHANGED vars
    BY <2>1 DEF vars, Inv, Types, CapsulesInv, WaitersInv, WindowKept, NoFlowControlError
  <2> QED
    BY <2>1, SendStep, UpdateStep, ReceiveStep, WaitStep DEF Next, WriterStep
<1> QED
  BY <1>1, <1>2, PTL DEF Spec

\* AddBytesRead and UpdateMaxData never fail between two ends that run this code.
THEOREM NoErrors == Spec => []NoFlowControlError
  BY Invariance, PTL DEF Inv

\* AddBytesRead: the receiver's commitment is at most the window and more than three
\* quarters of it.
THEOREM WindowInvariant == Spec => []WindowKept
  BY Invariance, PTL DEF Inv

\* waitForUpdate: a writer that waits for a channel that is still open cannot send.
THEOREM UpdatesKept == Spec => []NoLostUpdate
<1>1. Inv => NoLostUpdate
  BY DEF Inv, WaitersInv, NoLostUpdate
<1> QED
  BY <1>1, Invariance, PTL

\* AddBytesSent and AddBytesRead implement the credit window.
THEOREM Refinement == Spec => CreditImplemented
<1>1. Init => Credit!Init
  BY DEF Init, Credit!Init
<1>2. Inv /\ [Next]_vars => [Credit!Next]_(Credit!vars)
  <2> SUFFICES ASSUME Inv, [Next]_vars PROVE [Credit!Next]_(Credit!vars)
    OBVIOUS
  <2> USE DEF Credit!Next, Credit!vars, Credit!Use, Credit!Consume
  <2>1. ASSUME NEW w \in Writers, NEW n \in 1..todo[w], AddBytesSent(w, n)
        PROVE  [Credit!Next]_(Credit!vars)
    <3>1. Inv'
      BY <2>1, SendStep
    <3>2. /\ bytesSent' \in Nat /\ bytesSent \in Nat /\ bytesSent' <= recvMaxData' /\ recvMaxData' \in Nat
          /\ UNCHANGED <<recvMaxData, bytesRead>>
      BY <2>1, <3>1 DEF Inv, Types, CapsulesInv, AddBytesSent, recvVars
    <3>3. bytesSent' >= bytesSent
      BY <2>1 DEF AddBytesSent, AddedBytes, Least, Inv, Types
    <3> QED
      BY <3>2, <3>3
  <2>2. ASSUME NEW n \in 1..inFlight, AddBytesRead(n)
        PROVE  [Credit!Next]_(Credit!vars)
    <3>1. Inv' /\ bytesRead' = bytesRead + n /\ recvMaxData' >= recvMaxData
      BY <2>2, ReceiveStep
    <3>2. bytesSent' = bytesSent /\ n \in Nat /\ n >= 1
      BY <2>2 DEF AddBytesRead, sendVars, Inv, Types
    <3>3. bytesRead' <= bytesSent' /\ recvMaxData' <= bytesRead' + Window
      <4>1. /\ inFlight' \in Nat /\ bytesSent' \in Nat /\ bytesRead' \in Nat /\ recvMaxData' \in Nat
        BY <3>1 DEF Inv, Types
      <4>2. bytesSent' = bytesRead' + inFlight' /\ recvMaxData' - bytesRead' <= Window /\ Window \in Nat
        BY <3>1, WindowAssumption DEF Inv, WindowKept
      <4>3. bytesRead' <= bytesRead' + inFlight' /\ recvMaxData' <= bytesRead' + Window
        BY <4>1, <4>2, Bounds, Zenon
      <4> QED
        BY <4>2, <4>3
    <3>4. bytesRead \in Nat /\ bytesRead' > bytesRead
      BY <3>1, <3>2 DEF Inv, Types
    <3> QED
      BY <3>1, <3>2, <3>3, <3>4
  <2>3. CASE UpdateMaxData
    BY <2>3 DEF UpdateMaxData, recvVars
  <2>4. ASSUME NEW w \in Writers,
               NextUpdate(w) \/ IsNewlyBlocked(w) \/ QueueDataBlocked(w) \/ WaitForUpdate(w) \/ GiveUp(w)
        PROVE  [Credit!Next]_(Credit!vars)
    BY <2>4, WaitStep
  <2>5. CASE UNCHANGED vars
    BY <2>5 DEF vars
  <2> QED
    BY <2>1, <2>2, <2>3, <2>4, <2>5 DEF Next, WriterStep
<1> QED
  BY <1>1, <1>2, Invariance, PTL DEF Spec, CreditImplemented, Credit!Spec
-----------------------------------------------------------------------------
\* The limits in WT_DATA_BLOCKED, those that a writer is about to queue included,
\* are different from each other and at most lastBlockedAt.  They need not be queued
\* in increasing order.
Telling == {w \in Writers : pc[w] = "tell"}

BlockedInv ==
  /\ blocked \in Seq(Nat) /\ limit \in [Writers -> Nat]
  /\ lastBlockedAt \in Int /\ lastBlockedAt <= maxData
  /\ \A i \in 1..Len(blocked) : blocked[i] <= lastBlockedAt
  /\ \A w \in Telling : limit[w] <= lastBlockedAt
  /\ \A i, j \in 1..Len(blocked) : blocked[i] = blocked[j] => i = j
  /\ \A w \in Telling : \A i \in 1..Len(blocked) : blocked[i] # limit[w]
  /\ \A v, w \in Telling : limit[v] = limit[w] => v = w

\* lastBlockedAt was sent or is about to be, and is the limit that the writers wait
\* for.
ToldInv ==
  /\ \/ lastBlockedAt = -1
     \/ \E i \in 1..Len(blocked) : blocked[i] = lastBlockedAt
     \/ \E v \in Telling : limit[v] = lastBlockedAt
  /\ \A w \in Writers : pc[w] \in {"tell", "wait"} /\ chan[w] = updated => lastBlockedAt = maxData

\* What a step of writer w that leaves "tell" alone does to the writers that tell.
LEMMA TellingStays ==
  ASSUME Types, NEW w \in Writers, NEW position, position # "tell", pc[w] # "tell",
         pc' = [pc EXCEPT ![w] = position]
  PROVE  Telling' = Telling
  BY DEF Types, Telling

\* The writers that tell, when w begins to ...
LEMMA TellingBegins ==
  ASSUME Types, NEW w \in Writers, pc' = [pc EXCEPT ![w] = "tell"]
  PROVE  Telling' = Telling \cup {w}
  BY DEF Types, Telling

\* ... and when w has queued its capsule.
LEMMA TellingEnds ==
  ASSUME Types, NEW w \in Writers, pc' = [pc EXCEPT ![w] = "wait"]
  PROVE  Telling' = Telling \ {w}
  BY DEF Types, Telling

\* IsNewlyBlocked: a limit that is new is above lastBlockedAt.
LEMMA DecideStep ==
  ASSUME Inv, BlockedInv, NEW w \in Writers, IsNewlyBlocked(w), NewlyBlocked
  PROVE  BlockedInv'
<1>1. /\ pc[w] = "blocked" /\ pc' = [pc EXCEPT ![w] = "tell"]
      /\ lastBlockedAt' = maxData /\ limit' = [limit EXCEPT ![w] = maxData]
      /\ UNCHANGED <<blocked, maxData>> /\ lastBlockedAt # maxData
  BY DEF IsNewlyBlocked, NewlyBlocked, BlockedAt, Go
<1>2. Telling' = Telling \cup {w} /\ w \notin Telling
  BY <1>1, TellingBegins DEF Inv, Telling
<1>3. maxData \in Nat /\ lastBlockedAt \in Int /\ lastBlockedAt < maxData
  BY <1>1 DEF Inv, Types, BlockedInv
<1>4. /\ \A v \in Telling : limit'[v] = limit[v] /\ limit[v] \in Nat /\ limit[v] < maxData
      /\ limit'[w] = maxData
  BY <1>1, <1>2, <1>3 DEF BlockedInv, Telling
<1>5. \A i \in 1..Len(blocked) : blocked[i] \in Nat /\ blocked[i] < maxData
  BY <1>3 DEF BlockedInv
<1>6. limit' \in [Writers -> Nat]
  BY <1>1, <1>3 DEF BlockedInv
<1>7. /\ \A v \in Telling' : limit'[v] <= maxData
      /\ \A v \in Telling' : \A i \in 1..Len(blocked) : blocked[i] # limit'[v]
  BY <1>2, <1>3, <1>4, <1>5 DEF BlockedInv
<1>8. \A u, v \in Telling' : limit'[u] = limit'[v] => u = v
  BY <1>2, <1>3, <1>4 DEF BlockedInv
<1>9. \A i \in 1..Len(blocked) : blocked[i] <= maxData
  BY <1>3, <1>5
<1> QED
  BY <1>1, <1>3, <1>6, <1>7, <1>8, <1>9 DEF BlockedInv

\* The limit that a writer queues is one that was not queued before.
LEMMA QueueStep ==
  ASSUME Inv, BlockedInv, NEW w \in Writers, QueueDataBlocked(w)
  PROVE  BlockedInv'
<1>1. /\ pc[w] = "tell" /\ pc' = [pc EXCEPT ![w] = "wait"]
      /\ blocked' = Append(blocked, limit[w]) /\ UNCHANGED <<limit, lastBlockedAt, maxData>>
  BY DEF QueueDataBlocked, Go, sendVars
<1>2. w \in Telling /\ Telling' = Telling \ {w}
  BY <1>1, TellingEnds DEF Inv, Telling
<1>3. blocked \in Seq(Nat) /\ limit[w] \in Nat
  BY DEF BlockedInv
<1>4. /\ blocked' \in Seq(Nat) /\ Len(blocked') = Len(blocked) + 1 /\ Len(blocked) \in Nat
      /\ \A i \in 1..Len(blocked) : blocked'[i] = blocked[i]
      /\ blocked'[Len(blocked) + 1] = limit[w]
  BY <1>1, <1>3
<1>5. \A i \in 1..Len(blocked') : i \in 1..Len(blocked) \/ i = Len(blocked) + 1
  BY <1>4
<1>6. /\ limit[w] <= lastBlockedAt
      /\ \A i \in 1..Len(blocked) : blocked[i] # limit[w]
      /\ \A v \in Telling' : limit[v] # limit[w]
  BY <1>2 DEF BlockedInv
<1>7. /\ \A i \in 1..Len(blocked') : blocked'[i] <= lastBlockedAt
      /\ \A v \in Telling' : \A i \in 1..Len(blocked') : blocked'[i] # limit[v]
  BY <1>2, <1>4, <1>5, <1>6 DEF BlockedInv
<1>8. \A i, j \in 1..Len(blocked') : blocked'[i] = blocked'[j] => i = j
  BY <1>4, <1>5, <1>6 DEF BlockedInv
<1>9. /\ \A v \in Telling' : limit[v] <= lastBlockedAt
      /\ \A u, v \in Telling' : limit[u] = limit[v] => u = v
  BY <1>2 DEF BlockedInv
<1> QED
  BY <1>1, <1>4, <1>7, <1>8, <1>9 DEF BlockedInv

\* IsNewlyBlocked, the capsule that follows it and UpdateMaxData, in any order and by
\* any number of writers.
LEMMA BlockedStep == Inv /\ BlockedInv /\ [Next]_vars => BlockedInv'
<1> SUFFICES ASSUME Inv, BlockedInv, [Next]_vars PROVE BlockedInv'
  OBVIOUS
<1>0. maxData \in Nat /\ Types
  BY DEF Inv, Types
<1>a. ASSUME UNCHANGED <<blocked, limit, lastBlockedAt, maxData>>, Telling' = Telling PROVE BlockedInv'
  BY <1>a DEF BlockedInv
<1>1. ASSUME NEW w \in Writers, IsNewlyBlocked(w) PROVE BlockedInv'
  <2>1. CASE NewlyBlocked
    BY <1>1, <2>1, DecideStep
  <2>2. CASE ~NewlyBlocked
    <3>1. /\ UNCHANGED <<blocked, limit, lastBlockedAt, maxData>>
          /\ pc[w] # "tell" /\ pc' = [pc EXCEPT ![w] = "wait"]
      BY <1>1, <2>2 DEF IsNewlyBlocked, Go
    <3> QED
      BY <1>0, <1>a, <3>1, TellingStays
  <2> QED
    BY <2>1, <2>2
<1>2. CASE UpdateMaxData
  <2>1. Inv'
    BY <1>2, UpdateStep
  <2>2. UNCHANGED <<blocked, limit, lastBlockedAt, pc>> /\ maxData' \in Nat /\ maxData <= maxData'
    BY <1>0, <1>2, <2>1 DEF UpdateMaxData, writerVars, Inv, Types
  <2>3. Telling' = Telling
    BY <2>2 DEF Telling
  <2>4. lastBlockedAt' <= maxData'
    BY <1>0, <2>2 DEF BlockedInv
  <2> QED
    BY <2>2, <2>3, <2>4 DEF BlockedInv
<1>3. ASSUME NEW w \in Writers, NEW n \in 1..todo[w], AddBytesSent(w, n) PROVE BlockedInv'
  <2>1. /\ UNCHANGED <<blocked, limit, lastBlockedAt, maxData>> /\ pc[w] # "tell"
        /\ \E p \in {"done", "blocked", "write"} : pc' = [pc EXCEPT ![w] = p]
    BY <1>3 DEF AddBytesSent, Go
  <2> QED
    BY <1>0, <1>a, <2>1, TellingStays
<1>4. ASSUME NEW w \in Writers, NextUpdate(w) \/ WaitForUpdate(w) \/ GiveUp(w) PROVE BlockedInv'
  <2>1. /\ UNCHANGED <<blocked, limit, lastBlockedAt, maxData>> /\ pc[w] # "tell"
        /\ \E p \in {"done", "next", "write"} : pc' = [pc EXCEPT ![w] = p]
    BY <1>4 DEF NextUpdate, WaitForUpdate, GiveUp, Go, sendVars
  <2> QED
    BY <1>0, <1>a, <2>1, TellingStays
<1>5. ASSUME NEW w \in Writers, QueueDataBlocked(w) PROVE BlockedInv'
  BY <1>5, QueueStep
<1>6. CASE (\E n \in 1..inFlight : AddBytesRead(n)) \/ UNCHANGED vars
  <2>1. UNCHANGED <<blocked, limit, lastBlockedAt, maxData, pc>>
    BY <1>6 DEF AddBytesRead, sendVars, writerVars, vars
  <2> QED
    BY <1>a, <2>1 DEF Telling
<1> QED
  BY <1>1, <1>2, <1>3, <1>4, <1>5, <1>6 DEF Next, WriterStep

\* A writer starts to wait after IsNewlyBlocked; an update closes its channel.
LEMMA ToldStep == Inv /\ BlockedInv /\ ToldInv /\ [Next]_vars => ToldInv'
<1> SUFFICES ASSUME Inv, BlockedInv, ToldInv, [Next]_vars PROVE ToldInv'
  OBVIOUS
<1>0. maxData \in Nat /\ updated \in Nat /\ Types
  BY DEF Inv, Types
<1>a. ASSUME UNCHANGED <<blocked, limit, lastBlockedAt, maxData, updated>>, Telling' = Telling,
             \A w \in Writers : pc'[w] \in {"tell", "wait"} => pc[w] = pc'[w] /\ chan'[w] = chan[w]
      PROVE  ToldInv'
  BY <1>a DEF ToldInv
<1>1. ASSUME NEW w \in Writers, IsNewlyBlocked(w) PROVE ToldInv'
  <2>1. UNCHANGED <<maxData, updated, blocked>> /\ pc[w] = "blocked" /\ chan' = chan
    BY <1>0, <1>1 DEF IsNewlyBlocked, EarlierChan, Types
  <2>2. CASE NewlyBlocked
    <3>1. /\ lastBlockedAt' = maxData /\ limit' = [limit EXCEPT ![w] = maxData]
          /\ pc' = [pc EXCEPT ![w] = "tell"]
      BY <1>1, <2>2 DEF IsNewlyBlocked, BlockedAt, Go
    <3>2. w \in Telling' /\ limit'[w] = maxData
      BY <1>0, <3>1, TellingBegins DEF BlockedInv
    <3> QED
      BY <2>1, <3>1, <3>2 DEF ToldInv
  <2>3. CASE ~NewlyBlocked
    <3>1. UNCHANGED <<lastBlockedAt, limit>> /\ pc' = [pc EXCEPT ![w] = "wait"]
      BY <1>1, <2>3 DEF IsNewlyBlocked, Go
    <3>2. chan[w] = updated => lastBlockedAt = maxData
      BY <2>1, <2>3 DEF NewlyBlocked, Inv, WaitersInv
    <3>3. Telling' = Telling /\ \A v \in Writers : v = w \/ pc'[v] = pc[v]
      BY <1>0, <2>1, <3>1, TellingStays DEF Types
    <3> QED
      BY <2>1, <3>1, <3>2, <3>3 DEF ToldInv
  <2> QED
    BY <2>2, <2>3
<1>2. ASSUME NEW w \in Writers, QueueDataBlocked(w) PROVE ToldInv'
  <2>1. /\ pc[w] = "tell" /\ pc' = [pc EXCEPT ![w] = "wait"] /\ blocked' = Append(blocked, limit[w])
        /\ UNCHANGED <<limit, lastBlockedAt, maxData, updated, chan>>
    BY <1>2 DEF QueueDataBlocked, Go, sendVars
  <2>2. blocked \in Seq(Nat) /\ limit[w] \in Nat
    BY DEF BlockedInv
  <2>3. /\ \A i \in 1..Len(blocked) : i \in 1..Len(blocked') /\ blocked'[i] = blocked[i]
        /\ Len(blocked) + 1 \in 1..Len(blocked') /\ blocked'[Len(blocked) + 1] = limit[w]
    BY <2>1, <2>2
  <2>4. Telling' = Telling \ {w}
    BY <1>0, <2>1, TellingEnds
  <2>5. \/ lastBlockedAt = -1
        \/ \E i \in 1..Len(blocked') : blocked'[i] = lastBlockedAt
        \/ \E v \in Telling' : limit[v] = lastBlockedAt
    BY <2>3, <2>4 DEF ToldInv
  <2>6. \A v \in Writers : v = w \/ pc'[v] = pc[v]
    BY <1>0, <2>1 DEF Types
  <2>7. \A v \in Writers : pc'[v] \in {"tell", "wait"} /\ chan[v] = updated => lastBlockedAt = maxData
    BY <2>1, <2>6 DEF ToldInv
  <2> QED
    BY <2>1, <2>5, <2>7 DEF ToldInv
<1>3. CASE UpdateMaxData
  <2>1. UNCHANGED <<blocked, limit, lastBlockedAt, pc, chan>>
    BY <1>3 DEF UpdateMaxData, writerVars
  <2>2. Telling' = Telling
    BY <2>1 DEF Telling
  <2>3. CASE UNCHANGED <<maxData, updated>>
    BY <1>a, <2>1, <2>2, <2>3
  <2>4. CASE updated' = updated + 1
    <3>1. \A w \in Writers : chan'[w] # updated'
      BY <1>0, <2>1, <2>4 DEF Inv, WaitersInv, Types
    <3> QED
      BY <2>1, <2>2, <3>1 DEF ToldInv
  <2> QED
    BY <1>3, <2>3, <2>4 DEF UpdateMaxData
<1>4. ASSUME NEW w \in Writers, NEW n \in 1..todo[w], AddBytesSent(w, n) PROVE ToldInv'
  <2>1. /\ UNCHANGED <<blocked, limit, lastBlockedAt, maxData, updated, chan>> /\ pc[w] # "tell"
        /\ \E p \in {"done", "blocked", "write"} : pc' = [pc EXCEPT ![w] = p]
    BY <1>4 DEF AddBytesSent, Go
  <2>2. Telling' = Telling
    BY <1>0, <2>1, TellingStays
  <2> QED
    BY <1>0, <1>a, <2>1, <2>2 DEF Types
<1>5. ASSUME NEW w \in Writers, NextUpdate(w) \/ WaitForUpdate(w) \/ GiveUp(w) PROVE ToldInv'
  <2>1. /\ UNCHANGED <<blocked, limit, lastBlockedAt, maxData, updated>> /\ pc[w] # "tell"
        /\ \E p \in {"done", "next", "write"} : pc' = [pc EXCEPT ![w] = p]
        /\ \A v \in Writers : v # w => chan'[v] = chan[v]
    BY <1>0, <1>5 DEF NextUpdate, WaitForUpdate, GiveUp, Go, sendVars, Types
  <2>2. Telling' = Telling
    BY <1>0, <2>1, TellingStays
  <2> QED
    BY <1>0, <1>a, <2>1, <2>2 DEF Types
<1>6. CASE (\E n \in 1..inFlight : AddBytesRead(n)) \/ UNCHANGED vars
  <2>1. UNCHANGED <<blocked, limit, lastBlockedAt, maxData, updated, pc, chan>>
    BY <1>6 DEF AddBytesRead, sendVars, writerVars, vars
  <2> QED
    BY <1>a, <2>1 DEF Telling
<1> QED
  BY <1>1, <1>2, <1>3, <1>4, <1>5, <1>6 DEF Next, WriterStep

\* writeData: however many writers hit a limit, WT_DATA_BLOCKED is sent for it at most
\* once, and no writer waits for a limit that was not and is not about to be reported.
THEOREM BlockedReported == Spec => []BlockedOncePerLimit
<1>1. Init => BlockedInv
  <2> SUFFICES ASSUME Init PROVE BlockedInv
    OBVIOUS
  <2>1. blocked \in Seq(Nat) /\ Len(blocked) = 0 /\ limit \in [Writers -> Nat] /\ Telling = {}
    BY DEF Init, Telling
  <2>2. lastBlockedAt = -1 /\ maxData \in Nat
    BY WindowAssumption DEF Init
  <2> QED
    BY <2>1, <2>2 DEF BlockedInv
<1>2. Init => ToldInv
  BY DEF Init, ToldInv
<1>3. Inv /\ BlockedInv /\ ToldInv => BlockedOncePerLimit
  <2> SUFFICES ASSUME Inv, BlockedInv, ToldInv PROVE BlockedOncePerLimit
    OBVIOUS
  <2>1. \A i, j \in 1..Len(blocked) : blocked[i] = blocked[j] => i = j
    BY DEF BlockedInv
  <2>2. maxData # -1
    BY DEF Inv, Types
  <2>3. ASSUME NEW w \in Writers, pc[w] = "wait", chan[w] = updated
        PROVE  \/ \E i \in 1..Len(blocked) : blocked[i] = maxData
               \/ \E v \in Writers : pc[v] = "tell" /\ limit[v] = maxData
    BY <2>2, <2>3 DEF ToldInv, Telling
  <2> QED
    BY <2>1, <2>3 DEF BlockedOncePerLimit
<1> QED
  BY Invariance, BlockedStep, ToldStep, <1>1, <1>2, <1>3, PTL DEF Spec
=============================================================================
