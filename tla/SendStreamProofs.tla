-------------------------- MODULE SendStreamProofs --------------------------
(***************************************************************************)
(* The header of a send stream is sent once, before the data, and reaches  *)
(* the peer when the stream is closed or canceled: for any number of       *)
(* goroutines that Write and any number of deadlines.                      *)
(***************************************************************************)
EXTENDS SendStream, TLAPS

\* What is left of the header, with the Writes or with the goroutine.
Left == streamHdr + asyncHdr

\* Who may send: writeErr moves the header from the Writes to the goroutine, and
\* only a Write that holds streamHdrMu sends its units.
OwnerInv ==
  /\ writeErr => streamHdr = 0 /\ hdrMu = "free"
  /\ ~writeErr => asyncHdr = 0 /\ asyncPC = "none"
  /\ \A w \in Writers : pc[w] = "header" <=> hdrMu = w
  /\ \A w \in Writers : pc[w] \in {"data", "limit", "check", "wait"} => ~writeErr /\ streamHdr = 0
  /\ \A f \in Finishers : finish[f] \in {"first", "second"} =>
       ~writeErr /\ streamHdr = 0 /\ hdrMu = "free"

\* What is on the wire is as long as the header that was taken from Left.
WireInv ==
  /\ Left > 0 => Len(wire) + Left = HeaderLen
  /\ Left = 0 => Len(wire) >= HeaderLen
  /\ HeaderFirst

Inv == TypeOK /\ OwnerInv /\ WireInv

\* Where the stream may be closed or reset by the application, the header is sent
\* and the boundary covers it, unless the stream was reset before.
SentInv ==
  /\ sendState # "canceled" <=> by = "nobody"
  /\ sendState = "open" /\ ~writeErr /\ streamHdr = 0 /\ hdrMu = "free" => boundary >= HeaderLen
  /\ asyncPC \in {"header", "end"} /\ ~lateDeadline => quicDeadline = "none"
  /\ asyncPC = "end" /\ ~lateDeadline /\ sendState = "open" =>
       asyncHdr = 0 /\ boundary >= HeaderLen
  /\ HeaderDelivered

-----------------------------------------------------------------------------
\* Every action keeps the variables in their types.
LEMMA TypeStep ==
  ASSUME TypeOK, [Next]_vars
  PROVE  TypeOK'
<1> USE BoundsAssumption DEF TypeOK, HeaderLen, DATA, Finishers, Deadlines, Go, Forget, hdrVars, asyncVars, deadlineVars, setVars, quicVars
<1>e. ASSUME NEW e \in Errors
      PROVE  AfterError(e) \in {"idle", "gone", "fail"}
  BY <1>e DEF Errors, AfterError
<1>1. ASSUME NEW w \in Writers, Write(w) PROVE TypeOK'
  BY <1>1 DEF Write
<1>2. ASSUME NEW w \in Writers, WriteLock(w) PROVE TypeOK'
  BY <1>2 DEF WriteLock
<1>3. ASSUME NEW w \in Writers, HeaderUnit(w) PROVE TypeOK'
  BY <1>3 DEF HeaderUnit, NextUnit, Writable
<1>4. ASSUME NEW w \in Writers, HeaderReturns(w) PROVE TypeOK'
  BY <1>4, <1>e DEF HeaderReturns, SetReliableBoundary
<1>5. ASSUME NEW w \in Writers, WriteData(w) PROVE TypeOK'
  BY <1>5 DEF WriteData
<1>6. ASSUME NEW w \in Writers, LimitReached(w) PROVE TypeOK'
  BY <1>6 DEF LimitReached
<1>7. ASSUME NEW w \in Writers, DataFails(w) PROVE TypeOK'
  BY <1>7, <1>e DEF DataFails
<1>8. ASSUME NEW w \in Writers, WriteEnds(w) PROVE TypeOK'
  BY <1>8 DEF WriteEnds
<1>9. ASSUME NEW w \in Writers, NEW k \in Waits, StartWait(w, k) PROVE TypeOK'
  BY <1>9 DEF StartWait, Waits, Check
<1>10. ASSUME NEW w \in Writers, NEW k \in Waits, CheckDeadline(w, k) PROVE TypeOK'
  BY <1>10 DEF CheckDeadline, Waits, Wait
<1>11. ASSUME NEW w \in Writers, NEW k \in Waits, DeadlineChanged(w, k) PROVE TypeOK'
  BY <1>11 DEF DeadlineChanged, Waits, Check
<1>12. ASSUME NEW w \in Writers, NEW k \in Waits, TimerFires(w, k) PROVE TypeOK'
  BY <1>12 DEF TimerFires
<1>13. ASSUME NEW w \in Writers, StreamDone(w) PROVE TypeOK'
  BY <1>13, <1>e DEF StreamDone
<1>14. ASSUME NEW w \in Writers, Updated(w) PROVE TypeOK'
  BY <1>14 DEF Updated
<1>15. ASSUME NEW w \in Writers, SessionClosed(w) PROVE TypeOK'
  BY <1>15 DEF SessionClosed
<1>16. ASSUME NEW f \in Finishers, FinishLock(f) PROVE TypeOK'
  <2>1. /\ streamHdr' \in 0..HeaderLen /\ asyncHdr' \in 0..HeaderLen /\ writeErr' \in BOOLEAN
        /\ asyncPC' \in {"none", "clear", "clearQUIC", "header", "end", "remove"}
        /\ asyncOp' \in Finishers
    <3>1. CASE HandOver(f)
      BY <3>1 DEF HandOver
    <3>2. CASE UNCHANGED <<streamHdr, writeErr, asyncVars>>
      BY <3>2
    <3> QED
      BY <1>16, <3>1, <3>2 DEF FinishLock
  <2>2. finish' \in [Finishers -> {"idle", "first", "second", "done"}]
    BY <1>16 DEF FinishLock
  <2> QED
    BY <1>16, <2>1, <2>2 DEF FinishLock
<1>17. ASSUME NEW f \in Finishers, FinishStream(f) PROVE TypeOK'
  BY <1>17 DEF FinishStream, FinishQUIC, Reset
<1>18. ASSUME NEW f \in Finishers, FinishRemove(f) PROVE TypeOK'
  BY <1>18 DEF FinishRemove
<1>19. ASSUME NEW t \in {"none", "soon"}, SetWriteDeadline(t) PROVE TypeOK'
  BY <1>19 DEF SetWriteDeadline, Notified
<1>20. CASE SetQUICDeadline
  BY <1>20 DEF SetQUICDeadline
<1>21. CASE Expire
  BY <1>21 DEF Expire, Expired
<1>22. CASE AsyncClear
  BY <1>22 DEF AsyncClear, Notified, NoDeadline
<1>23. CASE AsyncUnit
  BY <1>23 DEF AsyncUnit, NextUnit, Writable
<1>24. CASE AsyncBoundary
  BY <1>24 DEF AsyncBoundary, SetReliableBoundary
<1>25. CASE AsyncEnd
  BY <1>25 DEF AsyncEnd, FinishQUIC, Reset
<1>26. CASE AsyncRemove
  BY <1>26 DEF AsyncRemove, Removed
<1>27. CASE closeWithSession
  BY <1>27 DEF closeWithSession, Reset
<1>28. ASSUME NEW who \in {"peer", "peerGone"}, PeerStops(who) PROVE TypeOK'
  BY <1>28 DEF PeerStops, Reset
<1>29. CASE UNCHANGED vars
  BY <1>29 DEF vars
<1> QED
  BY <1>1, <1>2, <1>3, <1>4, <1>5, <1>6, <1>7, <1>8, <1>9, <1>10, <1>11, <1>12, <1>13, <1>14, <1>15, <1>16, <1>17, <1>18, <1>19, <1>20, <1>21, <1>22, <1>23, <1>24, <1>25, <1>26, <1>27, <1>28, <1>29
  DEF Next, WriterStep, FinishStep, AsyncStep

\* The header is with one owner at a time.
LEMMA OwnerStep ==
  ASSUME TypeOK, OwnerInv, [Next]_vars
  PROVE  OwnerInv'
<1> DEFINE sending == {"data", "limit", "check", "wait"}
<1> USE WritersAssumption DEF TypeOK, OwnerInv, Go, hdrVars, asyncVars
<1>e. ASSUME NEW e \in Errors
      PROVE  AfterError(e) \in {"idle", "gone", "fail"}
  BY <1>e DEF Errors, AfterError
<1>a. ASSUME NEW w \in Writers, NEW q, Go(w, q), UNCHANGED <<hdrVars, asyncPC, asyncHdr, finish>>,
             pc[w] # "header", q # "header", q \in sending => pc[w] \in sending
      PROVE  OwnerInv'
  BY <1>a
<1>b. ASSUME UNCHANGED <<hdrVars, asyncHdr, pc, finish>>, asyncPC' # "none" => writeErr
      PROVE  OwnerInv'
  BY <1>b
<1>1. ASSUME NEW w \in Writers, Write(w) PROVE OwnerInv'
  BY <1>1, <1>a DEF Write
<1>2. ASSUME NEW w \in Writers, WriteLock(w) PROVE OwnerInv'
  <2>1. CASE writeErr
    BY <1>2, <2>1, <1>a DEF WriteLock
  <2>2. CASE ~writeErr /\ streamHdr = 0
    BY <1>2, <2>2 DEF WriteLock, HeaderLen
  <2>3. CASE ~writeErr /\ streamHdr > 0
    <3>1. /\ hdrMu = "free" /\ hdrMu' = w /\ pc' = [pc EXCEPT ![w] = "header"]
          /\ UNCHANGED <<streamHdr, writeErr, asyncPC, asyncHdr, finish>>
      BY <1>2, <2>3 DEF WriteLock
    <3>2. \A f \in Finishers : finish[f] \notin {"first", "second"}
      BY <2>3
    <3>3. \A v \in Writers : pc'[v] = "header" <=> hdrMu' = v
      BY <3>1
    <3> QED
      BY <3>1, <3>2, <3>3, <2>3
  <2> QED
    BY <2>1, <2>2, <2>3 DEF HeaderLen
<1>3. ASSUME NEW w \in Writers, HeaderUnit(w) PROVE OwnerInv'
  <2>1. /\ hdrMu = w /\ ~writeErr /\ streamHdr' \in Nat /\ streamHdr > 0
        /\ UNCHANGED <<hdrMu, writeErr, pc, finish, asyncPC, asyncHdr>>
    BY <1>3 DEF HeaderUnit, HeaderLen
  <2> QED
    BY <2>1
<1>4. ASSUME NEW w \in Writers, HeaderReturns(w) PROVE OwnerInv'
  <2>1. /\ hdrMu = w /\ ~writeErr /\ hdrMu' = "free"
        /\ UNCHANGED <<streamHdr, writeErr, finish, asyncPC, asyncHdr>>
    BY <1>4 DEF HeaderReturns
  <2>2. PICK q \in {"data", "idle", "gone", "fail"} : Go(w, q) /\ (q = "data" => streamHdr = 0)
    BY <1>4, <1>e DEF HeaderReturns
  <2> QED
    BY <2>1, <2>2
<1>5. ASSUME NEW w \in Writers, WriteData(w) PROVE OwnerInv'
  BY <1>5, <1>a DEF WriteData
<1>6. ASSUME NEW w \in Writers, LimitReached(w) PROVE OwnerInv'
  BY <1>6, <1>a DEF LimitReached
<1>7. ASSUME NEW w \in Writers, DataFails(w) PROVE OwnerInv'
  BY <1>7, <1>a, <1>e DEF DataFails
<1>8. ASSUME NEW w \in Writers, WriteEnds(w) PROVE OwnerInv'
  BY <1>8, <1>a DEF WriteEnds
<1>9. ASSUME NEW w \in Writers, NEW k \in Waits, StartWait(w, k) PROVE OwnerInv'
  BY <1>9, <1>a DEF StartWait, Waits, Check
<1>10. ASSUME NEW w \in Writers, NEW k \in Waits, CheckDeadline(w, k) PROVE OwnerInv'
  BY <1>10, <1>a DEF CheckDeadline, Waits, Check, Wait
<1>11. ASSUME NEW w \in Writers, NEW k \in Waits, DeadlineChanged(w, k) PROVE OwnerInv'
  BY <1>11, <1>a DEF DeadlineChanged, Waits, Check, Wait
<1>12. ASSUME NEW w \in Writers, NEW k \in Waits, TimerFires(w, k) PROVE OwnerInv'
  BY <1>12, <1>a DEF TimerFires, Waits, Wait
<1>13. ASSUME NEW w \in Writers, StreamDone(w) PROVE OwnerInv'
  BY <1>13, <1>a, <1>e DEF StreamDone
<1>14. ASSUME NEW w \in Writers, Updated(w) PROVE OwnerInv'
  BY <1>14, <1>a DEF Updated
<1>15. ASSUME NEW w \in Writers, SessionClosed(w) PROVE OwnerInv'
  BY <1>15, <1>a DEF SessionClosed
<1>16. ASSUME NEW f \in Finishers, FinishLock(f) PROVE OwnerInv'
  <2>1. CASE ~writeErr /\ streamHdr > 0
    <3>1. /\ hdrMu = "free" /\ asyncPC' = "clear" /\ streamHdr' = 0 /\ writeErr' = TRUE
          /\ finish' = [finish EXCEPT ![f] = "done"] /\ UNCHANGED <<hdrMu, pc>>
      BY <1>16, <2>1 DEF FinishLock, HandOver
    <3>2. /\ \A g \in Finishers : finish[g] \notin {"first", "second"}
          /\ \A w \in Writers : pc[w] \notin sending
      BY <2>1
    <3> QED
      BY <3>1, <3>2
  <2>2. CASE writeErr \/ streamHdr = 0
    <3>1. /\ hdrMu = "free" /\ UNCHANGED <<streamHdr, writeErr, asyncPC, asyncHdr, hdrMu, pc>>
          /\ finish' = [finish EXCEPT ![f] = IF writeErr THEN "done" ELSE "first"]
      BY <1>16, <2>2 DEF FinishLock
    <3> QED
      BY <3>1, <2>2
  <2> QED
    BY <2>1, <2>2 DEF HeaderLen
<1>17. ASSUME NEW f \in Finishers, FinishStream(f) PROVE OwnerInv'
  BY <1>17 DEF FinishStream
<1>18. ASSUME NEW f \in Finishers, FinishRemove(f) PROVE OwnerInv'
  BY <1>18 DEF FinishRemove
<1>19. ASSUME NEW t \in {"none", "soon"}, SetWriteDeadline(t) PROVE OwnerInv'
  BY <1>19, <1>b DEF SetWriteDeadline
<1>20. CASE SetQUICDeadline
  BY <1>20, <1>b DEF SetQUICDeadline
<1>21. CASE Expire
  BY <1>21, <1>b DEF Expire
<1>22. CASE AsyncClear
  BY <1>22, <1>b DEF AsyncClear
<1>23. CASE AsyncUnit
  BY <1>23 DEF AsyncUnit
<1>24. CASE AsyncBoundary
  BY <1>24, <1>b DEF AsyncBoundary
<1>25. CASE AsyncEnd
  BY <1>25, <1>b DEF AsyncEnd
<1>26. CASE AsyncRemove
  BY <1>26, <1>b DEF AsyncRemove
<1>27. CASE closeWithSession
  BY <1>27, <1>b DEF closeWithSession
<1>28. ASSUME NEW who \in {"peer", "peerGone"}, PeerStops(who) PROVE OwnerInv'
  BY <1>28, <1>b DEF PeerStops
<1>29. CASE UNCHANGED vars
  BY <1>29, <1>b DEF vars
<1> QED
  BY <1>1, <1>2, <1>3, <1>4, <1>5, <1>6, <1>7, <1>8, <1>9, <1>10, <1>11, <1>12, <1>13, <1>14, <1>15, <1>16, <1>17, <1>18, <1>19, <1>20,
     <1>21, <1>22, <1>23, <1>24, <1>25, <1>26, <1>27, <1>28, <1>29
  DEF Next, WriterStep, FinishStep, AsyncStep

-----------------------------------------------------------------------------
\* The next unit of the header goes where the peer expects it ...
LEMMA HeaderUnitFits ==
  ASSUME TypeOK, HeaderFirst, NEW left \in 1..HeaderLen, Len(wire) + left = HeaderLen,
         wire' = NextUnit(left)
  PROVE  HeaderFirst' /\ Len(wire') = Len(wire) + 1
  BY DEF TypeOK, HeaderFirst, NextUnit, HeaderLen, DATA

\* ... and so does a unit of data once the header is complete.
LEMMA DataUnitFits ==
  ASSUME TypeOK, HeaderFirst, Len(wire) >= HeaderLen, wire' = Append(wire, DATA)
  PROVE  HeaderFirst' /\ Len(wire') = Len(wire) + 1
  BY DEF TypeOK, HeaderFirst, HeaderLen, DATA

\* Every unit is the next one.
LEMMA WireStep ==
  ASSUME TypeOK, OwnerInv, WireInv, [Next]_vars
  PROVE  WireInv'
<1> USE DEF TypeOK
<1>a. ASSUME UNCHANGED <<streamHdr, asyncHdr, wire>>
      PROVE  WireInv'
  BY <1>a DEF WireInv, Left, HeaderFirst
<1> USE DEF hdrVars, asyncVars, quicVars
<1>1. ASSUME NEW w \in Writers, HeaderUnit(w) PROVE WireInv'
  <2>1. /\ asyncHdr = 0 /\ streamHdr \in 1..HeaderLen /\ wire' = NextUnit(streamHdr)
        /\ streamHdr' = streamHdr - 1 /\ asyncHdr' = asyncHdr
    BY <1>1 DEF HeaderUnit, OwnerInv, HeaderLen
  <2>2. Len(wire) + streamHdr = HeaderLen /\ HeaderFirst
    BY <2>1 DEF WireInv, Left, HeaderLen
  <2>3. HeaderFirst' /\ Len(wire') = Len(wire) + 1
    BY <2>1, <2>2, HeaderUnitFits
  <2> QED
    BY <2>1, <2>2, <2>3 DEF WireInv, Left, HeaderLen
<1>2. ASSUME NEW w \in Writers, WriteData(w) PROVE WireInv'
  <2>1. streamHdr = 0 /\ asyncHdr = 0 /\ wire' = Append(wire, DATA)
    BY <1>2 DEF WriteData, OwnerInv
  <2>2. Len(wire) >= HeaderLen /\ HeaderFirst
    BY <2>1 DEF WireInv, Left
  <2>3. HeaderFirst' /\ Len(wire') = Len(wire) + 1
    BY <2>1, <2>2, DataUnitFits
  <2>4. UNCHANGED <<streamHdr, asyncHdr>>
    BY <1>2 DEF WriteData
  <2> QED
    BY <2>1, <2>2, <2>3, <2>4 DEF WireInv, Left, HeaderLen
<1>3. CASE AsyncUnit
  <2>1. /\ streamHdr = 0 /\ asyncHdr \in 1..HeaderLen /\ wire' = NextUnit(asyncHdr)
        /\ asyncHdr' = asyncHdr - 1 /\ streamHdr' = streamHdr
    BY <1>3 DEF AsyncUnit, OwnerInv, HeaderLen
  <2>2. Len(wire) + asyncHdr = HeaderLen /\ HeaderFirst
    BY <2>1 DEF WireInv, Left, HeaderLen
  <2>3. HeaderFirst' /\ Len(wire') = Len(wire) + 1
    BY <2>1, <2>2, HeaderUnitFits
  <2> QED
    BY <2>1, <2>2, <2>3 DEF WireInv, Left, HeaderLen
<1>4. ASSUME NEW f \in Finishers, FinishLock(f) PROVE WireInv'
  <2>1. CASE HandOver(f) /\ ~writeErr
    <3>1. asyncHdr = 0 /\ asyncHdr' = streamHdr /\ streamHdr' = 0 /\ wire' = wire
      BY <1>4, <2>1 DEF FinishLock, HandOver, OwnerInv
    <3>2. Left' = Left
      BY <3>1 DEF Left, HeaderLen
    <3> QED
      BY <3>1, <3>2 DEF WireInv, HeaderFirst
  <2>2. CASE UNCHANGED <<streamHdr, writeErr, asyncVars>>
    BY <1>4, <2>2, <1>a DEF FinishLock
  <2> QED
    BY <1>4, <2>1, <2>2 DEF FinishLock
<1>5. ASSUME NEW w \in Writers,
             Write(w) \/ WriteLock(w) \/ HeaderReturns(w) \/ LimitReached(w) \/ DataFails(w)
             \/ WriteEnds(w) \/ StreamDone(w) \/ Updated(w) \/ SessionClosed(w)
      PROVE  WireInv'
  BY <1>5, <1>a DEF Write, WriteLock, HeaderReturns, LimitReached, DataFails, WriteEnds, StreamDone,
                    Updated, SessionClosed
<1>6. ASSUME NEW w \in Writers, NEW k \in Waits,
             StartWait(w, k) \/ CheckDeadline(w, k) \/ DeadlineChanged(w, k) \/ TimerFires(w, k)
      PROVE  WireInv'
  BY <1>6, <1>a DEF StartWait, CheckDeadline, DeadlineChanged, TimerFires
<1>7. ASSUME NEW f \in Finishers, FinishStream(f) \/ FinishRemove(f) PROVE WireInv'
  BY <1>7, <1>a DEF FinishStream, FinishRemove
<1>8. CASE AsyncClear \/ AsyncBoundary \/ AsyncEnd \/ AsyncRemove
  BY <1>8, <1>a DEF AsyncClear, AsyncBoundary, AsyncEnd, AsyncRemove
<1>9. ASSUME NEW t \in {"none", "soon"}, SetWriteDeadline(t) PROVE WireInv'
  BY <1>9, <1>a DEF SetWriteDeadline
<1>10. CASE SetQUICDeadline \/ Expire \/ closeWithSession \/ UNCHANGED vars
  BY <1>10, <1>a DEF SetQUICDeadline, Expire, closeWithSession, vars
<1>11. ASSUME NEW who \in {"peer", "peerGone"}, PeerStops(who) PROVE WireInv'
  BY <1>11, <1>a DEF PeerStops
<1> QED
  BY <1>1, <1>2, <1>3, <1>4, <1>5, <1>6, <1>7, <1>8, <1>9, <1>10, <1>11
  DEF Next, WriterStep, FinishStep, AsyncStep

\* The invariant holds: the variables have their types, and the header is with
\* the Writes that hold streamHdrMu or with the goroutine, never with both.
THEOREM Invariance == Spec => []Inv
<1>1. ASSUME Init PROVE Inv
  <2>1. TypeOK
    <3>1. wire \in Seq(1..DATA) /\ Len(wire) = 0
      BY <1>1 DEF Init
    <3>2. /\ pc \in [Writers -> {"idle", "lock", "header", "data", "limit", "check", "wait", "gone",
                                  "goneCheck", "goneWait", "fail"}]
          /\ seen \in [Writers -> Deadlines]
          /\ finish \in [Finishers -> {"idle", "first", "second", "done"}]
      BY <1>1 DEF Init, Deadlines
    <3>3. sets \in 0..MaxSets /\ boundary \in 0..Len(wire) /\ asyncOp \in Finishers
      BY <1>1, <3>1, BoundsAssumption DEF Init, Finishers
    <3>4. streamHdr \in 0..HeaderLen /\ asyncHdr \in 0..HeaderLen
      BY <1>1 DEF Init, HeaderLen
    <3>5. /\ hdrMu \in {"free"} \cup Writers /\ writeErr \in BOOLEAN
          /\ asyncPC \in {"none", "clear", "clearQUIC", "header", "end", "remove"}
          /\ deadline \in Deadlines /\ quicDeadline \in Deadlines
          /\ notifyCh \in {"nil", "empty", "full"}
          /\ setting \in {"no", "none", "soon"} /\ lateDeadline \in BOOLEAN
          /\ sendState \in {"open", "closed", "canceled"}
          /\ by \in {"nobody", "app", "session", "peer", "peerGone"}
          /\ removed \in BOOLEAN /\ session \in {"open", "canceled", "closed"}
      BY <1>1 DEF Init, Deadlines
    <3> QED
      BY <3>1, <3>2, <3>3, <3>4, <3>5 DEF TypeOK
  <2>2. OwnerInv
    BY <1>1, WritersAssumption DEF Init, OwnerInv, Finishers
  <2>3. WireInv
    BY <1>1 DEF Init, WireInv, Left, HeaderFirst, HeaderLen
  <2> QED
    BY <2>1, <2>2, <2>3 DEF Inv
<1>2. Inv /\ [Next]_vars => Inv'
  BY TypeStep, OwnerStep, WireStep DEF Inv
<1> QED
  BY <1>1, <1>2, PTL DEF Spec

\* send_stream.go: the peer reads the whole header once, before any data.
THEOREM HeaderInOrder == Spec => []HeaderFirst
<1>1. Inv => HeaderFirst
  BY DEF Inv, WireInv
<1> QED
  BY <1>1, Invariance, PTL

-----------------------------------------------------------------------------
\* No action closes or resets the stream for the application before the header.
LEMMA SentStep ==
  ASSUME TypeOK, OwnerInv, WireInv, SentInv, [Next]_vars
  PROVE  SentInv'
<1> USE DEF TypeOK, hdrVars, asyncVars, quicVars, setVars, deadlineVars
<1>a. ASSUME UNCHANGED <<hdrVars, sendState, by, boundary, asyncPC, asyncHdr, lateDeadline,
                         quicDeadline>>,
             Len(wire') \in Nat, Len(wire') >= Len(wire)
      PROVE  SentInv'
  BY <1>a DEF SentInv, HeaderDelivered, HeaderLen
<1>b. ASSUME NEW who \in {"session", "peer", "peerGone"}, Reset(who),
             UNCHANGED <<hdrVars, wire, boundary, asyncPC, asyncHdr, lateDeadline, quicDeadline>>
      PROVE  SentInv'
  BY <1>b DEF Reset, SentInv, HeaderDelivered, HeaderLen
<1>c. ASSUME NEW f \in Finishers, FinishQUIC(f), asyncPC' \notin {"header", "end"},
             UNCHANGED <<hdrVars, wire, boundary, lateDeadline, quicDeadline>>,
             ~lateDeadline /\ sendState = "open" => boundary >= HeaderLen
      PROVE  SentInv'
  <2>1. ~lateDeadline /\ sendState = "open" => Len(wire) >= HeaderLen
    BY <1>c DEF HeaderLen
  <2>2. CASE sendState = "open"
    <3>1. CASE f = "CancelWrite"
      BY <1>c, <2>1, <2>2, <3>1 DEF FinishQUIC, Reset, SentInv, HeaderDelivered
    <3>2. CASE f = "Close"
      BY <1>c, <2>1, <2>2, <3>2 DEF FinishQUIC, SentInv, HeaderDelivered
    <3> QED
      BY <3>1, <3>2 DEF Finishers
  <2>3. CASE sendState # "open"
    <3>1. UNCHANGED <<sendState, by>>
      BY <1>c, <2>3 DEF FinishQUIC, Reset
    <3> QED
      BY <1>c, <2>3, <3>1 DEF SentInv, HeaderDelivered
  <2> QED
    BY <2>2, <2>3
<1>1. ASSUME NEW w \in Writers, WriteLock(w) PROVE SentInv'
  <2>1. /\ UNCHANGED <<streamHdr, writeErr, sendState, by, wire, boundary, asyncPC, asyncHdr,
                       lateDeadline, quicDeadline>>
        /\ hdrMu = "free"
    BY <1>1 DEF WriteLock
  <2> QED
    BY <2>1 DEF SentInv, HeaderDelivered
<1>2. ASSUME NEW w \in Writers, HeaderUnit(w) PROVE SentInv'
  <2>1. hdrMu = w /\ ~writeErr /\ asyncPC = "none"
    BY <1>2 DEF HeaderUnit, OwnerInv
  <2>2. /\ Len(wire') = Len(wire) + 1
        /\ UNCHANGED <<hdrMu, writeErr, asyncPC, sendState, by, boundary, lateDeadline>>
    BY <1>2 DEF HeaderUnit, NextUnit, HeaderLen
  <2> QED
    BY <2>1, <2>2, WritersAssumption DEF SentInv, HeaderDelivered, HeaderLen
<1>3. ASSUME NEW w \in Writers, HeaderReturns(w) PROVE SentInv'
  <2>1. ~writeErr /\ asyncPC = "none" /\ asyncHdr = 0
    BY <1>3, WritersAssumption DEF HeaderReturns, OwnerInv
  <2>2. /\ UNCHANGED <<streamHdr, writeErr, asyncPC, sendState, by, wire, lateDeadline>>
        /\ boundary' = IF sendState = "open" THEN Len(wire) ELSE boundary
    BY <1>3 DEF HeaderReturns, SetReliableBoundary
  <2>3. streamHdr = 0 => Len(wire) >= HeaderLen
    BY <2>1 DEF WireInv, Left
  <2> QED
    BY <2>1, <2>2, <2>3 DEF SentInv, HeaderDelivered
<1>4. ASSUME NEW w \in Writers, WriteData(w) PROVE SentInv'
  <2>1. Len(wire') = Len(wire) + 1
    BY <1>4 DEF WriteData, DATA
  <2> QED
    BY <1>4, <2>1, <1>a DEF WriteData
<1>5. CASE AsyncUnit
  <2>1. /\ asyncPC = "header" /\ writeErr /\ Len(wire') = Len(wire) + 1
        /\ UNCHANGED <<hdrVars, asyncPC, sendState, by, boundary, lateDeadline, quicDeadline>>
    BY <1>5 DEF AsyncUnit, NextUnit, OwnerInv, HeaderLen
  <2> QED
    BY <2>1 DEF SentInv, HeaderDelivered, HeaderLen
<1>6. CASE AsyncBoundary
  <2>1. /\ asyncPC = "header" /\ asyncPC' = "end" /\ writeErr
        /\ UNCHANGED <<hdrVars, asyncHdr, sendState, by, wire, lateDeadline, quicDeadline>>
        /\ boundary' = IF sendState = "open" THEN Len(wire) ELSE boundary
    BY <1>6 DEF AsyncBoundary, SetReliableBoundary, OwnerInv
  <2>2. ~lateDeadline /\ sendState = "open" => Errors = {}
    <3>1. ~lateDeadline /\ sendState = "open" => quicDeadline = "none" /\ by = "nobody"
      BY <2>1 DEF SentInv
    <3> QED
      BY <3>1 DEF Errors
  <2>3. ~lateDeadline /\ sendState = "open" => asyncHdr = 0 /\ Len(wire) >= HeaderLen
    <3>1. ~lateDeadline /\ sendState = "open" => asyncHdr = 0
      BY <1>6, <2>2 DEF AsyncBoundary
    <3>2. streamHdr = 0
      BY <2>1 DEF OwnerInv
    <3> QED
      BY <3>1, <3>2 DEF WireInv, Left
  <2>4. (~lateDeadline => quicDeadline = "none") /\ (by = "app" => sendState # "open")
    BY <2>1 DEF SentInv
  <2> QED
    BY <2>1, <2>3, <2>4 DEF SentInv, HeaderDelivered
<1>7. CASE AsyncEnd
  BY <1>7, <1>c DEF AsyncEnd, SentInv
<1>8. ASSUME NEW f \in Finishers, FinishStream(f) PROVE SentInv'
  <2>1. ~writeErr /\ streamHdr = 0 /\ hdrMu = "free" /\ asyncPC = "none"
    BY <1>8 DEF FinishStream, OwnerInv
  <2>2. sendState = "open" => boundary >= HeaderLen
    BY <2>1 DEF SentInv
  <2> QED
    BY <1>8, <2>1, <2>2, <1>c DEF FinishStream
<1>9. ASSUME NEW f \in Finishers, FinishLock(f) PROVE SentInv'
  <2>1. CASE HandOver(f)
    <3>1. /\ asyncPC' = "clear" /\ writeErr' = TRUE
          /\ UNCHANGED <<sendState, by, wire, boundary, lateDeadline>>
      BY <1>9, <2>1 DEF FinishLock, HandOver
    <3> QED
      BY <3>1 DEF SentInv, HeaderDelivered
  <2>2. CASE UNCHANGED <<streamHdr, writeErr, asyncVars>>
    BY <1>9, <2>2, <1>a DEF FinishLock
  <2> QED
    BY <1>9, <2>1, <2>2 DEF FinishLock
<1>10. CASE SetQUICDeadline
  <2>1. /\ UNCHANGED <<hdrVars, sendState, by, wire, boundary, asyncPC, asyncHdr>>
        /\ lateDeadline' = (lateDeadline \/ writeErr)
    BY <1>10 DEF SetQUICDeadline
  <2>2. asyncPC \in {"header", "end"} => writeErr
    BY DEF OwnerInv
  <2> QED
    BY <2>1, <2>2 DEF SentInv, HeaderDelivered
<1>11. CASE Expire
  <2>1. UNCHANGED <<hdrVars, sendState, by, wire, boundary, asyncPC, asyncHdr, lateDeadline>>
    BY <1>11 DEF Expire
  <2>2. quicDeadline = "none" => quicDeadline' = "none"
    BY <1>11 DEF Expire, Expired
  <2> QED
    BY <2>1, <2>2 DEF SentInv, HeaderDelivered
<1>12. CASE AsyncClear
  <2>1. UNCHANGED <<hdrVars, sendState, by, wire, boundary, asyncHdr, lateDeadline>>
    BY <1>12 DEF AsyncClear
  <2>2. asyncPC' = "clearQUIC" \/ (asyncPC' = "header" /\ quicDeadline' = "none")
    BY <1>12 DEF AsyncClear, NoDeadline
  <2> QED
    BY <2>1, <2>2 DEF SentInv, HeaderDelivered
<1>13. CASE AsyncRemove
  <2>1. /\ UNCHANGED <<hdrVars, sendState, by, wire, boundary, asyncHdr, lateDeadline>>
        /\ asyncPC' = "none"
    BY <1>13 DEF AsyncRemove
  <2> QED
    BY <2>1 DEF SentInv, HeaderDelivered
<1>14. CASE closeWithSession
  <2>1. CASE session = "open"
    BY <1>14, <2>1, <1>b DEF closeWithSession
  <2>2. CASE session # "open"
    BY <1>14, <2>2, <1>a DEF closeWithSession
  <2> QED
    BY <2>1, <2>2
<1>15. ASSUME NEW who \in {"peer", "peerGone"}, PeerStops(who) PROVE SentInv'
  BY <1>15, <1>b DEF PeerStops
<1>16. ASSUME NEW w \in Writers,
              Write(w) \/ LimitReached(w) \/ DataFails(w) \/ WriteEnds(w) \/ StreamDone(w)
              \/ Updated(w) \/ SessionClosed(w)
       PROVE  SentInv'
  <2>1. UNCHANGED <<hdrVars, quicVars, asyncVars, lateDeadline, quicDeadline>>
    BY <1>16 DEF Write, LimitReached, DataFails, WriteEnds, StreamDone, Updated, SessionClosed
  <2> QED
    BY <2>1, <1>a
<1>17. ASSUME NEW w \in Writers, NEW k \in Waits,
              StartWait(w, k) \/ CheckDeadline(w, k) \/ DeadlineChanged(w, k) \/ TimerFires(w, k)
       PROVE  SentInv'
  BY <1>17, <1>a DEF StartWait, CheckDeadline, DeadlineChanged, TimerFires
<1>18. ASSUME NEW f \in Finishers, FinishRemove(f) PROVE SentInv'
  BY <1>18, <1>a DEF FinishRemove
<1>19. ASSUME NEW t \in {"none", "soon"}, SetWriteDeadline(t) PROVE SentInv'
  BY <1>19, <1>a DEF SetWriteDeadline
<1>20. CASE UNCHANGED vars
  BY <1>20, <1>a DEF vars
<1> QED
  BY <1>1, <1>2, <1>3, <1>4, <1>5, <1>6, <1>7, <1>8, <1>9, <1>10, <1>11, <1>12, <1>13, <1>14,
     <1>15, <1>16, <1>17, <1>18, <1>19, <1>20
  DEF Next, WriterStep, FinishStep, AsyncStep

\* send_stream.go: a stream that the application closes or cancels carries its
\* header, reliably, unless a deadline is set while the goroutine sends it.
THEOREM HeaderReachesPeer == Spec => []HeaderDelivered
<1>1. Init => SentInv
  BY DEF Init, SentInv, HeaderDelivered, HeaderLen
<1>2. Inv /\ SentInv /\ [Next]_vars => SentInv'
  BY SentStep DEF Inv
<1>3. SentInv => HeaderDelivered
  BY DEF SentInv
<1> QED
  BY <1>1, <1>2, <1>3, Invariance, PTL DEF Spec
=============================================================================
