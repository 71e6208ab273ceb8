---------------------- MODULE OutgoingStreamsMapProofs ----------------------
(***************************************************************************)
(* Proofs about OutgoingStreamsMap, for any finite set of callers and any  *)
(* sequence of limits.                                                     *)
(***************************************************************************)
EXTENDS OutgoingStreamsMap, FiniteSetTheorems, TLAPS

Queued(q, c) == \E i \in 1..Len(q) : q[i] = c
NoRepeats(q) == \A i, j \in 1..Len(q) : q[i] = q[j] => i = j

\* What slices.DeleteFunc does to openQueue: exactly the channel of the caller
\* disappears, and the first waiter stays first unless it is the one that left.
LEMMA WithoutProperties ==
  ASSUME NEW S, NEW q \in Seq(S), NEW c, NoRepeats(q)
  PROVE  /\ Without(q, c) \in Seq(S)
         /\ NoRepeats(Without(q, c))
         /\ \A x : Queued(Without(q, c), x) <=> (x # c /\ Queued(q, x))
         /\ q # <<>> /\ Head(q) # c =>
              Without(q, c) # <<>> /\ Head(Without(q, c)) = Head(q)
<1> DEFINE w == Without(q, c)
<1>1. CASE ~Queued(q, c)
  BY <1>1 DEF Without, Queued, NoRepeats
<1>2. CASE Queued(q, c)
  <2> DEFINE k == CHOOSE i \in 1..Len(q) : q[i] = c
  <2>1. k \in 1..Len(q) /\ q[k] = c
    BY <1>2 DEF Queued
  <2>2. w = [j \in 1..(Len(q) - 1) |-> IF j < k THEN q[j] ELSE q[j + 1]]
    BY <1>2 DEF Without, Queued
  <2> HIDE DEF k, w
  <2>3. Len(q) \in Nat /\ Len(q) >= 1
    BY <2>1
  <2>4. \A j \in 1..(Len(q) - 1) : w[j] \in S
    BY <2>1, <2>2, <2>3
  <2>5. w \in Seq(S) /\ Len(w) = Len(q) - 1
    BY <2>2, <2>3, <2>4
  <2>6. NoRepeats(w)
    BY <2>1, <2>2, <2>3, <2>5 DEF NoRepeats
  <2>7. ASSUME NEW x, Queued(w, x) PROVE x # c /\ Queued(q, x)
    <3>1. PICK j \in 1..(Len(q) - 1) : w[j] = x
      BY <2>5, <2>7 DEF Queued
    <3>2. CASE j < k
      BY <3>1, <3>2, <2>1, <2>2, <2>3 DEF Queued, NoRepeats
    <3>3. CASE ~(j < k)
      BY <3>1, <3>3, <2>1, <2>2, <2>3 DEF Queued, NoRepeats
    <3> QED BY <3>2, <3>3
  <2>8. ASSUME NEW x, x # c, Queued(q, x) PROVE Queued(w, x)
    <3>1. PICK i \in 1..Len(q) : q[i] = x
      BY <2>8 DEF Queued
    <3>2. CASE i < k
      <4>1. i \in 1..(Len(q) - 1) /\ w[i] = x
        BY <3>1, <3>2, <2>1, <2>2, <2>3
      <4> QED BY <4>1, <2>5 DEF Queued
    <3>3. CASE ~(i < k)
      <4>1. i # k
        BY <2>1, <2>8, <3>1
      <4>2. i - 1 \in 1..(Len(q) - 1) /\ w[i - 1] = x
        BY <3>1, <3>3, <4>1, <2>1, <2>2, <2>3
      <4> QED BY <4>2, <2>5 DEF Queued
    <3> QED BY <3>2, <3>3
  <2>9. ASSUME q # <<>>, Head(q) # c PROVE w # <<>> /\ Head(w) = Head(q)
    <3>1. k # 1
      BY <2>1, <2>9
    <3>2. 1 \in 1..(Len(q) - 1) /\ w[1] = q[1]
      BY <3>1, <2>1, <2>2, <2>3
    <3> QED BY <3>2, <2>5, <2>9
  <2> QED BY <2>5, <2>6, <2>7, <2>8, <2>9 DEF w
<1> QED BY <1>1, <1>2

-----------------------------------------------------------------------------
Slots == {c \in Callers : pc[c] \in Holding}

\* The slot accounting that keeps numStreams from underflowing.
SlotAccounting ==
  /\ nextID + Cardinality(Slots) <= numStreams
  /\ ~closeErr => numStreams = nextID + Cardinality(Slots)

\* The handling of the queue while the session is open.  Only the channel of
\* the first waiter ever holds a value, and only while the limit leaves room:
\* this is why a woken waiter needs no second look at the limit.
WakeupInv ==
  ~closeErr =>
    /\ NoRepeats(openQueue)
    /\ \A c \in Callers : pc[c] \in Waiting <=> Queued(openQueue, c)
    /\ \A c \in Callers :
         /\ wake[c] # "closed"
         /\ wake[c] = "token" \/ pc[c] = "chanWoken" =>
              openQueue # <<>> /\ Head(openQueue) = c /\ numStreams < maxStreams

Inv ==
  /\ TypeOK
  /\ SlotAccounting
  /\ WakeupInv
  /\ numStreams <= maxStreams
  /\ NoLostWakeup
  /\ closeErr => openQueue = <<>>

\* How the number of slots in use follows the position of one caller.
LEMMA SlotsStep ==
  ASSUME TypeOK, NEW c \in Callers, NEW p \in Positions,
         pc' = [pc EXCEPT ![c] = p]
  PROVE  /\ Cardinality(Slots) \in Nat /\ Cardinality(Slots') \in Nat
         /\ pc[c] \notin Holding /\ p \in Holding =>
              Cardinality(Slots') = Cardinality(Slots) + 1
         /\ pc[c] \in Holding /\ p \notin Holding =>
              Cardinality(Slots') = Cardinality(Slots) - 1 /\ Cardinality(Slots) > 0
         /\ (pc[c] \in Holding <=> p \in Holding) =>
              Cardinality(Slots') = Cardinality(Slots)
<1>1. IsFiniteSet(Slots)
  BY CallersAssumption, FS_Subset DEF Slots
<1>2. Cardinality(Slots) \in Nat
  BY <1>1, FS_CardinalityType
<1>3. pc[c] \notin Holding /\ p \in Holding => Slots' = Slots \cup {c} /\ c \notin Slots
  BY DEF Slots, TypeOK
<1>4. pc[c] \in Holding /\ p \notin Holding => Slots' = Slots \ {c} /\ c \in Slots
  BY DEF Slots, TypeOK
<1>5. (pc[c] \in Holding <=> p \in Holding) => Slots' = Slots
  BY DEF Slots, TypeOK
<1>6. CASE pc[c] \notin Holding /\ p \in Holding
  BY <1>1, <1>2, <1>3, <1>6, FS_AddElement
<1>7. CASE pc[c] \in Holding /\ p \notin Holding
  <2>1. Cardinality(Slots') = Cardinality(Slots) - 1
    BY <1>1, <1>4, <1>7, FS_RemoveElement
  <2>2. Cardinality(Slots) # 0
    BY <1>1, <1>4, <1>7, FS_EmptySet
  <2> QED BY <1>2, <1>7, <2>1, <2>2
<1>8. CASE pc[c] \in Holding <=> p \in Holding
  BY <1>2, <1>5, <1>8
<1> QED BY <1>6, <1>7, <1>8

\* A map without callers, streams and waiters satisfies the invariant.
LEMMA InitInv == Init => Inv
<1> SUFFICES ASSUME Init PROVE Inv
  OBVIOUS
<1>1. TypeOK
  <2>1. closeErr \in BOOLEAN /\ blockedSent \in BOOLEAN
    BY DEF Init
  <2>2. openQueue \in Seq(Callers) /\ blocked \in Seq(Nat)
    BY DEF Init
  <2>3. numStreams \in Nat /\ maxStreams \in Nat /\ nextID \in Nat
    BY LimitsAssumption DEF Init
  <2>4. /\ m \subseteq Nat /\ finished \subseteq Nat /\ gone \subseteq Nat
        /\ streamCtxs \subseteq Callers /\ ctxDone \subseteq Callers
        /\ cancelled \subseteq Callers
    BY DEF Init
  <2>5. /\ pc \in [Callers -> Positions]
        /\ wake \in [Callers -> {"empty", "token", "closed"}]
        /\ arg \in [Callers -> Nat] /\ str \in [Callers -> Nat]
    BY DEF Init, Positions
  <2> QED BY <2>1, <2>2, <2>3, <2>4, <2>5 DEF TypeOK
<1>2. Slots = {}
  BY DEF Slots, Init, Holding
<1>3. SlotAccounting
  BY <1>2, FS_EmptySet DEF SlotAccounting, Init
<1>4. WakeupInv
  BY DEF WakeupInv, Init, NoRepeats, Queued, Waiting
<1>5. numStreams <= maxStreams /\ NoLostWakeup /\ (closeErr => openQueue = <<>>)
  BY LimitsAssumption DEF Init, NoLostWakeup
<1> QED BY <1>1, <1>3, <1>4, <1>5 DEF Inv

\* A woken waiter is the first in the queue and there is room for its stream.
LEMMA WokenIsFirst ==
  ASSUME Inv, NEW c \in Callers, pc[c] = "chanWoken", ~closeErr
  PROVE  openQueue # <<>> /\ Head(openQueue) = c /\ numStreams < maxStreams
BY DEF Inv, WakeupInv

\* No step takes numStreams below zero, or the queue away from the callers.
LEMMA TypeStep == Inv /\ [Next]_vars => TypeOK'
<1> SUFFICES ASSUME Inv, [Next]_vars PROVE TypeOK'
  OBVIOUS
<1> USE DEF TypeOK, limitVars, streamVars, ctxVars, localVars
<1>0. TypeOK
  BY DEF Inv
<1>1. ASSUME NEW c \in Callers, OpenStream(c) PROVE TypeOK'
  <2>1. CASE numStreams < maxStreams
    <3>1. m' \subseteq Nat
      <4>1. m' = m \cup {nextID + 1} /\ nextID + 1 \in Nat
        BY <1>0, <1>1, <2>1 DEF OpenStream
      <4> QED BY <1>0, <4>1
    <3>2. numStreams' \in Nat /\ nextID' \in Nat
      BY <1>0, <1>1, <2>1 DEF OpenStream
    <3> QED BY <1>0, <1>1, <2>1, <3>1, <3>2 DEF OpenStream
  <2>2. CASE ~(numStreams < maxStreams)
    BY <1>0, <1>1, <2>2 DEF OpenStream, MarkBlocked, Go, Positions
  <2> QED BY <2>1, <2>2
<1>2. ASSUME NEW c \in Callers, OpenStreamSync(c) PROVE TypeOK'
  <2>1. openQueue' \in Seq(Callers)
    <3>1. openQueue' = openQueue \/ openQueue' = Append(openQueue, c)
      BY <1>2 DEF OpenStreamSync
    <3>2. openQueue \in Seq(Callers) /\ Append(openQueue, c) \in Seq(Callers)
      BY <1>0
    <3> QED BY <3>1, <3>2
  <2>2. pc' \in [Callers -> Positions] /\ arg' \in [Callers -> Nat]
    BY <1>0, <1>2 DEF OpenStreamSync, MarkBlocked, Go, Positions, Waiting, Holding
  <2>3. numStreams' \in Nat
    BY <1>0, <1>2 DEF OpenStreamSync
  <2>4. blockedSent' \in BOOLEAN
    BY <1>0, <1>2 DEF OpenStreamSync, MarkBlocked
  <2>5. streamCtxs' \subseteq Callers
    BY <1>0, <1>2 DEF OpenStreamSync
  <2> QED BY <1>0, <1>2, <2>1, <2>2, <2>3, <2>4, <2>5 DEF OpenStreamSync
<1>3. ASSUME NEW c \in Callers, QueueBlocked(c) PROVE TypeOK'
  BY <1>0, <1>3 DEF QueueBlocked, Go, Positions, Waiting, Holding
<1>4. ASSUME NEW c \in Callers, Relock1(c) PROVE TypeOK'
  BY <1>0, <1>4 DEF Relock1, Return, Go, Positions, Waiting
<1>5. ASSUME NEW c \in Callers, SelectCtx(c) PROVE TypeOK'
  BY <1>0, <1>5 DEF SelectCtx, Go, Positions, Waiting
<1>6. ASSUME NEW c \in Callers, SelectChan(c) PROVE TypeOK'
  BY <1>0, <1>6 DEF SelectChan, Go, Positions, Waiting
<1>7. ASSUME NEW c \in Callers, LeaveQueue(c) 
      PROVE  /\ openQueue' \in Seq(Callers)
             /\ wake' \in [Callers -> {"empty", "token", "closed"}]
  <2>1. NoRepeats(openQueue)
    <3>1. CASE closeErr
      BY <3>1 DEF Inv, NoRepeats
    <3>2. CASE ~closeErr
      BY <3>2 DEF Inv, WakeupInv
    <3> QED BY <3>1, <3>2
  <2>2. openQueue' \in Seq(Callers)
    BY <1>0, <1>7, <2>1, WithoutProperties DEF LeaveQueue
  <2> QED BY <1>0, <1>7, <2>2 DEF LeaveQueue, maybeUnblockOpenSync
<1>8. ASSUME NEW c \in Callers, CtxWoken(c) PROVE TypeOK'
  BY <1>0, <1>7, <1>8 DEF CtxWoken, Return, Go, Positions
<1>9. ASSUME NEW c \in Callers, ChanWoken(c) PROVE TypeOK'
  <2>1. CASE closeErr
    BY <1>0, <1>9, <2>1 DEF ChanWoken, Return, Go, Positions
  <2>2. CASE ~closeErr /\ c \in ctxDone
    BY <1>0, <1>7, <1>9, <2>2 DEF ChanWoken, Return, Go, Positions
  <2>3. CASE ~closeErr /\ c \notin ctxDone
    <3>1. TakeSlot(c) /\ openQueue # <<>>
      BY <1>9, <2>3, WokenIsFirst DEF ChanWoken
    <3>2. openQueue' \in Seq(Callers)
      BY <1>0, <3>1 DEF TakeSlot
    <3>3. wake' \in [Callers -> {"empty", "token", "closed"}]
      BY <1>0, <3>1 DEF TakeSlot, maybeUnblockOpenSync
    <3>4. pc' \in [Callers -> Positions] /\ arg' \in [Callers -> Nat]
      BY <1>0, <3>1 DEF TakeSlot, MarkBlocked, Go, Positions, Holding
    <3>5. numStreams' \in Nat
      BY <1>0, <3>1 DEF TakeSlot
    <3>6. blockedSent' \in BOOLEAN
      BY <1>0, <3>1 DEF TakeSlot, MarkBlocked
    <3>7. streamCtxs' \subseteq Callers
      BY <1>0, <3>1 DEF TakeSlot
    <3> QED BY <1>0, <1>9, <2>3, <3>2, <3>3, <3>4, <3>5, <3>6, <3>7 DEF ChanWoken
  <2> QED BY <2>1, <2>2, <2>3
<1>10. ASSUME NEW c \in Callers, Relock2(c) PROVE TypeOK'
  BY <1>0, <1>10 DEF Relock2, Return, Go, Positions, Holding
<1>11. ASSUME NEW c \in Callers, QUICOpens(c) PROVE TypeOK'
  <2>1. nextID' \in Nat /\ str' \in [Callers -> Nat]
    <3>1. nextID + 1 \in Nat
      BY <1>0
    <3> QED BY <1>0, <1>11, <3>1 DEF QUICOpens
  <2>2. pc' \in [Callers -> Positions]
    BY <1>0, <1>11 DEF QUICOpens, Go, Positions, Holding
  <2> QED BY <1>0, <1>11, <2>1, <2>2 DEF QUICOpens
<1>12. ASSUME NEW c \in Callers, Opened(c) PROVE TypeOK'
  <2>1. m' \subseteq Nat /\ gone' \subseteq Nat
    <3>1. str[c] \in Nat
      BY <1>0
    <3> QED BY <1>0, <1>12, <3>1 DEF Opened, Register
  <2> QED BY <1>0, <1>12, <2>1 DEF Opened, Return, Go, Positions
<1>13. ASSUME NEW c \in Callers, OpenFailed(c) PROVE TypeOK'
  <2>1. numStreams' \in Nat
    <3>1. CASE closeErr
      BY <1>0, <1>13, <3>1 DEF OpenFailed
    <3>2. CASE ~closeErr
      <4>1. numStreams > 0
        <5>1. pc' = [pc EXCEPT ![c] = "idle"] /\ pc[c] = "openFailed"
          BY <1>13 DEF OpenFailed, Return, Go
        <5>2. "idle" \in Positions \ Holding /\ "openFailed" \in Holding
          BY DEF Positions, Holding
        <5>3. Cardinality(Slots) \in Nat /\ Cardinality(Slots) > 0
          BY <1>0, <5>1, <5>2, SlotsStep
        <5> QED BY <1>0, <5>3, <3>2 DEF Inv, SlotAccounting
      <4> QED BY <1>0, <1>13, <3>2, <4>1 DEF OpenFailed, ReturnSlot
    <3> QED BY <3>1, <3>2
  <2>2. wake' \in [Callers -> {"empty", "token", "closed"}]
    BY <1>0, <1>13 DEF OpenFailed, maybeUnblockOpenSync
  <2> QED BY <1>0, <1>13, <2>1, <2>2 DEF OpenFailed, Return, Go, Positions
<1>14. ASSUME NEW c \in Callers, CtxDone(c) PROVE TypeOK'
  BY <1>0, <1>14 DEF CtxDone
<1>15. ASSUME NEW id \in m, removeStream(id) PROVE TypeOK'
  BY <1>0, <1>15 DEF removeStream
<1>16. ASSUME NEW limit \in Limits, UpdateStreamLimit(limit) PROVE TypeOK'
  BY <1>0, <1>16, LimitsAssumption DEF UpdateStreamLimit, SetLimit, maybeUnblockOpenSync
<1>17. CASE CloseSession
  BY <1>0, <1>17 DEF CloseSession, CloseWaitChans
<1>18. CASE UNCHANGED vars
  BY <1>0, <1>18 DEF vars
<1> QED
  BY <1>1, <1>2, <1>3, <1>4, <1>5, <1>6, <1>8, <1>9, <1>10, <1>11, <1>12, <1>13,
     <1>14, <1>15, <1>16, <1>17, <1>18 DEF Next, CallStep

\* Every action keeps numStreams in step with the streams and the calls that
\* hold a slot.
LEMMA SlotStep == Inv /\ [Next]_vars => SlotAccounting'
<1> SUFFICES ASSUME Inv, [Next]_vars PROVE SlotAccounting'
  OBVIOUS
<1> USE DEF SlotAccounting, limitVars, streamVars, ctxVars, localVars
<1>0. /\ TypeOK /\ SlotAccounting
      /\ numStreams \in Nat /\ nextID \in Nat /\ maxStreams \in Nat
  BY DEF Inv, TypeOK
<1>a. Cardinality(Slots) \in Nat
  BY CallersAssumption, FS_Subset, FS_CardinalityType DEF Slots
<1>b. ASSUME pc' = pc, UNCHANGED <<numStreams, nextID>>, closeErr => closeErr'
      PROVE  SlotAccounting'
  BY <1>0, <1>a, <1>b DEF Slots
<1>c. ASSUME NEW c \in Callers, NEW p \in Positions, Go(c, p),
             pc[c] \in Holding <=> p \in Holding,
             UNCHANGED <<numStreams, nextID, closeErr>>
      PROVE  SlotAccounting'
  BY <1>0, <1>a, <1>c, SlotsStep DEF Go
<1>1. ASSUME NEW c \in Callers, OpenStream(c) PROVE SlotAccounting'
  <2>1. CASE numStreams < maxStreams
    <3>1. Slots' = Slots
      BY <1>1, <2>1, <1>0 DEF OpenStream, Slots
    <3>2. numStreams' = numStreams + 1 /\ nextID' = nextID + 1 /\ UNCHANGED closeErr
      BY <1>1, <2>1, <1>0 DEF OpenStream
    <3> QED BY <1>0, <1>a, <3>1, <3>2
  <2>2. CASE ~(numStreams < maxStreams)
    BY <1>0, <1>c, <1>1, <2>2 DEF OpenStream, MarkBlocked, Positions, Waiting, Holding
  <2> QED BY <2>1, <2>2
<1>2. ASSUME NEW c \in Callers, OpenStreamSync(c) PROVE SlotAccounting'
  <2>1. CASE openQueue = <<>> /\ numStreams < maxStreams
    <3>1. /\ pc' = [pc EXCEPT ![c] = "opening"] /\ numStreams' = numStreams + 1
          /\ UNCHANGED <<nextID, closeErr>> /\ pc[c] = "idle"
      BY <1>0, <1>2, <2>1 DEF OpenStreamSync, Go
    <3>2. "opening" \in Positions /\ "opening" \in Holding /\ "idle" \notin Holding
      BY DEF Positions, Holding
    <3>3. Cardinality(Slots') = Cardinality(Slots) + 1
      BY <1>0, <3>1, <3>2, SlotsStep
    <3> QED BY <1>0, <1>a, <3>1, <3>3
  <2>2. CASE ~(openQueue = <<>> /\ numStreams < maxStreams)
    <3>1. PICK p \in {"blocked1", "select"} : Go(c, p)
      BY <1>2, <2>2 DEF OpenStreamSync, MarkBlocked
    <3>2. UNCHANGED <<numStreams, nextID, closeErr>> /\ pc[c] = "idle"
      BY <1>0, <1>2, <2>2 DEF OpenStreamSync
    <3> QED BY <1>c, <3>1, <3>2 DEF Positions, Waiting, Holding
  <2> QED BY <2>1, <2>2
<1>3. ASSUME NEW c \in Callers, QueueBlocked(c) PROVE SlotAccounting'
  BY <1>c, <1>3 DEF QueueBlocked, Positions, Waiting, Holding
<1>4. ASSUME NEW c \in Callers, Relock1(c) PROVE SlotAccounting'
  BY <1>c, <1>4 DEF Relock1, Return, Positions, Waiting, Holding
<1>5. ASSUME NEW c \in Callers, SelectCtx(c) PROVE SlotAccounting'
  BY <1>c, <1>5 DEF SelectCtx, Positions, Waiting, Holding
<1>6. ASSUME NEW c \in Callers, SelectChan(c) PROVE SlotAccounting'
  BY <1>c, <1>6 DEF SelectChan, Positions, Waiting, Holding
<1>7. ASSUME NEW c \in Callers, CtxWoken(c) PROVE SlotAccounting'
  BY <1>c, <1>7 DEF CtxWoken, Return, Positions, Waiting, Holding
<1>8. ASSUME NEW c \in Callers, ChanWoken(c) PROVE SlotAccounting'
  <2>1. CASE closeErr \/ c \in ctxDone
    <3>1. Go(c, "idle") /\ UNCHANGED <<numStreams, nextID, closeErr>> /\ pc[c] = "chanWoken"
      BY <1>8, <2>1 DEF ChanWoken, Return
    <3> QED BY <1>c, <3>1 DEF Positions, Holding
  <2>2. CASE ~closeErr /\ c \notin ctxDone
    <3>1. PICK p \in {"blocked2", "opening"} : pc' = [pc EXCEPT ![c] = p]
      BY <1>8, <2>2 DEF ChanWoken, TakeSlot, MarkBlocked, Go
    <3>2. /\ numStreams' = numStreams + 1 /\ UNCHANGED <<nextID, closeErr>>
          /\ pc[c] = "chanWoken"
      BY <1>8, <2>2 DEF ChanWoken, TakeSlot
    <3>3. p \in Positions /\ p \in Holding /\ "chanWoken" \notin Holding
      BY DEF Positions, Holding
    <3>4. Cardinality(Slots') = Cardinality(Slots) + 1
      BY <1>0, <3>1, <3>2, <3>3, SlotsStep
    <3> QED BY <1>0, <1>a, <3>2, <3>4
  <2> QED BY <2>1, <2>2
<1>9. ASSUME NEW c \in Callers, Relock2(c) PROVE SlotAccounting'
  <2>1. CASE closeErr
    <3>1. /\ pc' = [pc EXCEPT ![c] = "idle"] /\ pc[c] = "relock2"
          /\ UNCHANGED <<numStreams, nextID, closeErr>>
      BY <1>9, <2>1 DEF Relock2, Return, Go
    <3>2. "idle" \in Positions /\ "idle" \notin Holding /\ "relock2" \in Holding
      BY DEF Positions, Holding
    <3>3. Cardinality(Slots') = Cardinality(Slots) - 1
      BY <1>0, <3>1, <3>2, SlotsStep
    <3> QED BY <1>0, <1>a, <2>1, <3>1, <3>3
  <2>2. CASE ~closeErr
    BY <1>c, <1>9, <2>2 DEF Relock2, Positions, Holding
  <2> QED BY <2>1, <2>2
<1>10. ASSUME NEW c \in Callers, QUICOpens(c) PROVE SlotAccounting'
  <2>1. CASE Go(c, "openFailed") /\ UNCHANGED <<nextID, str>>
    BY <1>c, <1>10, <2>1 DEF QUICOpens, Positions, Holding
  <2>2. CASE nextID' = nextID + 1 /\ Go(c, "opened")
    <3>1. /\ pc' = [pc EXCEPT ![c] = "opened"] /\ pc[c] = "opening"
          /\ UNCHANGED <<numStreams, closeErr>>
      BY <1>10, <2>2 DEF QUICOpens, Go
    <3>2. "opened" \in Positions /\ "opened" \notin Holding /\ "opening" \in Holding
      BY DEF Positions, Holding, Waiting
    <3>3. Cardinality(Slots') = Cardinality(Slots) - 1
      BY <1>0, <3>1, <3>2, SlotsStep
    <3> QED BY <1>0, <1>a, <2>2, <3>1, <3>3
  <2> QED BY <1>10, <2>1, <2>2 DEF QUICOpens
<1>11. ASSUME NEW c \in Callers, Opened(c) PROVE SlotAccounting'
  BY <1>c, <1>11 DEF Opened, Return, Positions, Holding
<1>12. ASSUME NEW c \in Callers, OpenFailed(c) PROVE SlotAccounting'
  <2>1. /\ pc' = [pc EXCEPT ![c] = "idle"] /\ pc[c] = "openFailed"
        /\ UNCHANGED <<nextID, closeErr>>
    BY <1>12 DEF OpenFailed, Return, Go
  <2>2. "idle" \in Positions /\ "idle" \notin Holding /\ "openFailed" \in Holding
    BY DEF Positions, Holding
  <2>3. Cardinality(Slots') = Cardinality(Slots) - 1 /\ Cardinality(Slots) > 0
    BY <1>0, <2>1, <2>2, SlotsStep
  <2>4. numStreams' = IF closeErr THEN numStreams ELSE numStreams - 1
    BY <1>12 DEF OpenFailed, ReturnSlot
  <2> QED BY <1>0, <1>a, <2>1, <2>3, <2>4
<1>13. ASSUME NEW c \in Callers, CtxDone(c) PROVE SlotAccounting'
  BY <1>b, <1>13 DEF CtxDone
<1>14. ASSUME NEW id \in m, removeStream(id) PROVE SlotAccounting'
  BY <1>b, <1>14 DEF removeStream
<1>15. ASSUME NEW limit \in Limits, UpdateStreamLimit(limit) PROVE SlotAccounting'
  BY <1>b, <1>15 DEF UpdateStreamLimit
<1>16. CASE CloseSession
  BY <1>b, <1>16 DEF CloseSession
<1>17. CASE UNCHANGED vars
  BY <1>b, <1>17 DEF vars
<1> QED
  BY <1>1, <1>2, <1>3, <1>4, <1>5, <1>6, <1>7, <1>8, <1>9, <1>10, <1>11, <1>12,
     <1>13, <1>14, <1>15, <1>16, <1>17 DEF Next, CallStep

-----------------------------------------------------------------------------
\* The two other ways the queue changes.  Popping its front removes the first ...
LEMMA TailProperties ==
  ASSUME NEW S, NEW q \in Seq(S), q # <<>>, NoRepeats(q)
  PROVE  /\ NoRepeats(Tail(q))
         /\ \A x : Queued(Tail(q), x) <=> (x # Head(q) /\ Queued(q, x))
<1>1. /\ Len(q) \in Nat \ {0} /\ Tail(q) \in Seq(S) /\ Len(Tail(q)) = Len(q) - 1
      /\ \A i \in 1..(Len(q) - 1) : Tail(q)[i] = q[i + 1]
      /\ Head(q) = q[1]
  OBVIOUS
<1>2. NoRepeats(Tail(q))
  BY <1>1 DEF NoRepeats
<1>3. ASSUME NEW x, Queued(Tail(q), x) PROVE x # Head(q) /\ Queued(q, x)
  <2>1. PICK i \in 1..(Len(q) - 1) : q[i + 1] = x
    BY <1>1, <1>3 DEF Queued
  <2>2. i + 1 \in 1..Len(q) /\ 1 \in 1..Len(q) /\ i + 1 # 1
    BY <1>1, <2>1
  <2> QED BY <1>1, <2>1, <2>2 DEF Queued, NoRepeats
<1>4. ASSUME NEW x, x # Head(q), Queued(q, x) PROVE Queued(Tail(q), x)
  <2>1. PICK i \in 1..Len(q) : q[i] = x
    BY <1>4 DEF Queued
  <2>2. i - 1 \in 1..(Len(q) - 1) /\ Tail(q)[i - 1] = x
    BY <1>1, <1>4, <2>1
  <2> QED BY <1>1, <2>2 DEF Queued
<1> QED BY <1>2, <1>3, <1>4

\* ... and joining it adds the caller behind the others.
LEMMA AppendProperties ==
  ASSUME NEW S, NEW q \in Seq(S), NEW c \in S, NoRepeats(q), ~Queued(q, c)
  PROVE  /\ NoRepeats(Append(q, c))
         /\ \A x : Queued(Append(q, c), x) <=> (x = c \/ Queued(q, x))
         /\ Append(q, c) # <<>>
         /\ q # <<>> => Head(Append(q, c)) = Head(q)
<1>1. /\ Len(q) \in Nat /\ Append(q, c) \in Seq(S) /\ Len(Append(q, c)) = Len(q) + 1
      /\ \A i \in 1..Len(q) : Append(q, c)[i] = q[i]
      /\ Append(q, c)[Len(q) + 1] = c
  OBVIOUS
<1>2. NoRepeats(Append(q, c))
  BY <1>1 DEF NoRepeats, Queued
<1>3. \A x : Queued(Append(q, c), x) <=> (x = c \/ Queued(q, x))
  BY <1>1 DEF Queued
<1>4. q # <<>> => Head(Append(q, c)) = Head(q)
  OBVIOUS
<1>5. Append(q, c) # <<>>
  <2>1. Len(Append(q, c)) # 0 /\ Len(<<>>) = 0
    BY <1>1
  <2> QED BY ONLY <2>1, Zenon
<1> QED BY <1>2, <1>3, <1>4, <1>5

\* Only the channel of the first waiter holds a value, and only while there is
\* room for its stream.
OnlyFirstWoken(w, q, n, limit) ==
  \A c \in Callers :
    /\ w[c] # "closed"
    /\ w[c] = "token" => q # <<>> /\ Head(q) = c /\ n < limit

\* What maybeUnblockOpenSync establishes.
LEMMA UnblockProperties ==
  ASSUME NEW q \in Seq(Callers), NEW n \in Nat, NEW limit \in Nat,
         NEW w \in [Callers -> {"empty", "token", "closed"}],
         OnlyFirstWoken(w, q, n, limit)
  PROVE  /\ OnlyFirstWoken(maybeUnblockOpenSync(w, q, n, limit), q, n, limit)
         /\ q # <<>> /\ n < limit =>
              maybeUnblockOpenSync(w, q, n, limit)[Head(q)] = "token"
<1>1. q # <<>> => Head(q) \in Callers
  OBVIOUS
<1> QED BY <1>1 DEF OnlyFirstWoken, maybeUnblockOpenSync

QueueInv ==
  /\ WakeupInv
  /\ numStreams <= maxStreams
  /\ NoLostWakeup
  /\ closeErr => openQueue = <<>>

\* Every action keeps the queue, the wakeups and the limit consistent.
LEMMA QueueStep == Inv /\ [Next]_vars => QueueInv'
<1> SUFFICES ASSUME Inv, [Next]_vars PROVE QueueInv'
  OBVIOUS
<1> USE DEF limitVars, streamVars, ctxVars, localVars
<1>0. /\ TypeOK /\ QueueInv
      /\ numStreams \in Nat /\ maxStreams \in Nat /\ openQueue \in Seq(Callers)
      /\ wake \in [Callers -> {"empty", "token", "closed"}]
      /\ pc \in [Callers -> Positions]
  BY DEF Inv, QueueInv, TypeOK
<1>q. ~closeErr => OnlyFirstWoken(wake, openQueue, numStreams, maxStreams)
  BY <1>0 DEF QueueInv, WakeupInv, OnlyFirstWoken
\* In a closed session there is nothing left to show.
<1>a. ASSUME closeErr', openQueue' = <<>>, numStreams' <= maxStreams'
      PROVE  QueueInv'
  BY <1>a DEF QueueInv, WakeupInv, NoLostWakeup
<1>b. ASSUME closeErr, UNCHANGED <<closeErr, openQueue, numStreams, maxStreams>>
      PROVE  QueueInv'
  BY <1>0, <1>a, <1>b DEF QueueInv
\* A step of one caller that leaves the queue and the channels alone.
<1>c. ASSUME NEW c \in Callers, NEW p \in Positions, Go(c, p),
             pc[c] \in Waiting <=> p \in Waiting, p # "chanWoken",
             pc[c] \notin {"chanWoken", "ctxWoken"},
             UNCHANGED <<closeErr, openQueue, wake, numStreams, maxStreams>>
      PROVE  QueueInv'
  <2>1. CASE closeErr
    BY <1>b, <1>c, <2>1
  <2>2. CASE ~closeErr
    <3>1. WakeupInv'
      BY <1>0, <1>c, <2>2 DEF QueueInv, WakeupInv, Go
    <3>2. NoLostWakeup'
      BY <1>0, <1>c, <2>2 DEF QueueInv, NoLostWakeup, Go
    <3> QED BY <1>0, <1>c, <2>2, <3>1, <3>2 DEF QueueInv
  <2> QED BY <2>1, <2>2
\* The common part of the steps that end in maybeUnblockOpenSync.
<1>d. ASSUME ~closeErr', OnlyFirstWoken(wake, openQueue, numStreams, maxStreams)',
             numStreams' <= maxStreams', NoRepeats(openQueue'),
             \A c \in Callers : pc'[c] \in Waiting <=> Queued(openQueue', c),
             \A c \in Callers : pc'[c] = "chanWoken" =>
               openQueue' # <<>> /\ Head(openQueue') = c /\ numStreams' < maxStreams',
             openQueue' # <<>> /\ numStreams' < maxStreams' =>
               wake'[Head(openQueue')] = "token"
      PROVE  QueueInv'
  BY <1>d DEF QueueInv, WakeupInv, NoLostWakeup, OnlyFirstWoken
<1>1. ASSUME NEW c \in Callers, OpenStream(c) PROVE QueueInv'
  <2>1. ~closeErr /\ openQueue = <<>> /\ UNCHANGED <<closeErr, openQueue, wake, maxStreams>>
    BY <1>1 DEF OpenStream, OpenStreamAllowed
  <2>2. CASE numStreams < maxStreams
    <3>1. numStreams' <= maxStreams' /\ UNCHANGED pc
      BY <1>0, <1>1, <2>2 DEF OpenStream
    <3> QED BY <1>0, <2>1, <3>1 DEF QueueInv, WakeupInv, NoLostWakeup
  <2>3. CASE ~(numStreams < maxStreams)
    <3>1. Go(c, "limitErr") /\ pc[c] = "idle" /\ UNCHANGED numStreams
      BY <1>0, <1>1, <2>3 DEF OpenStream, MarkBlocked
    <3> QED BY <1>c, <2>1, <3>1 DEF Positions, Waiting
  <2> QED BY <2>2, <2>3
<1>2. ASSUME NEW c \in Callers, OpenStreamSync(c) PROVE QueueInv'
  <2>1. /\ ~closeErr /\ UNCHANGED <<closeErr, wake, maxStreams>> /\ pc[c] = "idle"
    BY <1>2 DEF OpenStreamSync
  <2>2. CASE openQueue = <<>> /\ numStreams < maxStreams
    <3>1. /\ numStreams' = numStreams + 1 /\ UNCHANGED openQueue
          /\ Go(c, "opening")
      BY <1>0, <1>2, <2>2 DEF OpenStreamSync
    <3>2. WakeupInv'
      BY <1>0, <2>1, <2>2, <3>1 DEF QueueInv, WakeupInv, Go, Waiting
    <3>3. numStreams' <= maxStreams' /\ NoLostWakeup'
      BY <1>0, <2>1, <2>2, <3>1 DEF NoLostWakeup
    <3> QED BY <2>1, <3>2, <3>3 DEF QueueInv
  <2>3. CASE ~(openQueue = <<>> /\ numStreams < maxStreams)
    <3>1. PICK p \in {"blocked1", "select"} : pc' = [pc EXCEPT ![c] = p]
      BY <1>2, <2>3 DEF OpenStreamSync, MarkBlocked, Go
    <3>2. openQueue' = Append(openQueue, c) /\ UNCHANGED numStreams
      BY <1>0, <1>2, <2>3 DEF OpenStreamSync
    <3>3. NoRepeats(openQueue) /\ ~Queued(openQueue, c)
      BY <1>0, <2>1 DEF QueueInv, WakeupInv, Waiting
    <3>4. /\ NoRepeats(openQueue')
          /\ \A x : Queued(openQueue', x) <=> (x = c \/ Queued(openQueue, x))
          /\ openQueue # <<>> => openQueue' # <<>> /\ Head(openQueue') = Head(openQueue)
      BY <1>0, <3>2, <3>3, AppendProperties
    <3>5. WakeupInv'
      BY <1>0, <2>1, <3>1, <3>2, <3>4 DEF QueueInv, WakeupInv, Waiting
    <3>6. NoLostWakeup'
      BY <1>0, <2>1, <2>3, <3>1, <3>2, <3>4 DEF QueueInv, NoLostWakeup
    <3> QED BY <1>0, <2>1, <3>2, <3>5, <3>6 DEF QueueInv
  <2> QED BY <2>2, <2>3
<1>3. ASSUME NEW c \in Callers, QueueBlocked(c) PROVE QueueInv'
  BY <1>c, <1>3 DEF QueueBlocked, Positions, Waiting, Holding
<1>4. ASSUME NEW c \in Callers, Relock1(c) PROVE QueueInv'
  BY <1>b, <1>c, <1>4 DEF Relock1, Positions, Waiting
<1>5. ASSUME NEW c \in Callers, SelectCtx(c) PROVE QueueInv'
  BY <1>c, <1>5 DEF SelectCtx, Positions, Waiting
<1>6. ASSUME NEW c \in Callers, SelectChan(c) PROVE QueueInv'
  <2>1. CASE closeErr
    BY <1>b, <1>6, <2>1 DEF SelectChan
  <2>2. CASE ~closeErr
    <3>1. wake[c] = "token"
      BY <1>0, <1>6, <2>2 DEF SelectChan, QueueInv, WakeupInv
    <3>2. openQueue # <<>> /\ Head(openQueue) = c /\ numStreams < maxStreams
      BY <1>0, <2>2, <3>1 DEF QueueInv, WakeupInv
    <3>3. /\ wake' = [wake EXCEPT ![c] = "empty"] /\ pc' = [pc EXCEPT ![c] = "chanWoken"]
          /\ UNCHANGED <<closeErr, openQueue, numStreams, maxStreams>> /\ pc[c] = "select"
      BY <1>0, <1>6, <3>1 DEF SelectChan, Go
    <3>4. WakeupInv'
      BY <1>0, <2>2, <3>2, <3>3 DEF QueueInv, WakeupInv, Waiting
    <3>5. NoLostWakeup'
      BY <1>0, <3>2, <3>3 DEF NoLostWakeup
    <3> QED BY <1>0, <2>2, <3>3, <3>4, <3>5 DEF QueueInv
  <2> QED BY <2>1, <2>2
\* A waiter gives up: the first waiter stays first, or the next one is woken.
<1>7. ASSUME NEW c \in Callers, ~closeErr, pc[c] \in Waiting, LeaveQueue(c), Go(c, "idle"),
             UNCHANGED <<closeErr, numStreams, maxStreams>>
      PROVE  QueueInv'
  <2> DEFINE w == [wake EXCEPT ![c] = "empty"]
  <2>1. /\ NoRepeats(openQueue) /\ openQueue' = Without(openQueue, c)
        /\ wake' = maybeUnblockOpenSync(w, openQueue', numStreams, maxStreams)
    BY <1>0, <1>7 DEF QueueInv, WakeupInv, LeaveQueue
  <2>2. /\ openQueue' \in Seq(Callers) /\ NoRepeats(openQueue')
        /\ \A x : Queued(openQueue', x) <=> (x # c /\ Queued(openQueue, x))
        /\ openQueue # <<>> /\ Head(openQueue) # c =>
             openQueue' # <<>> /\ Head(openQueue') = Head(openQueue)
    BY <1>0, <2>1, WithoutProperties
  <2>3. OnlyFirstWoken(w, openQueue', numStreams, maxStreams)
    BY <1>0, <1>7, <1>q, <2>2 DEF OnlyFirstWoken
  <2>4. w \in [Callers -> {"empty", "token", "closed"}]
    BY <1>0
  <2>5. /\ OnlyFirstWoken(wake', openQueue', numStreams, maxStreams)
        /\ openQueue' # <<>> /\ numStreams < maxStreams => wake'[Head(openQueue')] = "token"
    <3> HIDE DEF w
    <3> QED BY <1>0, <2>1, <2>2, <2>3, <2>4, UnblockProperties
  <2>6. \A d \in Callers : pc'[d] \in Waiting <=> Queued(openQueue', d)
    BY <1>0, <1>7, <2>2 DEF Go, Waiting, QueueInv, WakeupInv
  <2>7. \A d \in Callers : pc'[d] = "chanWoken" =>
          openQueue' # <<>> /\ Head(openQueue') = d /\ numStreams < maxStreams
    BY <1>0, <1>7, <2>2 DEF Go, QueueInv, WakeupInv
  <2>8. OnlyFirstWoken(wake, openQueue, numStreams, maxStreams)'
    BY <1>7, <2>5 DEF OnlyFirstWoken
  <2> QED BY <1>0, <1>7, <1>d, <2>2, <2>5, <2>6, <2>7, <2>8 DEF QueueInv
<1>8. ASSUME NEW c \in Callers, CtxWoken(c) PROVE QueueInv'
  <2>1. /\ pc[c] \in Waiting /\ LeaveQueue(c) /\ Go(c, "idle")
        /\ UNCHANGED <<closeErr, numStreams, maxStreams>>
    BY <1>8 DEF CtxWoken, Return, Waiting
  <2>2. CASE closeErr
    <3>1. openQueue = <<>>
      BY <1>0, <2>2 DEF QueueInv
    <3>2. openQueue' = <<>>
      BY <2>1, <3>1 DEF LeaveQueue, Without
    <3> QED BY <1>0, <1>a, <2>1, <2>2, <3>2 DEF QueueInv
  <2>3. CASE ~closeErr
    BY <1>7, <2>1, <2>3
  <2> QED BY <2>2, <2>3
\* The woken waiter takes the slot it was woken for.
<1>9. ASSUME NEW c \in Callers, ChanWoken(c) PROVE QueueInv'
  <2>1. CASE closeErr
    BY <1>b, <1>9, <2>1 DEF ChanWoken
  <2>2. CASE ~closeErr /\ c \in ctxDone
    BY <1>7, <1>9, <2>2 DEF ChanWoken, Return, Waiting
  <2>3. CASE ~closeErr /\ c \notin ctxDone
    <3> DEFINE w == [wake EXCEPT ![c] = "empty"]
               n == numStreams + 1
    <3>1. openQueue # <<>> /\ Head(openQueue) = c /\ numStreams < maxStreams
      BY <1>9, <2>3, WokenIsFirst DEF ChanWoken
    <3>2. /\ openQueue' = Tail(openQueue) /\ numStreams' = n
          /\ \/ wake' = w /\ (openQueue' # <<>> => n >= maxStreams)
             \/ wake' = maybeUnblockOpenSync(w, openQueue', n, maxStreams)
          /\ UNCHANGED <<closeErr, maxStreams>>
      BY <1>9, <2>3 DEF ChanWoken, TakeSlot
    <3>3. PICK p \in {"blocked2", "opening"} : pc' = [pc EXCEPT ![c] = p]
      BY <1>9, <2>3 DEF ChanWoken, TakeSlot, MarkBlocked, Go
    <3>4. NoRepeats(openQueue)
      BY <1>0, <2>3 DEF QueueInv, WakeupInv
    <3>5. /\ openQueue' \in Seq(Callers) /\ NoRepeats(openQueue')
          /\ \A x : Queued(openQueue', x) <=> (x # c /\ Queued(openQueue, x))
      BY <1>0, <3>1, <3>2, <3>4, TailProperties
    <3>6. OnlyFirstWoken(w, openQueue', n, maxStreams)
      BY <1>0, <1>q, <2>3, <3>1 DEF OnlyFirstWoken
    <3>7. n \in Nat /\ n <= maxStreams /\ w \in [Callers -> {"empty", "token", "closed"}]
      BY <1>0, <3>1
    <3>8. /\ OnlyFirstWoken(wake', openQueue', n, maxStreams)
          /\ openQueue' # <<>> /\ n < maxStreams => wake'[Head(openQueue')] = "token"
      <4>1. CASE wake' = w /\ (openQueue' # <<>> => n >= maxStreams)
        BY <1>0, <3>6, <3>7, <4>1
      <4>2. CASE wake' = maybeUnblockOpenSync(w, openQueue', n, maxStreams)
        <5> HIDE DEF w, n
        <5> QED BY <1>0, <3>5, <3>6, <3>7, <4>2, UnblockProperties
      <4> QED BY <3>2, <4>1, <4>2
    <3>9. \A d \in Callers : pc'[d] \in Waiting <=> Queued(openQueue', d)
      BY <1>0, <2>3, <3>3, <3>5 DEF Waiting, QueueInv, WakeupInv
    <3>10. \A d \in Callers : pc'[d] # "chanWoken"
      BY <1>0, <2>3, <3>1, <3>3 DEF QueueInv, WakeupInv
    <3>11. OnlyFirstWoken(wake, openQueue, numStreams, maxStreams)'
      BY <3>2, <3>8 DEF OnlyFirstWoken
    <3> QED BY <1>d, <2>3, <3>2, <3>5, <3>7, <3>8, <3>9, <3>10, <3>11
  <2> QED BY <2>1, <2>2, <2>3
<1>10. ASSUME NEW c \in Callers, Relock2(c) PROVE QueueInv'
  BY <1>b, <1>c, <1>10 DEF Relock2, Positions, Waiting, Holding
<1>11. ASSUME NEW c \in Callers, QUICOpens(c) PROVE QueueInv'
  BY <1>c, <1>11 DEF QUICOpens, Positions, Waiting, Holding
<1>12. ASSUME NEW c \in Callers, Opened(c) PROVE QueueInv'
  BY <1>c, <1>12 DEF Opened, Return, Positions, Waiting, Holding
\* More room, from a returned slot or from a higher limit: wake the first waiter.
<1>13. ASSUME ~closeErr, ~closeErr', numStreams' <= numStreams, maxStreams <= maxStreams',
              numStreams' \in Nat, maxStreams' \in Nat, UNCHANGED openQueue,
              wake' = maybeUnblockOpenSync(wake, openQueue, numStreams', maxStreams'),
              \A c \in Callers : /\ pc'[c] \in Waiting <=> pc[c] \in Waiting
                                 /\ pc'[c] = "chanWoken" => pc[c] = "chanWoken"
       PROVE  QueueInv'
  <2>1. OnlyFirstWoken(wake, openQueue, numStreams', maxStreams')
    BY <1>0, <1>13, <1>q DEF OnlyFirstWoken
  <2>2. /\ OnlyFirstWoken(wake', openQueue, numStreams', maxStreams')
        /\ openQueue # <<>> /\ numStreams' < maxStreams' => wake'[Head(openQueue)] = "token"
    BY <1>0, <1>13, <2>1, UnblockProperties
  <2>3. OnlyFirstWoken(wake, openQueue, numStreams, maxStreams)'
    BY <1>13, <2>2 DEF OnlyFirstWoken
  <2>4. numStreams' <= maxStreams'
    BY <1>0, <1>13 DEF QueueInv
  <2>5. /\ NoRepeats(openQueue')
        /\ \A c \in Callers : pc'[c] \in Waiting <=> Queued(openQueue', c)
    BY <1>0, <1>13 DEF QueueInv, WakeupInv
  <2>6. \A c \in Callers : pc'[c] = "chanWoken" =>
          openQueue' # <<>> /\ Head(openQueue') = c /\ numStreams' < maxStreams'
    BY <1>0, <1>13 DEF QueueInv, WakeupInv
  <2> QED BY <1>13, <1>d, <2>2, <2>3, <2>4, <2>5, <2>6
<1>14. ASSUME NEW c \in Callers, OpenFailed(c) PROVE QueueInv'
  <2>1. CASE closeErr
    BY <1>b, <1>14, <2>1 DEF OpenFailed
  <2>2. CASE ~closeErr
    <3>1. numStreams' \in Nat
      BY TypeStep DEF TypeOK
    <3>2. /\ numStreams' = numStreams - 1 /\ UNCHANGED <<closeErr, openQueue, maxStreams>>
          /\ wake' = maybeUnblockOpenSync(wake, openQueue, numStreams', maxStreams')
          /\ pc[c] = "openFailed" /\ pc' = [pc EXCEPT ![c] = "idle"]
      BY <1>14, <2>2 DEF OpenFailed, ReturnSlot, Return, Go
    <3>3. \A d \in Callers : /\ pc'[d] \in Waiting <=> pc[d] \in Waiting
                             /\ pc'[d] = "chanWoken" => pc[d] = "chanWoken"
      BY <1>0, <3>2 DEF Waiting
    <3>4. numStreams' <= numStreams /\ maxStreams <= maxStreams' /\ maxStreams' \in Nat
      BY <1>0, <3>2
    <3> QED BY <1>13, <2>2, <3>1, <3>2, <3>3, <3>4
  <2> QED BY <2>1, <2>2
<1>15. ASSUME NEW limit \in Limits, UpdateStreamLimit(limit) PROVE QueueInv'
  <2>1. /\ ~closeErr /\ limit > maxStreams /\ maxStreams' = limit
        /\ UNCHANGED <<closeErr, openQueue, numStreams, pc>>
        /\ wake' = maybeUnblockOpenSync(wake, openQueue, numStreams', maxStreams')
    BY <1>15 DEF UpdateStreamLimit, SetLimit
  <2>2. numStreams' <= numStreams /\ maxStreams <= maxStreams' /\ maxStreams' \in Nat
        /\ numStreams' \in Nat
    BY <1>0, <2>1, LimitsAssumption
  <2> QED BY <1>13, <2>1, <2>2
<1>16. CASE UNCHANGED <<closeErr, openQueue, wake, numStreams, maxStreams, pc>>
  BY <1>0, <1>16 DEF QueueInv, WakeupInv, NoLostWakeup
<1>17. ASSUME NEW c \in Callers, CtxDone(c) PROVE QueueInv'
  BY <1>16, <1>17 DEF CtxDone
<1>18. ASSUME NEW id \in m, removeStream(id) PROVE QueueInv'
  BY <1>16, <1>18 DEF removeStream
<1>19. CASE CloseSession
  BY <1>0, <1>a, <1>19 DEF CloseSession, QueueInv
<1>20. CASE UNCHANGED vars
  BY <1>16, <1>20 DEF vars
<1> QED
  BY <1>1, <1>2, <1>3, <1>4, <1>5, <1>6, <1>8, <1>9, <1>10, <1>11, <1>12, <1>14,
     <1>15, <1>17, <1>18, <1>19, <1>20 DEF Next, CallStep

\* Inv is an inductive invariant of the map.
THEOREM Invariance == Spec => []Inv
<1>1. Inv /\ [Next]_vars => Inv'
  BY TypeStep, SlotStep, QueueStep DEF Inv, QueueInv
<1> QED BY InitInv, <1>1, PTL DEF Spec

-----------------------------------------------------------------------------
\* Type correctness; in particular the unsigned numStreams never underflows
\* when a failed open returns its slot (line 226).
THEOREM TypeCorrect == Spec => []TypeOK
<1>1. Inv => TypeOK
  BY DEF Inv
<1> QED BY Invariance, <1>1, PTL

\* OpenStream and OpenStreamSync never exceed the limit of the peer, and no path
\* through OpenStreamSync loses a slot while the session is open.
THEOREM SlotsKept == Spec => []SlotsExact
<1>1. Inv => SlotsExact
  <2> SUFFICES ASSUME Inv PROVE SlotsExact
    OBVIOUS
  <2>1. Cardinality(Slots) \in Nat
    BY CallersAssumption, FS_Subset, FS_CardinalityType DEF Slots
  <2> QED BY <2>1 DEF Inv, TypeOK, SlotAccounting, Slots, SlotsExact
<1> QED BY Invariance, <1>1, PTL

\* openQueue holds exactly the calls that wait, each once.
THEOREM QueueExact == Spec => []QueueHoldsWaiters
<1>1. Inv => QueueHoldsWaiters
  BY DEF Inv, WakeupInv, NoRepeats, Queued, QueueHoldsWaiters
<1> QED BY Invariance, <1>1, PTL

\* A free slot and a waiting call imply a pending wakeup of the first waiter.
THEOREM WakeupsKept == Spec => []NoLostWakeup
<1>1. Inv => NoLostWakeup
  BY DEF Inv
<1> QED BY Invariance, <1>1, PTL
-----------------------------------------------------------------------------
\* A stream of the session is in the map, closed, or about to be entered into
\* the map by the call that opened it.
StreamInv ==
  /\ closeErr => m = {}
  /\ \A id \in 1..nextID : \/ id \in m \cup gone \cup finished
                           \/ \E c \in Callers : pc[c] = "opened" /\ str[c] = id

\* Positions of a caller that is about to pass arg[c] to queueBlocked.
Telling == {"limitErr", "blocked1", "blocked2"}

\* The limits passed to queueBlocked and those about to be passed are pairwise
\* different, and blockedSent tells whether the current limit is one of them.
TellInv ==
  /\ NoRepeats(blocked)
  /\ \A i \in 1..Len(blocked) : blocked[i] < maxStreams \/ (blocked[i] = maxStreams /\ blockedSent)
  /\ \A c \in Callers : pc[c] \in Telling =>
       /\ arg[c] < maxStreams \/ (arg[c] = maxStreams /\ blockedSent)
       /\ \A i \in 1..Len(blocked) : blocked[i] # arg[c]
       /\ \A d \in Callers : pc[d] \in Telling /\ arg[d] = arg[c] => d = c
  /\ blockedSent =>
       \/ \E i \in 1..Len(blocked) : blocked[i] = maxStreams
       \/ \E c \in Callers : pc[c] \in Telling /\ arg[c] = maxStreams

\* Whoever makes calls wait at the limit sets blockedSent.
WaitersTold ==
  ~closeErr /\ openQueue # <<>> /\ numStreams >= maxStreams => blockedSent

-----------------------------------------------------------------------------
\* The streams, step by step: CloseSession may come between conn.OpenStreamSync
\* and the lock under which the stream is entered into the map.
LEMMA StreamStep == Inv /\ StreamInv /\ [Next]_vars => StreamInv'
<1> SUFFICES ASSUME Inv, StreamInv, [Next]_vars PROVE StreamInv'
  OBVIOUS
<1> USE DEF limitVars, streamVars, ctxVars, localVars, Go, Return
<1>0. TypeOK
  BY DEF Inv
<1>a. ASSUME UNCHANGED <<closeErr, streamVars, str>>,
             \A c \in Callers : pc'[c] = "opened" <=> pc[c] = "opened"
      PROVE  StreamInv'
  BY <1>a DEF StreamInv
<1>b. ASSUME UNCHANGED <<closeErr, streamVars, str>>, NEW c \in Callers, NEW p,
             pc[c] # "opened", p # "opened", pc' = [pc EXCEPT ![c] = p]
      PROVE  StreamInv'
  BY <1>0, <1>a, <1>b DEF TypeOK
<1>1. ASSUME NEW c \in Callers, OpenStream(c) PROVE StreamInv'
  <2>1. CASE MarkBlocked(c, "limitErr") /\ UNCHANGED <<m, nextID>>
    BY <1>b, <1>1, <2>1 DEF OpenStream, MarkBlocked
  <2>2. CASE nextID' = nextID + 1 /\ m' = m \cup {nextID + 1} /\ UNCHANGED pc
    <3>1. 1..nextID' = 1..nextID \cup {nextID + 1}
      BY <1>0, <2>2 DEF TypeOK
    <3> QED
      BY <1>1, <2>2, <3>1 DEF OpenStream, OpenStreamAllowed, StreamInv
  <2> QED
    BY <1>1, <2>1, <2>2 DEF OpenStream
<1>2. ASSUME NEW c \in Callers, OpenStreamSync(c) PROVE StreamInv'
  <2>1. PICK p \in {"opening", "blocked1", "select"} : pc' = [pc EXCEPT ![c] = p]
    BY <1>2 DEF OpenStreamSync, MarkBlocked
  <2> QED
    BY <1>b, <1>2, <2>1 DEF OpenStreamSync
<1>3. ASSUME NEW c \in Callers, QueueBlocked(c) PROVE StreamInv'
  BY <1>b, <1>3 DEF QueueBlocked
<1>4. ASSUME NEW c \in Callers, Relock1(c) PROVE StreamInv'
  BY <1>b, <1>4 DEF Relock1
<1>5. ASSUME NEW c \in Callers, SelectCtx(c) PROVE StreamInv'
  BY <1>b, <1>5 DEF SelectCtx
<1>6. ASSUME NEW c \in Callers, SelectChan(c) PROVE StreamInv'
  BY <1>b, <1>6 DEF SelectChan
<1>7. ASSUME NEW c \in Callers, CtxWoken(c) PROVE StreamInv'
  BY <1>b, <1>7 DEF CtxWoken
<1>8. ASSUME NEW c \in Callers, ChanWoken(c) PROVE StreamInv'
  <2>1. PICK p \in {"idle", "blocked2", "opening"} : pc' = [pc EXCEPT ![c] = p]
    BY <1>8 DEF ChanWoken, TakeSlot, MarkBlocked
  <2> QED
    BY <1>b, <1>8, <2>1 DEF ChanWoken
<1>9. ASSUME NEW c \in Callers, Relock2(c) PROVE StreamInv'
  BY <1>b, <1>9 DEF Relock2
<1>10. ASSUME NEW c \in Callers, QUICOpens(c) PROVE StreamInv'
  <2>1. CASE pc' = [pc EXCEPT ![c] = "openFailed"] /\ UNCHANGED <<nextID, str>>
    BY <1>b, <1>10, <2>1 DEF QUICOpens
  <2>2. CASE nextID' = nextID + 1 /\ str' = [str EXCEPT ![c] = nextID + 1]
             /\ pc' = [pc EXCEPT ![c] = "opened"]
    <3>1. 1..nextID' = 1..nextID \cup {nextID + 1}
      BY <1>0, <2>2 DEF TypeOK
    <3>2. pc'[c] = "opened" /\ str'[c] = nextID + 1
      BY <1>0, <2>2 DEF TypeOK
    <3>3. \A d \in Callers : pc[d] = "opened" => pc'[d] = "opened" /\ str'[d] = str[d]
      BY <1>0, <1>10, <2>2 DEF QUICOpens, TypeOK
    <3>4. UNCHANGED <<closeErr, m, gone, finished>>
      BY <1>10 DEF QUICOpens
    <3> QED
      BY <3>1, <3>2, <3>3, <3>4 DEF StreamInv
  <2> QED
    BY <1>10, <2>1, <2>2 DEF QUICOpens
<1>11. ASSUME NEW c \in Callers, Opened(c) PROVE StreamInv'
  <2>1. /\ m \subseteq m' /\ gone \subseteq gone' /\ str[c] \in m' \cup gone'
        /\ closeErr' => m' = m
        /\ UNCHANGED <<closeErr, nextID, finished>>
    BY <1>11 DEF Opened, Register
  <2>2. \A d \in Callers : pc[d] = "opened" /\ d # c => pc'[d] = "opened" /\ str'[d] = str[d]
    BY <1>0, <1>11 DEF Opened, TypeOK
  <2> QED
    BY <2>1, <2>2 DEF StreamInv
<1>12. ASSUME NEW c \in Callers, OpenFailed(c) PROVE StreamInv'
  BY <1>b, <1>12 DEF OpenFailed
<1>13. ASSUME NEW c \in Callers, CtxDone(c) PROVE StreamInv'
  BY <1>a, <1>13 DEF CtxDone
<1>14. ASSUME NEW id \in m, removeStream(id) PROVE StreamInv'
  BY <1>14 DEF removeStream, StreamInv
<1>15. ASSUME NEW limit \in Limits, UpdateStreamLimit(limit) PROVE StreamInv'
  BY <1>a, <1>15 DEF UpdateStreamLimit
<1>16. CASE CloseSession
  BY <1>16 DEF CloseSession, StreamInv
<1>17. CASE UNCHANGED vars
  BY <1>a, <1>17 DEF vars
<1> QED
  BY <1>1, <1>2, <1>3, <1>4, <1>5, <1>6, <1>7, <1>8, <1>9, <1>10, <1>11, <1>12, <1>13,
     <1>14, <1>15, <1>16, <1>17 DEF Next, CallStep

\* No stream of the session outlives it, whatever the order of CloseSession and
\* the calls that open streams.
THEOREM NoStreamLeft == Spec => []StreamsClosedWithSession
<1>1. Init => StreamInv
  BY DEF Init, StreamInv
<1>2. StreamInv => StreamsClosedWithSession
  BY DEF StreamInv, StreamsClosedWithSession
<1> QED
  BY Invariance, StreamStep, <1>1, <1>2, PTL DEF Spec

-----------------------------------------------------------------------------
\* The queue is left by at most one caller: it does not get longer.
LEMMA WithoutNonEmpty ==
  ASSUME NEW q, NEW c, Without(q, c) # <<>>
  PROVE  q # <<>>
BY DEF Without

\* MarkBlocked and queueBlocked, step by step: the limit may grow between the two.
LEMMA TellStep == Inv /\ TellInv /\ [Next]_vars => TellInv'
<1> SUFFICES ASSUME Inv, TellInv, [Next]_vars PROVE TellInv'
  OBVIOUS
<1> USE DEF limitVars, streamVars, ctxVars, localVars, Go, Return
<1>0. TypeOK
  BY DEF Inv
<1>a. ASSUME UNCHANGED <<blocked, arg, maxStreams, blockedSent>>,
             \A c \in Callers : pc'[c] \in Telling <=> pc[c] \in Telling
      PROVE  TellInv'
  BY <1>a DEF TellInv, NoRepeats
<1>b. ASSUME UNCHANGED <<blocked, arg, maxStreams, blockedSent>>, NEW c \in Callers, NEW p,
             pc[c] \notin Telling, p \notin Telling, pc' = [pc EXCEPT ![c] = p]
      PROVE  TellInv'
  BY <1>0, <1>a, <1>b DEF TypeOK
<1>c. ASSUME UNCHANGED <<blocked, maxStreams>>, NEW c \in Callers, NEW p \in Telling,
             pc[c] \notin Telling, ~blockedSent, MarkBlocked(c, p)
      PROVE  TellInv'
  <2>1. /\ blockedSent' = TRUE /\ pc'[c] \in Telling /\ arg'[c] = maxStreams
        /\ \A d \in Callers : d # c => pc'[d] = pc[d] /\ arg'[d] = arg[d]
    BY <1>0, <1>c DEF MarkBlocked, TypeOK
  <2>2. \A i \in 1..Len(blocked) : blocked[i] < maxStreams /\ blocked[i] \in Nat
    BY <1>0, <1>c DEF TellInv, TypeOK
  <2>3. \A d \in Callers : d # c /\ pc[d] \in Telling =>
          /\ arg[d] < maxStreams /\ arg[d] \in Nat
          /\ \A i \in 1..Len(blocked) : blocked[i] # arg[d]
          /\ \A e \in Callers : pc[e] \in Telling /\ arg[e] = arg[d] => e = d
    BY <1>0, <1>c DEF TellInv, TypeOK
  <2>4. maxStreams \in Nat
    BY <1>0 DEF TypeOK
  <2>5. \A d \in Callers : pc'[d] \in Telling =>
          /\ arg'[d] < maxStreams' \/ (arg'[d] = maxStreams' /\ blockedSent')
          /\ \A i \in 1..Len(blocked') : blocked'[i] # arg'[d]
    BY <1>c, <2>1, <2>2, <2>3, <2>4
  <2>6. \A d, e \in Callers : pc'[d] \in Telling /\ pc'[e] \in Telling /\ arg'[e] = arg'[d]
          => e = d
    BY <2>1, <2>3, <2>4
  <2>7. NoRepeats(blocked')
    BY <1>c DEF TellInv
  <2> QED
    BY <1>c, <2>1, <2>2, <2>5, <2>6, <2>7 DEF TellInv
<1>1. ASSUME NEW c \in Callers, OpenStream(c) PROVE TellInv'
  <2>1. CASE ~blockedSent /\ MarkBlocked(c, "limitErr")
    BY <1>c, <1>1, <2>1 DEF OpenStream, Telling
  <2>2. CASE UNCHANGED <<blockedSent, arg, pc>>
    BY <1>a, <1>1, <2>2 DEF OpenStream
  <2> QED
    BY <1>1, <2>1, <2>2 DEF OpenStream
<1>2. ASSUME NEW c \in Callers, OpenStreamSync(c) PROVE TellInv'
  <2>1. CASE ~blockedSent /\ MarkBlocked(c, "blocked1")
    BY <1>c, <1>2, <2>1 DEF OpenStreamSync, Telling
  <2>2. CASE UNCHANGED <<blockedSent, arg>> /\ pc' = [pc EXCEPT ![c] = "opening"]
    BY <1>b, <1>2, <2>2 DEF OpenStreamSync, Telling
  <2>3. CASE UNCHANGED <<blockedSent, arg>> /\ pc' = [pc EXCEPT ![c] = "select"]
    BY <1>b, <1>2, <2>3 DEF OpenStreamSync, Telling
  <2> QED
    BY <1>2, <2>1, <2>2, <2>3 DEF OpenStreamSync
<1>3. ASSUME NEW c \in Callers, QueueBlocked(c) PROVE TellInv'
  <2>1. pc[c] \in Telling /\ UNCHANGED <<maxStreams, blockedSent>>
    BY <1>3 DEF QueueBlocked, Telling
  <2>2. pc'[c] \notin Telling /\ \A d \in Callers : d # c => pc'[d] = pc[d] /\ arg'[d] = arg[d]
    BY <1>0, <1>3 DEF QueueBlocked, Telling, TypeOK
  <2>3. /\ blocked' = Append(blocked, arg[c]) /\ blocked \in Seq(Nat) /\ arg[c] \in Nat
        /\ maxStreams \in Nat
    BY <1>0, <1>3 DEF QueueBlocked, TypeOK
  <2>4. /\ Len(blocked') = Len(blocked) + 1 /\ Len(blocked) \in Nat
        /\ \A i \in 1..Len(blocked) : blocked'[i] = blocked[i]
        /\ blocked'[Len(blocked) + 1] = arg[c]
    BY <2>3
  <2>5. \A i \in 1..Len(blocked) : blocked[i] # arg[c]
    BY <2>1 DEF TellInv
  <2>6. NoRepeats(blocked')
    <3> SUFFICES ASSUME NEW i \in 1..Len(blocked'), NEW j \in 1..Len(blocked'),
                        blocked'[i] = blocked'[j]
                 PROVE  i = j
      BY DEF NoRepeats
    <3>1. CASE i \in 1..Len(blocked) /\ j \in 1..Len(blocked)
      BY <2>4, <3>1 DEF TellInv, NoRepeats
    <3>2. CASE i = Len(blocked) + 1 /\ j \in 1..Len(blocked)
      BY <2>4, <2>5, <3>2
    <3>3. CASE j = Len(blocked) + 1 /\ i \in 1..Len(blocked)
      BY <2>4, <2>5, <3>3
    <3>4. CASE i = Len(blocked) + 1 /\ j = Len(blocked) + 1
      BY <3>4
    <3> QED
      BY <2>4, <3>1, <3>2, <3>3, <3>4
  <2>7. \A i \in 1..Len(blocked') :
          blocked'[i] < maxStreams' \/ (blocked'[i] = maxStreams' /\ blockedSent')
    <3>1. arg[c] < maxStreams \/ (arg[c] = maxStreams /\ blockedSent)
      BY <2>1 DEF TellInv
    <3>2. \A i \in 1..Len(blocked) :
            blocked[i] < maxStreams \/ (blocked[i] = maxStreams /\ blockedSent)
      BY DEF TellInv
    <3> QED
      BY <2>1, <2>4, <3>1, <3>2
  <2>8. ASSUME NEW d \in Callers, pc'[d] \in Telling
        PROVE  /\ arg'[d] < maxStreams' \/ (arg'[d] = maxStreams' /\ blockedSent')
               /\ \A i \in 1..Len(blocked') : blocked'[i] # arg'[d]
               /\ \A e \in Callers : pc'[e] \in Telling /\ arg'[e] = arg'[d] => e = d
    <3>1. d # c /\ pc[d] \in Telling /\ arg'[d] = arg[d]
      BY <2>2, <2>8
    <3>2. arg'[d] < maxStreams' \/ (arg'[d] = maxStreams' /\ blockedSent')
      BY <2>1, <3>1 DEF TellInv
    <3>3. arg[c] # arg[d] /\ \A i \in 1..Len(blocked) : blocked[i] # arg[d]
      BY <2>1, <3>1 DEF TellInv
    <3>4. \A i \in 1..Len(blocked') : blocked'[i] # arg'[d]
      BY <2>4, <3>1, <3>3
    <3>5. \A e \in Callers : pc'[e] \in Telling /\ arg'[e] = arg'[d] => e = d
      BY <2>2, <3>1 DEF TellInv
    <3> QED
      BY <3>2, <3>4, <3>5
  <2>9. ASSUME blockedSent'
        PROVE  \/ \E i \in 1..Len(blocked') : blocked'[i] = maxStreams'
               \/ \E d \in Callers : pc'[d] \in Telling /\ arg'[d] = maxStreams'
    <3>1. CASE \E i \in 1..Len(blocked) : blocked[i] = maxStreams
      BY <2>1, <2>4, <3>1
    <3>2. ASSUME NEW d \in Callers, pc[d] \in Telling, arg[d] = maxStreams
          PROVE  \/ \E i \in 1..Len(blocked') : blocked'[i] = maxStreams'
                 \/ \E e \in Callers : pc'[e] \in Telling /\ arg'[e] = maxStreams'
      <4>1. CASE d = c
        <5>1. Len(blocked) + 1 \in 1..Len(blocked')
          BY <2>4
        <5> QED
          BY <2>1, <2>4, <3>2, <4>1, <5>1
      <4>2. CASE d # c
        BY <2>1, <2>2, <3>2, <4>2
      <4> QED
        BY <4>1, <4>2
    <3> QED
      BY <2>1, <2>9, <3>1, <3>2 DEF TellInv
  <2> QED
    BY <2>6, <2>7, <2>8, <2>9 DEF TellInv
<1>4. ASSUME NEW c \in Callers, Relock1(c) PROVE TellInv'
  BY <1>b, <1>4 DEF Relock1, Telling
<1>5. ASSUME NEW c \in Callers, SelectCtx(c) PROVE TellInv'
  BY <1>b, <1>5 DEF SelectCtx, Telling
<1>6. ASSUME NEW c \in Callers, SelectChan(c) PROVE TellInv'
  BY <1>b, <1>6 DEF SelectChan, Telling
<1>7. ASSUME NEW c \in Callers, CtxWoken(c) PROVE TellInv'
  BY <1>b, <1>7 DEF CtxWoken, Telling
<1>8. ASSUME NEW c \in Callers, ChanWoken(c) PROVE TellInv'
  <2>1. CASE ~blockedSent /\ MarkBlocked(c, "blocked2")
    BY <1>c, <1>8, <2>1 DEF ChanWoken, Telling
  <2>2. CASE UNCHANGED <<blockedSent, arg>> /\ pc' = [pc EXCEPT ![c] = "idle"]
    BY <1>b, <1>8, <2>2 DEF ChanWoken, Telling
  <2>3. CASE UNCHANGED <<blockedSent, arg>> /\ pc' = [pc EXCEPT ![c] = "opening"]
    BY <1>b, <1>8, <2>3 DEF ChanWoken, Telling
  <2> QED
    BY <1>8, <2>1, <2>2, <2>3 DEF ChanWoken, TakeSlot
<1>9. ASSUME NEW c \in Callers, Relock2(c) PROVE TellInv'
  BY <1>b, <1>9 DEF Relock2, Telling
<1>10. ASSUME NEW c \in Callers, QUICOpens(c) PROVE TellInv'
  <2>1. PICK p \in {"opened", "openFailed"} : pc' = [pc EXCEPT ![c] = p]
    BY <1>10 DEF QUICOpens
  <2> QED
    BY <1>b, <1>10, <2>1 DEF QUICOpens, Telling
<1>11. ASSUME NEW c \in Callers, Opened(c) PROVE TellInv'
  BY <1>b, <1>11 DEF Opened, Telling
<1>12. ASSUME NEW c \in Callers, OpenFailed(c) PROVE TellInv'
  BY <1>b, <1>12 DEF OpenFailed, Telling
<1>13. ASSUME NEW c \in Callers, CtxDone(c) PROVE TellInv'
  BY <1>a, <1>13 DEF CtxDone
<1>14. ASSUME NEW id \in m, removeStream(id) PROVE TellInv'
  BY <1>a, <1>14 DEF removeStream
<1>15. ASSUME NEW limit \in Limits, UpdateStreamLimit(limit) PROVE TellInv'
  <2>1. /\ UNCHANGED <<blocked, arg, pc>> /\ blockedSent' = FALSE /\ maxStreams' = limit
        /\ maxStreams < limit /\ limit \in Nat /\ maxStreams \in Nat
    BY <1>0, <1>15, LimitsAssumption DEF UpdateStreamLimit, SetLimit, TypeOK
  <2>2. \A i \in 1..Len(blocked) : blocked[i] \in Nat /\ blocked[i] < limit
    BY <1>0, <2>1 DEF TellInv, TypeOK
  <2>3. \A c \in Callers : pc[c] \in Telling => arg[c] < limit
    BY <1>0, <2>1 DEF TellInv, TypeOK
  <2> QED
    BY <2>1, <2>2, <2>3 DEF TellInv
<1>16. CASE CloseSession
  BY <1>a, <1>16 DEF CloseSession
<1>17. CASE UNCHANGED vars
  BY <1>a, <1>17 DEF vars
<1> QED
  BY <1>1, <1>2, <1>3, <1>4, <1>5, <1>6, <1>7, <1>8, <1>9, <1>10, <1>11, <1>12, <1>13,
     <1>14, <1>15, <1>16, <1>17 DEF Next, CallStep

\* Calls wait at the limit only after blockedSent was set: by OpenStreamSync, or
\* by the woken waiter that takes the last slot and leaves others in the queue.
LEMMA WaitersToldStep == Inv /\ WaitersTold /\ [Next]_vars => WaitersTold'
<1> SUFFICES ASSUME Inv, WaitersTold, [Next]_vars,
                    ~closeErr', openQueue' # <<>>, numStreams' >= maxStreams'
             PROVE  blockedSent'
  BY DEF WaitersTold
<1> USE DEF limitVars, streamVars, ctxVars, localVars
<1>0. /\ TypeOK /\ numStreams <= maxStreams
      /\ numStreams \in Nat /\ maxStreams \in Nat
  BY DEF Inv, TypeOK
<1>a. ASSUME UNCHANGED <<closeErr, numStreams, maxStreams, blockedSent>>, openQueue # <<>>
      PROVE  blockedSent'
  BY <1>a DEF WaitersTold
<1>b. ASSUME UNCHANGED <<closeErr, numStreams, maxStreams, blockedSent, openQueue>>
      PROVE  blockedSent'
  BY <1>a, <1>b
<1>1. ASSUME NEW c \in Callers, OpenStream(c) PROVE blockedSent'
  BY <1>1 DEF OpenStream, OpenStreamAllowed
<1>2. ASSUME NEW c \in Callers, OpenStreamSync(c) PROVE blockedSent'
  <2>1. CASE openQueue = <<>> /\ UNCHANGED openQueue
    BY <2>1
  <2>2. CASE ~blockedSent /\ MarkBlocked(c, "blocked1")
    BY <2>2 DEF MarkBlocked
  <2>3. CASE UNCHANGED <<blockedSent, numStreams>> /\ ~(numStreams >= maxStreams /\ ~blockedSent)
    BY <1>2, <2>3 DEF OpenStreamSync
  <2> QED
    BY <1>2, <2>1, <2>2, <2>3 DEF OpenStreamSync
<1>3. ASSUME NEW c \in Callers, QueueBlocked(c) PROVE blockedSent'
  BY <1>b, <1>3 DEF QueueBlocked
<1>4. ASSUME NEW c \in Callers, Relock1(c) PROVE blockedSent'
  BY <1>b, <1>4 DEF Relock1
<1>5. ASSUME NEW c \in Callers, SelectCtx(c) \/ SelectChan(c) PROVE blockedSent'
  BY <1>b, <1>5 DEF SelectCtx, SelectChan
<1>6. ASSUME NEW c \in Callers, LeaveQueue(c),
             UNCHANGED <<closeErr, numStreams, maxStreams, blockedSent>>
      PROVE  blockedSent'
  <2>1. openQueue # <<>>
    BY <1>6, WithoutNonEmpty DEF LeaveQueue
  <2> QED
    BY <1>a, <1>6, <2>1
<1>7. ASSUME NEW c \in Callers, CtxWoken(c) PROVE blockedSent'
  BY <1>6, <1>7 DEF CtxWoken
<1>8. ASSUME NEW c \in Callers, ChanWoken(c) PROVE blockedSent'
  <2>1. CASE closeErr
    BY <1>8, <2>1 DEF ChanWoken
  <2>2. CASE LeaveQueue(c) /\ UNCHANGED <<numStreams, blockedSent>>
    BY <1>6, <1>8, <2>2 DEF ChanWoken
  <2>3. CASE TakeSlot(c)
    <3>1. numStreams' = numStreams + 1 /\ openQueue' = Tail(openQueue) /\ maxStreams' = maxStreams
      BY <1>8, <2>3 DEF ChanWoken, TakeSlot
    <3>2. Tail(openQueue) # <<>> /\ numStreams + 1 >= maxStreams
      BY <3>1
    <3>3. CASE blockedSent
      BY <2>3, <3>3 DEF TakeSlot, MarkBlocked
    <3>4. CASE ~blockedSent
      BY <2>3, <3>2, <3>4 DEF TakeSlot, MarkBlocked
    <3> QED
      BY <3>3, <3>4
  <2> QED
    BY <1>8, <2>1, <2>2, <2>3 DEF ChanWoken
<1>9. ASSUME NEW c \in Callers, Relock2(c) PROVE blockedSent'
  BY <1>b, <1>9 DEF Relock2
<1>10. ASSUME NEW c \in Callers, QUICOpens(c) PROVE blockedSent'
  BY <1>b, <1>10 DEF QUICOpens
<1>11. ASSUME NEW c \in Callers, Opened(c) PROVE blockedSent'
  BY <1>b, <1>11 DEF Opened
<1>12. ASSUME NEW c \in Callers, OpenFailed(c) PROVE blockedSent'
  <2>1. CASE closeErr
    BY <1>12, <2>1 DEF OpenFailed
  <2>2. CASE ~closeErr
    BY <1>0, <1>12, <2>2 DEF OpenFailed, ReturnSlot
  <2> QED
    BY <2>1, <2>2
<1>13. ASSUME NEW c \in Callers, CtxDone(c) PROVE blockedSent'
  BY <1>b, <1>13 DEF CtxDone
<1>14. ASSUME NEW id \in m, removeStream(id) PROVE blockedSent'
  BY <1>b, <1>14 DEF removeStream
<1>15. ASSUME NEW limit \in Limits, UpdateStreamLimit(limit) PROVE blockedSent'
  BY <1>0, <1>15, LimitsAssumption DEF UpdateStreamLimit, SetLimit
<1>16. CASE CloseSession
  BY <1>16 DEF CloseSession
<1>17. CASE UNCHANGED vars
  BY <1>b, <1>17 DEF vars
<1> QED
  BY <1>1, <1>2, <1>3, <1>4, <1>5, <1>7, <1>8, <1>9, <1>10, <1>11, <1>12, <1>13,
     <1>14, <1>15, <1>16, <1>17 DEF Next, CallStep

\* For any number of callers and any limits, queueBlocked is called at most once
\* for a limit, and calls never wait at a limit without the peer being told.
THEOREM BlockedReported == Spec => []PeerToldOnce
<1>1. Init => TellInv /\ WaitersTold
  <2>1. CASE Init
    <3>1. Len(blocked) = 0 /\ 1..Len(blocked) = {} /\ ~blockedSent /\ openQueue = <<>>
      BY <2>1 DEF Init
    <3>2. \A c \in Callers : pc[c] \notin Telling
      BY <2>1 DEF Init, Telling
    <3> QED
      BY <3>1, <3>2 DEF TellInv, WaitersTold, NoRepeats
  <2> QED
    BY <2>1
<1>2. TellInv /\ WaitersTold => PeerToldOnce
  BY DEF TellInv, WaitersTold, PeerToldOnce, NoRepeats, Telling
<1> QED
  BY Invariance, TellStep, WaitersToldStep, <1>1, <1>2, PTL DEF Spec

=============================================================================
