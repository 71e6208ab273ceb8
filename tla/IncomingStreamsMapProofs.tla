---------------------- MODULE IncomingStreamsMapProofs ----------------------
(***************************************************************************)
(* Proofs about streams_map_incoming.go, for any limits, any number of     *)
(* accepting goroutines, and any number of streams: the credit given to    *)
(* the peer is exact and implements CreditWindow, limits are advertised in *)
(* order, only streams beyond the advertised limit are refused, and no     *)
(* stream outlives the session.                                            *)
(*                                                                         *)
(* Cardinality(m) is subtracted in the code; the invariant states sums, so *)
(* that every step is a question about natural numbers.                    *)
(***************************************************************************)
EXTENDS IncomingStreamsMap, FiniteSetTheorems, TLAPS

Types ==
  /\ closed \in BOOLEAN
  /\ numStreams \in Nat /\ maxStreams \in Nat /\ queuedMaxStreams \in Nat /\ opened \in Nat
  /\ updates \subseteq Nat /\ advertised \in Seq(Nat)
  /\ m \subseteq 1..opened /\ inFlight \subseteq 1..opened /\ m \cap inFlight = {}
  /\ IsFiniteSet(m) /\ IsFiniteSet(inFlight)

\* The limit is the streams so far plus what may still be open, up to the cap.
\* The streams counted and those in flight are among the ones the peer opened.
CreditInv ==
  LET open == Cardinality(m)
  IN  /\ open <= numStreams /\ open <= MaxOpenStreams
      /\ numStreams <= maxStreams /\ maxStreams <= StreamsLimit
      /\ maxStreams + open <= numStreams + MaxOpenStreams
      /\ ~closed => \/ maxStreams + open = numStreams + MaxOpenStreams
                    \/ maxStreams = StreamsLimit
      /\ closed => m = {}
      /\ numStreams + Cardinality(inFlight) <= opened

\* A limit that was raised is queued, or the last one that was queued.
LimitsInv ==
  /\ \A limit \in updates : limit <= maxStreams
  /\ queuedMaxStreams <= maxStreams
  /\ maxStreams = queuedMaxStreams \/ maxStreams \in updates
  /\ queuedMaxStreams = IF advertised = <<>> THEN MaxOpenStreams ELSE advertised[Len(advertised)]
  /\ \A i \in 1..Len(advertised) :
       advertised[i] > (IF i = 1 THEN MaxOpenStreams ELSE advertised[i - 1])

StreamsInv == \A id \in 1..opened : id \in m \cup gone \cup finished \cup inFlight

Inv == Types /\ CreditInv /\ LimitsInv /\ StreamsInv

\* The sizes of the two sets are natural numbers.
LEMMA Sizes ==
  ASSUME Types
  PROVE  Cardinality(m) \in Nat /\ Cardinality(inFlight) \in Nat
BY FS_CardinalityType DEF Types

\* Initially the limit is MaxOpenStreams and nothing has been opened.
LEMMA InitInv == Init => Inv
<1> SUFFICES ASSUME Init PROVE Inv
  OBVIOUS
<1>1. Cardinality({}) = 0 /\ IsFiniteSet({})
  BY FS_EmptySet
<1>2. Types
  <2>1. advertised = <<>> /\ updates = {} /\ closed = FALSE
    BY DEF Init
  <2>4. <<>> \in Seq(Nat)
    OBVIOUS
  <2>2. /\ numStreams \in Nat /\ maxStreams \in Nat /\ queuedMaxStreams \in Nat /\ opened \in Nat
    BY LimitsAssumption DEF Init
  <2>3. m = {} /\ inFlight = {}
    BY DEF Init
  <2> QED
    BY <1>1, <2>1, <2>4, <2>2, <2>3 DEF Types
<1>3. CreditInv
  BY <1>1, LimitsAssumption DEF Init, CreditInv
<1>4. LimitsInv
  BY LimitsAssumption DEF Init, LimitsInv
<1>5. StreamsInv
  BY DEF Init, StreamsInv
<1> QED
  BY <1>2, <1>3, <1>4, <1>5 DEF Inv

-----------------------------------------------------------------------------
\* The peer opens a stream.
LEMMA OpenStep == Inv /\ PeerOpens => Inv'
<1> SUFFICES ASSUME Inv, PeerOpens PROVE Inv'
  OBVIOUS
<1> USE DEF Inv, PeerOpens, limitVars, updateVars, streamVars
<1>1. Types /\ opened + 1 \notin inFlight
  BY DEF Types
<1>2. /\ Cardinality(inFlight') = Cardinality(inFlight) + 1 /\ IsFiniteSet(inFlight')
  BY <1>1, FS_AddElement DEF Types
<1>3. Types'
  BY <1>2 DEF Types
<1>4. CreditInv'
  BY <1>1, <1>2, Sizes DEF CreditInv, Types
<1>5. LimitsInv'
  BY DEF LimitsInv
<1>6. StreamsInv'
  BY <1>1 DEF StreamsInv, Types
<1> QED
  BY <1>3, <1>4, <1>5, <1>6

\* AddStream, in its three cases.
LEMMA AddStep ==
  ASSUME Inv, NEW id \in inFlight, AddStream(id)
  PROVE  Inv'
<1> USE DEF Inv, AddStream, updateVars
<1>1. Types /\ id \notin m /\ id \in 1..opened
  BY DEF Types
<1>2. Cardinality(inFlight') = Cardinality(inFlight) - 1 /\ IsFiniteSet(inFlight')
  BY <1>1, FS_RemoveElement DEF Types
<1>3. LimitsInv'
  BY DEF LimitsInv
<1>4. CASE AddToMap(id)
  <2>1. Cardinality(m') = Cardinality(m) + 1 /\ IsFiniteSet(m')
    BY <1>1, <1>4, FS_AddElement DEF Types, AddToMap
  <2>2. Types'
    BY <1>1, <1>2, <1>4, <2>1 DEF Types, AddToMap
  <2>3. CreditInv'
    <3>1. /\ numStreams < maxStreams /\ numStreams' = numStreams + 1 /\ ~closed
          /\ UNCHANGED <<closed, maxStreams, opened>>
      BY <1>1, <1>4 DEF Types, AddToMap, AtLimit
    <3>2. /\ numStreams \in Nat /\ maxStreams \in Nat /\ MaxOpenStreams \in Nat /\ opened \in Nat
          /\ Cardinality(m) \in Nat /\ Cardinality(inFlight) \in Nat
      BY <1>1, Sizes, LimitsAssumption DEF Types
    <3>3. /\ Cardinality(m') <= numStreams' /\ Cardinality(m') <= MaxOpenStreams
          /\ numStreams' <= maxStreams' /\ maxStreams' <= StreamsLimit
          /\ numStreams' + Cardinality(inFlight') <= opened'
      BY <1>2, <2>1, <3>1, <3>2 DEF CreditInv
    <3>4. /\ maxStreams' + Cardinality(m') <= numStreams' + MaxOpenStreams
          /\ \/ maxStreams' + Cardinality(m') = numStreams' + MaxOpenStreams
             \/ maxStreams' = StreamsLimit
      BY <2>1, <3>1, <3>2 DEF CreditInv
    <3> QED
      BY <3>1, <3>3, <3>4 DEF CreditInv
  <2>4. StreamsInv'
    BY <1>4 DEF StreamsInv, AddToMap
  <2> QED
    BY <1>3, <2>2, <2>3, <2>4
<1>5. CASE AddAfterClose(id) \/ AddOverLimit(id)
  <2>1. UNCHANGED <<closed, m, numStreams, maxStreams, opened>> /\ gone' = gone \cup {id}
    BY <1>5 DEF AddAfterClose, AddOverLimit
  <2>2. Types'
    BY <1>2, <2>1 DEF Types
  <2>3. CreditInv'
    BY <1>1, <1>2, <2>1, Sizes DEF Types, CreditInv
  <2>4. StreamsInv'
    BY <2>1 DEF StreamsInv
  <2> QED
    BY <1>3, <2>2, <2>3, <2>4
<1> QED
  BY <1>4, <1>5

\* A stream leaves the map: the limit grows by one, unless it is at the cap.
LEMMA RemoveCredit ==
  ASSUME Inv, NEW id \in m, RemoveStream(id)
  PROVE  /\ maxStreams' \in Nat /\ maxStreams' >= maxStreams /\ maxStreams' <= StreamsLimit
         /\ Cardinality(m) = Cardinality(m') + 1 /\ Cardinality(m') \in Nat /\ IsFiniteSet(m')
         /\ \/ maxStreams' + Cardinality(m') = numStreams + MaxOpenStreams
            \/ /\ maxStreams' = StreamsLimit
               /\ maxStreams' + Cardinality(m') <= numStreams + MaxOpenStreams
         /\ \/ maxStreams' = maxStreams /\ updates' = updates
            \/ updates' = updates \cup {maxStreams'}
         /\ ~closed
<1> DEFINE k == Cardinality(m')
<1>1. /\ m' = m \ {id} /\ UNCHANGED <<closed, numStreams>> /\ ~closed
  BY DEF RemoveStream, Inv, CreditInv
<1>2. Cardinality(m') = Cardinality(m) - 1 /\ IsFiniteSet(m')
  BY <1>1, FS_RemoveElement DEF Inv, Types
<1>3. Cardinality(m) \in Nat /\ k \in Nat
  BY <1>2, FS_CardinalityType, Sizes DEF Inv
<1>4. /\ numStreams \in Nat /\ maxStreams \in Nat /\ StreamsLimit \in Nat /\ MaxOpenStreams \in Nat
      /\ Cardinality(m) <= MaxOpenStreams /\ Cardinality(m) <= numStreams
      /\ maxStreams <= StreamsLimit
      /\ \/ maxStreams + Cardinality(m) = numStreams + MaxOpenStreams
         \/ maxStreams = StreamsLimit
      /\ maxStreams + Cardinality(m) <= numStreams + MaxOpenStreams
  BY <1>1, LimitsAssumption DEF Inv, Types, CreditInv
<1>5. Cardinality(m) = k + 1
  BY <1>2, <1>3
<1>6. k < MaxOpenStreams
  BY <1>3, <1>4, <1>5
<1>7. CASE maxStreams < StreamsLimit
  <2>1. numStreams + MaxOpenStreams - k = maxStreams + 1
    BY <1>3, <1>4, <1>5, <1>7
  <2>2. Raised(m') = maxStreams + 1
    BY <2>1, <1>4, <1>7 DEF Raised
  <2>3. maxStreams' = maxStreams + 1 /\ updates' = updates \cup {maxStreams'}
    BY <2>2, <1>4, <1>6, <1>7 DEF RemoveStream
  <2>4. maxStreams + 1 + k = numStreams + MaxOpenStreams
    BY <1>3, <1>4, <1>5, <1>7
  <2> QED
    BY <1>1, <1>2, <1>3, <1>4, <1>5, <1>7, <2>3, <2>4
<1>8. CASE ~(maxStreams < StreamsLimit)
  <2>1. maxStreams' = maxStreams /\ updates' = updates
    BY <1>8 DEF RemoveStream
  <2>2. maxStreams = StreamsLimit
    BY <1>4, <1>8
  <2>3. maxStreams + k <= numStreams + MaxOpenStreams
    BY <1>3, <1>4, <1>5
  <2> QED
    BY <1>1, <1>2, <1>3, <1>4, <1>5, <2>1, <2>2, <2>3
<1> QED
  BY <1>7, <1>8

\* RemoveStream.  A stream that is no longer in the map changes no limit.
LEMMA RemoveStep ==
  ASSUME Inv, NEW id \in accepted, RemoveStream(id)
  PROVE  Inv'
<1>1. /\ UNCHANGED <<closed, numStreams, queuedMaxStreams, advertised, opened, inFlight, gone>>
      /\ m' = m \ {id} /\ finished' = finished \cup {id}
  BY DEF RemoveStream, peerVars
<1>2. StreamsInv'
  BY <1>1 DEF StreamsInv, Inv
<1>3. CASE id \in m
  <2>1. /\ maxStreams' \in Nat /\ maxStreams' >= maxStreams /\ maxStreams' <= StreamsLimit
        /\ Cardinality(m) = Cardinality(m') + 1 /\ Cardinality(m') \in Nat /\ IsFiniteSet(m')
        /\ \/ maxStreams' + Cardinality(m') = numStreams + MaxOpenStreams
           \/ /\ maxStreams' = StreamsLimit
              /\ maxStreams' + Cardinality(m') <= numStreams + MaxOpenStreams
        /\ ~closed
    BY <1>3, RemoveCredit
  <2>2. \/ maxStreams' = maxStreams /\ updates' = updates
        \/ updates' = updates \cup {maxStreams'}
    BY <1>3, RemoveCredit
  <2>3. Types'
    BY <1>1, <2>1, <2>2 DEF Inv, Types
  <2>4. /\ numStreams \in Nat /\ maxStreams \in Nat /\ MaxOpenStreams \in Nat /\ opened \in Nat
        /\ queuedMaxStreams \in Nat /\ updates \subseteq Nat
    BY LimitsAssumption DEF Inv, Types
  <2>5. CreditInv'
    <3>1. /\ Cardinality(m') <= numStreams' /\ Cardinality(m') <= MaxOpenStreams
          /\ numStreams' <= maxStreams'
      BY <1>1, <2>1, <2>4 DEF Inv, CreditInv
    <3>2. /\ maxStreams' + Cardinality(m') <= numStreams' + MaxOpenStreams
          /\ \/ maxStreams' + Cardinality(m') = numStreams' + MaxOpenStreams
             \/ maxStreams' = StreamsLimit
      BY <1>1, <2>1, <2>4
    <3>3. numStreams' + Cardinality(inFlight') <= opened'
      BY <1>1 DEF Inv, CreditInv
    <3> QED
      BY <1>1, <2>1, <3>1, <3>2, <3>3 DEF CreditInv
  <2>6. LimitsInv'
    <3>1. /\ \A limit \in updates' : limit <= maxStreams'
          /\ queuedMaxStreams' <= maxStreams'
      <4>1. /\ \A limit \in updates : limit \in Nat /\ limit <= maxStreams
            /\ queuedMaxStreams <= maxStreams
        BY <2>4 DEF Inv, LimitsInv
      <4>2. maxStreams' \in Nat /\ maxStreams <= maxStreams'
        BY <2>1, <2>4
      <4>3. ASSUME NEW limit \in updates' PROVE limit <= maxStreams'
        <5>1. limit \in updates \/ limit = maxStreams'
          BY <2>2
        <5>2. CASE limit \in updates
          <6>1. limit \in Nat /\ limit <= maxStreams
            BY <4>1, <5>2
          <6> QED
            BY <2>4, <4>2, <6>1
        <5>3. CASE limit = maxStreams'
          BY <4>2, <5>3
        <5> QED
          BY <5>1, <5>2, <5>3
      <4>4. queuedMaxStreams' <= maxStreams'
        BY <1>1, <2>4, <4>1, <4>2
      <4> QED
        BY <4>3, <4>4
    <3>2. maxStreams' = queuedMaxStreams' \/ maxStreams' \in updates'
      BY <1>1, <2>2 DEF Inv, LimitsInv
    <3>3. /\ queuedMaxStreams' = IF advertised' = <<>> THEN MaxOpenStreams
                                 ELSE advertised'[Len(advertised')]
          /\ \A i \in 1..Len(advertised') :
               advertised'[i] > (IF i = 1 THEN MaxOpenStreams ELSE advertised'[i - 1])
      BY <1>1 DEF Inv, LimitsInv
    <3> QED
      BY <3>1, <3>2, <3>3 DEF LimitsInv
  <2> QED
    BY <1>2, <2>3, <2>5, <2>6 DEF Inv
<1>4. CASE id \notin m
  <2>1. m' = m /\ UNCHANGED <<maxStreams, updates>>
    BY <1>1, <1>4 DEF RemoveStream
  <2> QED
    BY <1>1, <1>2, <2>1 DEF Inv, Types, CreditInv, LimitsInv
<1> QED
  BY <1>3, <1>4

\* The capsule is queued, or a higher limit already was.
LEMMA QueueStep ==
  ASSUME Inv, NEW limit \in updates, QueueMaxStreams(limit)
  PROVE  Inv'
<1>1. /\ UNCHANGED <<closed, m, numStreams, maxStreams, opened, inFlight, gone, finished>>
      /\ updates' = updates \ {limit}
  BY DEF QueueMaxStreams, limitVars, peerVars, streamVars
<1>2. limit \in Nat /\ queuedMaxStreams \in Nat /\ advertised \in Seq(Nat) /\ updates \subseteq Nat
      /\ maxStreams \in Nat
  BY DEF Inv, Types
<1>3. CreditInv' /\ StreamsInv'
  BY <1>1 DEF Inv, CreditInv, StreamsInv
<1>4. CASE limit > queuedMaxStreams
  <2>1. queuedMaxStreams' = limit /\ advertised' = Append(advertised, limit)
    BY <1>4 DEF QueueMaxStreams, QueueIfHigher
  <2>2. /\ advertised' \in Seq(Nat) /\ Len(advertised') = Len(advertised) + 1
        /\ Len(advertised) \in Nat /\ advertised' # <<>>
        /\ advertised'[Len(advertised')] = limit
        /\ \A i \in 1..Len(advertised) : advertised'[i] = advertised[i]
    BY <1>2, <2>1
  <2>3. Types'
    BY <1>1, <1>2, <2>1, <2>2 DEF Inv, Types
  <2>4. ASSUME NEW i \in 1..Len(advertised')
        PROVE  advertised'[i] > (IF i = 1 THEN MaxOpenStreams ELSE advertised'[i - 1])
    <3>1. CASE i = Len(advertised) + 1
      <4>1. advertised = <<>> <=> i = 1
        BY <1>2, <2>2, <3>1
      <4>2. i # 1 => i - 1 \in 1..Len(advertised) /\ i - 1 = Len(advertised)
        BY <2>2, <3>1
      <4>3. queuedMaxStreams = IF i = 1 THEN MaxOpenStreams ELSE advertised'[i - 1]
        BY <2>2, <4>1, <4>2 DEF Inv, LimitsInv
      <4> QED
        BY <1>4, <2>2, <3>1, <4>3
    <3>2. CASE i \in 1..Len(advertised)
      <4>1. i # 1 => i - 1 \in 1..Len(advertised)
        BY <2>2, <3>2
      <4> QED
        BY <2>2, <3>2, <4>1 DEF Inv, LimitsInv
    <3> QED
      BY <2>2, <3>1, <3>2
  <2>5. LimitsInv'
    <3>1. /\ \A l \in updates' : l <= maxStreams'
          /\ queuedMaxStreams' <= maxStreams'
          /\ maxStreams' = queuedMaxStreams' \/ maxStreams' \in updates'
      BY <1>1, <1>2, <1>4, <2>1 DEF Inv, LimitsInv
    <3>2. queuedMaxStreams' = IF advertised' = <<>> THEN MaxOpenStreams
                              ELSE advertised'[Len(advertised')]
      BY <2>1, <2>2
    <3> QED
      BY <2>4, <3>1, <3>2 DEF LimitsInv
  <2> QED
    BY <1>3, <2>3, <2>5 DEF Inv
<1>5. CASE ~(limit > queuedMaxStreams)
  <2>1. UNCHANGED <<queuedMaxStreams, advertised>>
    BY <1>5 DEF QueueMaxStreams, QueueIfHigher
  <2>2. limit = maxStreams => maxStreams = queuedMaxStreams
    BY <1>2, <1>5 DEF Inv, LimitsInv
  <2>3. LimitsInv'
    BY <1>1, <2>1, <2>2 DEF Inv, LimitsInv
  <2> QED
    BY <1>1, <1>3, <2>1, <2>3 DEF Inv, Types
<1> QED
  BY <1>4, <1>5

\* CloseSession drops the map and closes its streams.
LEMMA CloseStep == Inv /\ CloseSession => Inv'
<1> SUFFICES ASSUME Inv, CloseSession PROVE Inv'
  OBVIOUS
<1>1. UNCHANGED <<numStreams, maxStreams, updates, queuedMaxStreams, advertised, finished,
                  opened, inFlight>>
  BY DEF CloseSession, limitVars, updateVars, peerVars
<1>2. LimitsInv'
  BY <1>1 DEF Inv, LimitsInv
<1>3. CASE CloseMap
  <2>1. closed' = TRUE /\ m' = {} /\ gone' = gone \cup m
    BY <1>3 DEF CloseMap
  <2>2. Cardinality(m') = 0 /\ IsFiniteSet(m')
    BY <2>1, FS_EmptySet
  <2>3. Types'
    BY <1>1, <2>1, <2>2 DEF Inv, Types
  <2>4. Cardinality(m) \in Nat
    BY Sizes DEF Inv
  <2>5. CreditInv'
    BY <1>1, <2>1, <2>2, <2>4, LimitsAssumption DEF Inv, CreditInv, Types
  <2>6. StreamsInv'
    BY <1>1, <2>1 DEF Inv, StreamsInv
  <2> QED
    BY <1>2, <2>3, <2>5, <2>6 DEF Inv
<1>4. CASE UNCHANGED <<closed, m, gone>>
  BY <1>1, <1>4 DEF Inv, Types, CreditInv, LimitsInv, StreamsInv
<1> QED
  BY <1>3, <1>4 DEF CloseSession

\* The other steps queue and accept streams, and leave the limits alone.
LEMMA OtherStep ==
  ASSUME Inv,
         \/ PeerReceives \/ AddToQueue \/ NotifyConsumers
         \/ \E a \in Accepters : AcceptStream(a) \/ AcceptStep(a) \/ CtxDone(a)
         \/ UNCHANGED vars
  PROVE  /\ UNCHANGED <<closed, m, numStreams, maxStreams, opened, inFlight, gone, finished,
                        updates, queuedMaxStreams, advertised>>
         /\ addPC' # "refused" \/ addPC' = addPC
         /\ Inv'
<1>1. /\ UNCHANGED <<closed, m, numStreams, maxStreams, opened, inFlight, gone, finished,
                     updates, queuedMaxStreams, advertised>>
      /\ addPC' # "refused" \/ addPC' = addPC
  <2> USE DEF limitVars, updateVars, streamVars, peerVars, addVars, notAccept
  <2>1. CASE PeerReceives
    BY <2>1 DEF PeerReceives
  <2>2. CASE AddToQueue \/ NotifyConsumers
    BY <2>2 DEF AddToQueue, NotifyConsumers
  <2>3. ASSUME NEW a \in Accepters, AcceptStream(a) \/ AcceptStep(a) \/ CtxDone(a)
        PROVE  UNCHANGED notAccept
    BY <2>3 DEF AcceptStream, AcceptStep, CtxDone, TryNext, SelectDone, SelectNotified, SelectParks
  <2>4. CASE UNCHANGED vars
    BY <2>4 DEF vars
  <2> QED
    BY <2>1, <2>2, <2>3, <2>4
<1>2. Inv'
  BY <1>1 DEF Inv, Types, CreditInv, LimitsInv, StreamsInv
<1> QED
  BY <1>1, <1>2

\* Inv is inductive.
THEOREM Invariance == Spec => []Inv
<1>1. Inv /\ [Next]_vars => Inv'
  <2> SUFFICES ASSUME Inv, [Next]_vars PROVE Inv'
    OBVIOUS
  <2>1. CASE PeerOpens
    BY <2>1, OpenStep
  <2>2. CASE CloseSession
    BY <2>2, CloseStep
  <2>3. CASE \E id \in inFlight : AddStream(id)
    BY <2>3, AddStep
  <2>4. CASE \E id \in accepted : RemoveStream(id)
    BY <2>4, RemoveStep
  <2>5. CASE \E limit \in updates : QueueMaxStreams(limit)
    BY <2>5, QueueStep
  <2> QED
    BY <2>1, <2>2, <2>3, <2>4, <2>5, OtherStep DEF Next
<1> QED
  BY <1>1, InitInv, PTL DEF Spec

-----------------------------------------------------------------------------
\* CreditExact, for every limit and any number of streams: AddStream and
\* RemoveStream neither lose nor invent a unit of credit.
THEOREM CreditKept == Spec => []CreditExact
<1>1. Inv => CreditExact
  <2> SUFFICES ASSUME Inv PROVE CreditExact
    OBVIOUS
  <2> DEFINE open == Cardinality(m)
             credit == numStreams + MaxOpenStreams - open
  <2>1. /\ open \in Nat /\ numStreams \in Nat /\ maxStreams \in Nat
        /\ MaxOpenStreams \in Nat /\ StreamsLimit \in Nat
    BY Sizes, LimitsAssumption DEF Inv, Types
  <2>2. /\ open <= MaxOpenStreams /\ numStreams <= maxStreams /\ maxStreams <= StreamsLimit
        /\ maxStreams + open <= numStreams + MaxOpenStreams
        /\ ~closed => \/ maxStreams + open = numStreams + MaxOpenStreams
                      \/ maxStreams = StreamsLimit
    BY DEF Inv, CreditInv
  <2> HIDE DEF open
  <2>3. ~closed => maxStreams = IF credit <= StreamsLimit THEN credit ELSE StreamsLimit
    BY <2>1, <2>2
  <2> QED
    BY <2>2, <2>3 DEF CreditExact, open
<1> QED
  BY <1>1, Invariance, PTL

\* CreditAdvertised: RemoveStream queues WT_MAX_STREAMS with increasing limits,
\* and the last one is the current limit once its calls have returned.
THEOREM LimitsInOrder == Spec => []CreditAdvertised
<1>1. Inv => CreditAdvertised
  BY DEF Inv, LimitsInv, CreditAdvertised
<1> QED
  BY <1>1, Invariance, PTL

\* StreamsClosedWithSession: CloseSession and the late AddStream leave no stream
\* behind.
THEOREM NoStreamLeft == Spec => []StreamsClosedWithSession
<1>1. Inv => StreamsClosedWithSession
  BY DEF Inv, CreditInv, StreamsInv, StreamsClosedWithSession
<1> QED
  BY <1>1, Invariance, PTL

\* RefusedOnlyOverLimit: AddStream counts each stream once, so that it fails
\* only when the peer opened more than the last limit that was queued.
THEOREM RefusalsJustified == Spec => RefusedOnlyOverLimit
<1> DEFINE Refusal == addPC' = "refused" /\ addPC = "idle"
           Sent == IF advertised = <<>> THEN MaxOpenStreams ELSE advertised[Len(advertised)]
<1>1. Inv /\ [Next]_vars => [Refusal => opened > Sent]_vars
  <2> SUFFICES ASSUME Inv, [Next]_vars, Refusal PROVE opened > Sent
    OBVIOUS
  <2>1. ASSUME NEW id \in inFlight, AddStream(id)
        PROVE  opened > Sent
    <3>1. numStreams >= maxStreams
      BY <2>1 DEF AddStream, AddToMap, AddAfterClose, AddOverLimit, AtLimit
    <3>2. Cardinality(inFlight) # 0 /\ Cardinality(inFlight) \in Nat
      BY FS_EmptySet, Sizes DEF Inv, Types
    <3>3. /\ numStreams \in Nat /\ maxStreams \in Nat /\ opened \in Nat /\ queuedMaxStreams \in Nat
          /\ numStreams + Cardinality(inFlight) <= opened
          /\ queuedMaxStreams <= maxStreams /\ queuedMaxStreams = Sent
      BY DEF Inv, Types, CreditInv, LimitsInv
    <3>4. opened > queuedMaxStreams
      BY <3>1, <3>2, <3>3
    <3> QED
      BY <3>3, <3>4
  <2>2. ASSUME \/ PeerOpens \/ CloseSession
               \/ \E id \in accepted : RemoveStream(id)
               \/ \E limit \in updates : QueueMaxStreams(limit)
        PROVE  FALSE
    BY <2>2 DEF PeerOpens, CloseSession, RemoveStream, QueueMaxStreams, addVars
  <2>3. ASSUME \/ PeerReceives \/ AddToQueue \/ NotifyConsumers
               \/ \E a \in Accepters : AcceptStream(a) \/ AcceptStep(a) \/ CtxDone(a)
               \/ UNCHANGED vars
        PROVE  FALSE
    BY <2>3, OtherStep
  <2> QED
    BY <2>1, <2>2, <2>3 DEF Next
<1> QED
  BY <1>1, Invariance, PTL DEF Spec, RefusedOnlyOverLimit

\* CreditImplemented: adding a stream uses a unit of credit; a stream that leaves
\* the map is consumed, and with CloseSession all of them are.
THEOREM Refinement == Spec => CreditImplemented
<1> DEFINE consumed == numStreams - Cardinality(m)
<1>1. Init => Credit!Init
  BY FS_EmptySet, LimitsAssumption DEF Init, Credit!Init
<1>2. Inv /\ [Next]_vars => [Credit!Next]_(Credit!vars)
  <2> SUFFICES ASSUME Inv, [Next]_vars PROVE [Credit!Next]_(Credit!vars)
    OBVIOUS
  <2>1. /\ Cardinality(m) \in Nat /\ numStreams \in Nat /\ maxStreams \in Nat
        /\ MaxOpenStreams \in Nat
        /\ maxStreams + Cardinality(m) <= numStreams + MaxOpenStreams
    BY Sizes, LimitsAssumption DEF Inv, Types, CreditInv
  <2>2. ASSUME NEW id \in inFlight, AddStream(id)
        PROVE  [Credit!Next]_(Credit!vars)
    <3>1. CASE AddToMap(id)
      <4>1. /\ numStreams' = numStreams + 1 /\ maxStreams' = maxStreams
            /\ numStreams' <= maxStreams /\ m' = m \cup {id} /\ id \notin m
        BY <2>1, <2>2, <3>1 DEF AddStream, AddToMap, AtLimit, Inv, Types
      <4>2. Cardinality(m') = Cardinality(m) + 1
        BY <4>1, FS_AddElement DEF Inv, Types
      <4>3. numStreams' - Cardinality(m') = consumed /\ numStreams' > numStreams
        BY <2>1, <4>1, <4>2
      <4> QED
        BY <4>1, <4>3 DEF Credit!Next, Credit!Use
    <3>2. CASE AddAfterClose(id) \/ AddOverLimit(id)
      BY <2>2, <3>2 DEF AddStream, AddAfterClose, AddOverLimit, Credit!vars
    <3> QED
      BY <2>2, <3>1, <3>2 DEF AddStream
  <2>3. ASSUME NEW id \in accepted, RemoveStream(id)
        PROVE  [Credit!Next]_(Credit!vars)
    <3>1. numStreams' = numStreams
      BY <2>3 DEF RemoveStream
    <3>2. CASE id \in m
      <4>1. /\ maxStreams' \in Nat /\ maxStreams' >= maxStreams
            /\ Cardinality(m) = Cardinality(m') + 1 /\ Cardinality(m') \in Nat
            /\ maxStreams' + Cardinality(m') <= numStreams + MaxOpenStreams
        BY <2>3, <3>2, <2>1, RemoveCredit
      <4>2. /\ numStreams' - Cardinality(m') > consumed
            /\ numStreams' - Cardinality(m') <= numStreams
            /\ maxStreams' <= (numStreams' - Cardinality(m')) + MaxOpenStreams
        BY <2>1, <3>1, <4>1
      <4> QED
        BY <3>1, <4>1, <4>2 DEF Credit!Next, Credit!Consume
    <3>3. CASE id \notin m
      <4>1. m' = m /\ maxStreams' = maxStreams
        BY <2>3, <3>3 DEF RemoveStream
      <4> QED
        BY <3>1, <4>1 DEF Credit!vars
    <3> QED
      BY <3>2, <3>3
  <2>4. CASE CloseSession
    <3>1. UNCHANGED <<numStreams, maxStreams>> /\ (m' = {} \/ m' = m)
      BY <2>4 DEF CloseSession, CloseMap, limitVars
    <3>2. CASE m' = m
      BY <3>1, <3>2 DEF Credit!vars
    <3>3. CASE m' = {} /\ m # {}
      <4>1. Cardinality(m') = 0 /\ Cardinality(m) # 0
        BY <3>3, FS_EmptySet DEF Inv, Types
      <4>2. /\ numStreams' - Cardinality(m') > consumed
            /\ numStreams' - Cardinality(m') <= numStreams
            /\ maxStreams' <= (numStreams' - Cardinality(m')) + MaxOpenStreams
        BY <2>1, <3>1, <4>1
      <4> QED
        BY <2>1, <3>1, <4>2 DEF Credit!Next, Credit!Consume
    <3> QED
      BY <3>1, <3>2, <3>3
  <2>5. ASSUME PeerOpens \/ \E limit \in updates : QueueMaxStreams(limit)
        PROVE  [Credit!Next]_(Credit!vars)
    BY <2>5 DEF PeerOpens, QueueMaxStreams, limitVars, Credit!vars
  <2>6. ASSUME \/ PeerReceives \/ AddToQueue \/ NotifyConsumers
               \/ \E a \in Accepters : AcceptStream(a) \/ AcceptStep(a) \/ CtxDone(a)
               \/ UNCHANGED vars
        PROVE  [Credit!Next]_(Credit!vars)
    BY <2>6, OtherStep DEF Credit!vars
  <2> QED
    BY <2>2, <2>3, <2>4, <2>5, <2>6 DEF Next
<1> QED
  BY <1>1, <1>2, Invariance, PTL DEF Spec, CreditImplemented, Credit!Spec
=============================================================================
