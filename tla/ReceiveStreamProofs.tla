------------------------ MODULE ReceiveStreamProofs ------------------------
(***************************************************************************)
(* The conversion of error codes loses nothing, for all 2^32 codes; and    *)
(* the safety properties of ReceiveStream, for any readers, codes, amount  *)
(* of data and deadlines.                                                  *)
(***************************************************************************)
EXTENDS ReceiveStream, FiniteSetTheorems, TLAPS

\* A code of the application, sent and received, is the same code again: the
\* peer does not refuse it, and converts it back (errors.go).
THEOREM RoundTrip ==
  \A n \in StreamErrorCodes :
    /\ Convertible(webtransportCodeToHTTPCode(n))
    /\ httpCodeToWebtransportCode(webtransportCodeToHTTPCode(n)) = n
<1> SUFFICES ASSUME NEW n \in StreamErrorCodes
             PROVE  /\ Convertible(webtransportCodeToHTTPCode(n))
                    /\ httpCodeToWebtransportCode(webtransportCodeToHTTPCode(n)) = n
  OBVIOUS
<1> DEFINE q == n \div 30
           r == n % 30
<1>1. n \in Nat /\ n <= MaxCode /\ MaxCode \in Nat /\ FirstErrorCode \in Nat
  BY RangeAssumption DEF StreamErrorCodes
<1>2. q \in Nat /\ r \in 0..29 /\ n = 30 * q + r
  BY <1>1
<1>3. q <= MaxCode \div 30
  BY <1>1, <1>2
<1>4. (n + q) \div 31 = q
  BY <1>2
<1>5. (FirstErrorCode + n + q - 33) % 31 = r + 1
  BY <1>1, <1>2, RangeAssumption
<1> QED
  BY <1>1, <1>2, <1>3, <1>4, <1>5, RangeAssumption
     DEF Convertible, LastErrorCode, webtransportCodeToHTTPCode, httpCodeToWebtransportCode

\* Two codes of the application are never sent as the same HTTP/3 code.
THEOREM Injective ==
  \A m, n \in StreamErrorCodes :
    webtransportCodeToHTTPCode(m) = webtransportCodeToHTTPCode(n) => m = n
BY RoundTrip
-----------------------------------------------------------------------------
Goroutines == Readers \cup {"callback"}
Positions == {"idle", "read", "count", "credit", "error", "check", "wait", "close", "remove"}

Types ==
  /\ taken \in Nat /\ size \in -1..MaxBytes /\ bytesRead \in Nat /\ credited \in Nat
  /\ ended \in {"open", "fin", "reset", "canceled"}
  /\ finalSizeKnown \in BOOLEAN /\ callback \in {"none", "credit", "done"}
  /\ newly \in [Goroutines -> 0..MaxBytes]
  /\ pc \in [Readers -> Positions] /\ err \in [Readers -> Errors]
  /\ cancel \in {"idle", "close", "remove", "done"} /\ sendSide \in {"open", "remove", "closed"}
  /\ sendSideClosed \in BOOLEAN /\ recvSideClosed \in BOOLEAN /\ removed \in BOOLEAN

\* The error of the QUIC stream: once a Read has seen it, it does not change, and
\* it is the code of an application or that of the session.
ErrorInv ==
  /\ ended \in {"fin", "reset"} => size # -1
  /\ ended \in {"reset", "canceled"} =>
       code \in {WTSessionGoneErrorCode} \cup {webtransportCodeToHTTPCode(c) : c \in Codes}
  /\ \A r \in Readers :
       /\ pc[r] \in {"count", "credit", "close", "remove"} /\ err[r] = "stream" =>
            ended \in {"reset", "canceled"}
       /\ pc[r] \in {"close", "remove"} /\ err[r] = "stream" => code # WTSessionGoneErrorCode
       /\ pc[r] \in {"error", "check", "wait"} => err[r] = "nil"

\* registerClose of the send side runs once.
CloseInv ==
  /\ sendSide = "open" <=> ~sendSideClosed
  /\ RemovedWhenBothClosed

Uncounted == {r \in Readers : pc[r] = "count"}
Pending == {r \in Readers : pc[r] = "credit"} \cup {"callback"}

\* bytesRead is what was counted under flowControlMx: all that was passed to the
\* session or is about to be.
CountInv ==
  /\ size = -1 \/ taken <= size
  /\ callback = "none" <=> ~finalSizeKnown
  /\ callback # "credit" => newly["callback"] = 0
  /\ IF finalSizeKnown THEN bytesRead = size ELSE bytesRead + Held(newly, Uncounted) = taken
  /\ credited + Held(newly, Pending) = bytesRead
-----------------------------------------------------------------------------
\* What the goroutines S hold, byte by byte.
Bytes(f, S) == UNION {{g} \X (1..f[g]) : g \in S}

\* A byte is in the set if a goroutine of S holds it.
LEMMA BytesMember ==
  ASSUME NEW f, NEW S, NEW x
  PROVE  x \in Bytes(f, S) <=> \E g \in S : \E k \in 1..f[g] : x = <<g, k>>
BY DEF Bytes

\* Held is a sum.  Nothing is held by no goroutine.
LEMMA HeldEmpty ==
  ASSUME NEW f
  PROVE  IsFiniteSet(Bytes(f, {})) /\ Held(f, {}) = 0
<1>1. Bytes(f, {}) = {}
  BY DEF Bytes
<1> QED
  BY <1>1, FS_EmptySet DEF Held, Bytes

\* What the goroutines outside S hold does not matter.
LEMMA HeldSame ==
  ASSUME NEW S, NEW f, NEW h, \A g \in S : f[g] = h[g]
  PROVE  Bytes(f, S) = Bytes(h, S) /\ Held(f, S) = Held(h, S)
<1>1. ASSUME NEW x PROVE x \in Bytes(f, S) <=> x \in Bytes(h, S)
  <2>1. x \in Bytes(f, S) <=> \E g \in S : \E k \in 1..f[g] : x = <<g, k>>
    BY BytesMember
  <2>2. x \in Bytes(h, S) <=> \E g \in S : \E k \in 1..h[g] : x = <<g, k>>
    BY BytesMember
  <2> QED
    BY <2>1, <2>2
<1>2. Bytes(f, S) = Bytes(h, S)
  BY <1>1
<1> QED
  BY <1>2 DEF Held, Bytes

\* One more goroutine adds what it holds.
LEMMA HeldAdd ==
  ASSUME NEW S, NEW g, g \notin S, NEW f, f[g] \in Nat, IsFiniteSet(Bytes(f, S))
  PROVE  /\ IsFiniteSet(Bytes(f, S \cup {g}))
         /\ Held(f, S \cup {g}) = Held(f, S) + f[g]
<1> DEFINE B == {g} \X (1..f[g])
<1>1. IsFiniteSet({g}) /\ Cardinality({g}) = 1
  BY FS_Singleton
<1>2. IsFiniteSet(1..f[g]) /\ Cardinality(1..f[g]) = f[g]
  <2>1. /\ IsFiniteSet(1..f[g])
        /\ Cardinality(1..f[g]) = IF 1 > f[g] THEN 0 ELSE f[g] - 1 + 1
    <3>1. 1 \in Int /\ f[g] \in Int
      OBVIOUS
    <3> HIDE DEF B
    <3> QED
      BY <3>1, FS_Interval
  <2> QED
    BY <2>1
<1>3. IsFiniteSet(B) /\ Cardinality(B) = f[g]
  <2>1. IsFiniteSet(B) /\ Cardinality(B) = Cardinality({g}) * Cardinality(1..f[g])
    BY <1>1, <1>2, FS_Product
  <2> QED
    BY <1>1, <1>2, <2>1
<1>4. Bytes(f, S \cup {g}) = Bytes(f, S) \cup B
  BY BytesMember
<1>5. Bytes(f, S) \cap B = {}
  BY BytesMember
<1>6. Cardinality(Bytes(f, S)) \in Nat /\ Cardinality(Bytes(f, S) \cap B) = 0
  BY <1>5, FS_EmptySet, FS_CardinalityType
<1>7. /\ IsFiniteSet(Bytes(f, S) \cup B)
      /\ Cardinality(Bytes(f, S) \cup B) = Cardinality(Bytes(f, S)) + f[g]
  <2> HIDE DEF B
  <2>1. /\ IsFiniteSet(Bytes(f, S) \cup B)
        /\ Cardinality(Bytes(f, S) \cup B)
             = Cardinality(Bytes(f, S)) + Cardinality(B) - Cardinality(Bytes(f, S) \cap B)
    BY <1>3, FS_Union
  <2> QED
    BY <1>3, <1>6, <2>1
<1> QED
  BY <1>4, <1>7 DEF Held, Bytes

\* The same for sets of goroutines of this stream, in the form the steps need.
LEMMA HeldFinite ==
  ASSUME NEW S \in SUBSET Goroutines, NEW f \in [Goroutines -> 0..MaxBytes]
  PROVE  IsFiniteSet(Bytes(f, S)) /\ Held(f, S) \in Nat
<1>1. IsFiniteSet(Goroutines)
  BY ReadersAssumption, FS_AddElement DEF Goroutines
<1>2. IsFiniteSet(1..MaxBytes)
  BY CodesAssumption, FS_Interval
<1>3. IsFiniteSet(Goroutines \X (1..MaxBytes))
  BY <1>1, <1>2, FS_Product
<1>4. Bytes(f, S) \in SUBSET (Goroutines \X (1..MaxBytes))
  <2> SUFFICES ASSUME NEW x \in Bytes(f, S) PROVE x \in Goroutines \X (1..MaxBytes)
    OBVIOUS
  <2>1. PICK g \in S : \E k \in 1..f[g] : x = <<g, k>>
    BY BytesMember
  <2>2. PICK k \in 1..f[g] : x = <<g, k>>
    BY <2>1
  <2>3. g \in Goroutines /\ f[g] \in 0..MaxBytes /\ MaxBytes \in Nat
    BY CodesAssumption
  <2>4. k \in 1..MaxBytes
    BY <2>3
  <2> QED
    BY <2>2, <2>3, <2>4
<1>5. IsFiniteSet(Bytes(f, S))
  BY <1>3, <1>4, FS_Subset
<1> QED
  BY <1>5, FS_CardinalityType DEF Held, Bytes

\* The sum without one of its goroutines.
LEMMA HeldSplit ==
  ASSUME NEW S \in SUBSET Goroutines, NEW f \in [Goroutines -> 0..MaxBytes], NEW g \in S
  PROVE  Held(f, S) = Held(f, S \ {g}) + f[g]
<1>1. IsFiniteSet(Bytes(f, S \ {g}))
  BY HeldFinite
<1>2. f[g] \in Nat
  BY CodesAssumption
<1>3. (S \ {g}) \cup {g} = S
  OBVIOUS
<1>4. Held(f, (S \ {g}) \cup {g}) = Held(f, S \ {g}) + f[g]
  BY <1>1, <1>2, HeldAdd
<1> QED
  BY <1>3, <1>4

-----------------------------------------------------------------------------
Inv == Types /\ ErrorInv /\ CloseInv /\ CountInv

USE DEF quicVars, countVars, readVars, closeVars, deadlineVars, setVars, Go

\* A stream has not been read, nor closed; the send side of a unidirectional one
\* counts as closed.
LEMMA InitInv == Init => Inv
<1> SUFFICES ASSUME Init PROVE Inv
  OBVIOUS
<1> USE CodesAssumption, ReadersAssumption
<1>1. Types
  <2>1. size \in -1..MaxBytes /\ newly \in [Goroutines -> 0..MaxBytes]
    BY DEF Init, Goroutines
  <2>2. pc \in [Readers -> Positions] /\ err \in [Readers -> Errors]
    BY DEF Init, Positions, Errors
  <2> QED
    BY <2>1, <2>2 DEF Init, Types
<1>2. ErrorInv
  BY DEF Init, ErrorInv
<1>3. CloseInv
  BY DEF Init, CloseInv, RemovedWhenBothClosed
<1>4. CountInv
  <2>1. Uncounted = {} /\ Pending = {"callback"} /\ newly["callback"] = 0
    BY DEF Init, Uncounted, Pending
  <2>2. Held(newly, {}) = 0
    BY HeldEmpty
  <2>3. Held(newly, {"callback"}) = 0
    <3>1. {"callback"} \in SUBSET Goroutines /\ newly \in [Goroutines -> 0..MaxBytes]
      BY <1>1 DEF Goroutines, Types
    <3>2. Held(newly, {"callback"}) = Held(newly, {"callback"} \ {"callback"}) + newly["callback"]
      BY <3>1, HeldSplit
    <3>3. {"callback"} \ {"callback"} = {}
      OBVIOUS
    <3> QED
      BY <2>1, <2>2, <3>2, <3>3
  <2> QED
    BY <2>1, <2>2, <2>3 DEF Init, CountInv
<1> QED
  BY <1>1, <1>2, <1>3, <1>4 DEF Inv

\* A Read of the QUIC stream never returns more than the peer sent.
LEMMA ReadBound ==
  ASSUME Inv, NEW n, n = 0 \/ n \in 1..(Most - taken)
  PROVE  n \in 0..MaxBytes /\ (size = -1 \/ taken + n <= size)
<1>1. taken \in Nat /\ size \in -1..MaxBytes /\ MaxBytes \in Nat /\ (size = -1 \/ taken <= size)
  BY CodesAssumption DEF Inv, Types, CountInv
<1> QED
  BY <1>1 DEF Most

\* When the callback runs, no more than the final size has been counted.
LEMMA CallbackBound ==
  ASSUME Inv, callback = "none", size # -1
  PROVE  /\ size \in 0..MaxBytes /\ size - bytesRead \in 0..MaxBytes
         /\ ~finalSizeKnown
<1>1. /\ taken \in Nat /\ size \in -1..MaxBytes /\ bytesRead \in Nat /\ taken <= size
      /\ bytesRead + Held(newly, Uncounted) = taken /\ ~finalSizeKnown
  BY DEF Inv, Types, CountInv
<1>2. Held(newly, Uncounted) \in Nat
  BY HeldFinite DEF Inv, Types, Uncounted, Goroutines
<1>3. MaxBytes \in Nat
  BY CodesAssumption
<1> QED
  BY <1>1, <1>2, <1>3

\* The steps of a call of Read after QUIC's Read returned, but for those that
\* count and credit bytes.
WaitStep(r) ==
  \/ StartWait(r) \/ CheckDeadline(r) \/ DeadlineChanged(r) \/ TimerFires(r) \/ SessionClosed(r)

\* What such a step changes.
LEMMA WaitMoves ==
  ASSUME Inv, NEW r \in Readers, WaitStep(r)
  PROVE  /\ UNCHANGED <<quicVars, countVars, err, closeVars>>
         /\ \E p \in {"idle", "check", "wait", "close"} : pc' = [pc EXCEPT ![r] = p]
         /\ pc[r] \in {"error", "check", "wait"}
BY DEF WaitStep, StartWait, CheckDeadline, DeadlineChanged, TimerFires, SessionClosed

\* No step takes a counter out of its range.
LEMMA TypesStep == Inv /\ [Next]_vars => Types'
<1> SUFFICES ASSUME Inv, [Next]_vars PROVE Types'
  OBVIOUS
<1> USE CodesAssumption
<1>0. Types /\ CountInv
  BY DEF Inv
<1>1. ASSUME NEW r \in Readers, NEW n, NEW e \in Errors, ReadQUIC(r, n, e),
             n = 0 \/ n \in 1..(Most - taken)
      PROVE  Types'
  <2>1. n \in 0..MaxBytes
    BY <1>1, ReadBound
  <2>2. newly' \in [Goroutines -> 0..MaxBytes] /\ taken' \in Nat
    <3>1. taken' = taken + n /\ newly' = [newly EXCEPT ![r] = n] /\ taken \in Nat
      BY <1>0, <1>1 DEF ReadQUIC, Types
    <3>2. newly' \in [Goroutines -> 0..MaxBytes]
      BY <1>0, <2>1, <3>1 DEF Types
    <3>3. taken' \in Nat
      BY <2>1, <3>1
    <3> QED
      BY <3>2, <3>3
  <2>3. pc' \in [Readers -> Positions] /\ err' \in [Readers -> Errors]
    BY <1>0, <1>1 DEF ReadQUIC, Types, Positions
  <2> QED
    BY <1>0, <1>1, <2>2, <2>3 DEF ReadQUIC, Types
<1>2. ASSUME NEW r \in Readers, CountBytes(r) PROVE Types'
  <2>1. r \in Goroutines /\ newly[r] \in 0..MaxBytes
    BY <1>0 DEF Types, Goroutines
  <2>2. Counted(newly[r]) \in 0..MaxBytes
    BY <2>1 DEF Counted
  <2>3. newly' \in [Goroutines -> 0..MaxBytes] /\ bytesRead' \in Nat
    BY <1>0, <1>2, <2>1, <2>2 DEF CountBytes, Types
  <2>4. pc' \in [Readers -> Positions]
    BY <1>0, <1>2 DEF CountBytes, Types, Positions
  <2> QED
    BY <1>0, <1>2, <2>3, <2>4 DEF CountBytes, Types
<1>3. ASSUME NEW r \in Readers, CreditBytes(r) PROVE Types'
  <2>1. r \in Goroutines /\ newly[r] \in 0..MaxBytes /\ err[r] \in Errors
    BY <1>0 DEF Types, Goroutines
  <2>2. AfterRead(err[r]) \in Positions
    BY <2>1 DEF AfterRead, Positions, Errors
  <2>3. newly' \in [Goroutines -> 0..MaxBytes] /\ credited' \in Nat
    BY <1>0, <1>3, <2>1 DEF CreditBytes, addBytesRead, Types
  <2>4. pc' \in [Readers -> Positions] /\ err' \in [Readers -> Errors]
    BY <1>0, <1>3, <2>1, <2>2 DEF CreditBytes, Types, Errors
  <2> QED
    BY <1>0, <1>3, <2>3, <2>4 DEF CreditBytes, Types
<1>4. CASE onReceiveFinalSize
  <2>1. "callback" \in Goroutines
    BY DEF Goroutines
  <2>2. CASE callback = "none" /\ size # -1 /\ callback' = "credit"
             /\ newly' = [newly EXCEPT !["callback"] = size - bytesRead]
             /\ bytesRead' = size /\ finalSizeKnown' = TRUE /\ UNCHANGED credited
    <3>1. size \in 0..MaxBytes /\ size - bytesRead \in 0..MaxBytes
      BY <2>2, CallbackBound
    <3>2. newly' \in [Goroutines -> 0..MaxBytes] /\ bytesRead' \in Nat
      BY <1>0, <2>1, <2>2, <3>1 DEF Types
    <3> QED
      BY <1>0, <1>4, <2>2, <3>2 DEF onReceiveFinalSize, Types
  <2>3. CASE callback = "credit" /\ callback' = "done" /\ addBytesRead("callback")
             /\ UNCHANGED <<bytesRead, finalSizeKnown>>
    <3>1. newly' \in [Goroutines -> 0..MaxBytes] /\ credited' \in Nat
      BY <1>0, <2>1, <2>3 DEF addBytesRead, Types
    <3> QED
      BY <1>0, <1>4, <2>3, <3>1 DEF onReceiveFinalSize, Types
  <2> QED
    BY <1>4, <2>2, <2>3 DEF onReceiveFinalSize
<1>5. ASSUME NEW r \in Readers, WaitStep(r) PROVE Types'
  BY <1>0, <1>5, WaitMoves DEF Types, Positions
<1>6. ASSUME NEW r \in Readers, Read(r) PROVE Types'
  BY <1>0, <1>6 DEF Read, Types, Positions
<1>7. ASSUME NEW r \in Readers, ReadCloses(r) \/ ReadRemoves(r) PROVE Types'
  <2>1. pc' \in [Readers -> Positions] /\ err' \in [Readers -> Errors]
    BY <1>0, <1>7 DEF ReadCloses, ReadRemoves, Returned, Types, Positions, Errors
  <2>2. CASE ReadCloses(r)
    BY <1>0, <2>1, <2>2 DEF ReadCloses, Types
  <2>3. CASE ReadRemoves(r)
    BY <1>0, <2>1, <2>3 DEF ReadRemoves, Types
  <2> QED
    BY <1>7, <2>2, <2>3
<1>8. ASSUME NEW s \in 0..MaxBytes, NEW how \in {"fin", "reset"}, NEW c, PeerEnds(s, how, c)
      PROVE  Types'
  BY <1>0, <1>8 DEF PeerEnds, Types
<1>9. CASE CancelRead
  <2>1. /\ ended' \in {"open", "fin", "reset", "canceled"}
        /\ cancel' \in {"idle", "close", "remove", "done"}
        /\ recvSideClosed' \in BOOLEAN /\ removed' \in BOOLEAN
    BY <1>0, <1>9 DEF CancelRead, QUICCancelRead, Types
  <2> QED
    BY <1>0, <1>9, <2>1 DEF CancelRead, Types
<1>10. CASE SendSideCloses
  BY <1>0, <1>10 DEF SendSideCloses, Types
<1>11. CASE closeWithSession
  BY <1>0, <1>11 DEF closeWithSession, QUICCancelRead, Types
<1>12. CASE Expire \/ (\E t \in NewDeadlines : SetReadDeadline(t))
  BY <1>0, <1>12 DEF Expire, SetReadDeadline, Types
<1>13. CASE UNCHANGED vars
  BY <1>0, <1>13 DEF vars, Types
<1> QED
  BY <1>1, <1>2, <1>3, <1>4, <1>5, <1>6, <1>7, <1>8, <1>9, <1>10, <1>11, <1>12, <1>13
     DEF Next, ReaderStep, WaitStep

-----------------------------------------------------------------------------
\* The error that QUIC's Read returned stays the error of the stream while Read
\* looks at its code, which CancelRead, closeWithSession and the peer may set.
LEMMA ErrorStep == Inv /\ [Next]_vars => ErrorInv'
<1> SUFFICES ASSUME Inv, [Next]_vars PROVE ErrorInv'
  OBVIOUS
<1>0. Types /\ ErrorInv
  BY DEF Inv
<1>a. ASSUME UNCHANGED <<size, ended, code, pc, err>> PROVE ErrorInv'
  BY <1>0, <1>a DEF ErrorInv
<1>b. ASSUME UNCHANGED <<pc, err>>, size' = size \/ size' # -1,
             ended' \in {"fin", "reset"} => size' # -1,
             ended \in {"reset", "canceled"} => UNCHANGED <<ended, code>>,
             ended' \in {"reset", "canceled"} =>
               code' \in {WTSessionGoneErrorCode} \cup {webtransportCodeToHTTPCode(c) : c \in Codes}
      PROVE  ErrorInv'
  BY <1>0, <1>b DEF ErrorInv
<1>1. ASSUME NEW r \in Readers, NEW n, NEW e \in Errors, ReadQUIC(r, n, e) PROVE ErrorInv'
  BY <1>0, <1>1 DEF ReadQUIC, QUICRead, Types, ErrorInv
<1>2. ASSUME NEW r \in Readers, CountBytes(r) PROVE ErrorInv'
  BY <1>0, <1>2 DEF CountBytes, Types, ErrorInv
<1>3. ASSUME NEW r \in Readers, CreditBytes(r) PROVE ErrorInv'
  <2>1. UNCHANGED <<size, ended, code>> /\ pc[r] = "credit"
    BY <1>3 DEF CreditBytes
  <2>2. \A q \in Readers : q # r => pc'[q] = pc[q] /\ err'[q] = err[q]
    BY <1>0, <1>3 DEF CreditBytes, Types
  <2>3. /\ pc'[r] = AfterRead(err[r])
        /\ err'[r] = IF AfterRead(err[r]) = "close" THEN err[r] ELSE "nil"
    BY <1>0, <1>3 DEF CreditBytes, Types
  <2>4. /\ AfterRead(err[r]) \in {"idle", "error", "close"}
        /\ AfterRead(err[r]) = "close" /\ err[r] = "stream" => code # WTSessionGoneErrorCode
    BY <1>0 DEF AfterRead, Types, Errors
  <2>5. err[r] = "stream" => ended \in {"reset", "canceled"}
    BY <1>0, <2>1 DEF ErrorInv
  <2> QED
    BY <1>0, <2>1, <2>2, <2>3, <2>4, <2>5 DEF ErrorInv
<1>4. CASE onReceiveFinalSize
  BY <1>a, <1>4 DEF onReceiveFinalSize
<1>5. ASSUME NEW r \in Readers, WaitStep(r) PROVE ErrorInv'
  BY <1>0, <1>5, WaitMoves DEF Types, ErrorInv
<1>6. ASSUME NEW r \in Readers, Read(r) PROVE ErrorInv'
  BY <1>0, <1>6 DEF Read, Types, ErrorInv
<1>7. ASSUME NEW r \in Readers, ReadCloses(r) \/ ReadRemoves(r) PROVE ErrorInv'
  <2>1. pc[r] \in {"close", "remove"} /\ UNCHANGED <<size, ended, code>>
    BY <1>7 DEF ReadCloses, ReadRemoves
  <2>2. CASE pc' = [pc EXCEPT ![r] = "remove"] /\ err' = err
    BY <1>0, <2>1, <2>2 DEF Types, ErrorInv
  <2>3. CASE pc' = [pc EXCEPT ![r] = "idle"] /\ err' = [err EXCEPT ![r] = "nil"]
    BY <1>0, <2>1, <2>3 DEF Types, ErrorInv
  <2> QED
    BY <1>7, <2>2, <2>3 DEF ReadCloses, ReadRemoves, Returned
<1>8. ASSUME NEW s \in 0..MaxBytes, NEW how \in {"fin", "reset"},
             NEW c \in {WTSessionGoneErrorCode} \cup {webtransportCodeToHTTPCode(d) : d \in Codes},
             PeerEnds(s, how, c)
      PROVE  ErrorInv'
  <2>1. UNCHANGED <<pc, err>> /\ size' = s /\ s # -1
    BY <1>8, CodesAssumption DEF PeerEnds
  <2>2. CASE ended = "canceled"
    BY <1>0, <1>b, <1>8, <2>1, <2>2 DEF PeerEnds, ErrorInv
  <2>3. CASE ended # "canceled"
    <3>1. ended # "reset"
      BY <1>0, <1>8 DEF PeerEnds, ErrorInv
    <3>2. ended' = how /\ code' = IF how = "reset" THEN c ELSE code
      BY <1>8, <2>3 DEF PeerEnds
    <3> QED
      BY <1>b, <1>8, <2>1, <2>3, <3>1, <3>2
  <2> QED
    BY <2>2, <2>3
<1>9. ASSUME NEW c \in {WTSessionGoneErrorCode} \cup {webtransportCodeToHTTPCode(d) : d \in Codes},
             QUICCancelRead(c), UNCHANGED <<size, pc, err>>
      PROVE  ErrorInv'
  BY <1>0, <1>b, <1>9 DEF QUICCancelRead, ErrorInv
<1>10. CASE CancelRead
  <2>1. CASE UNCHANGED <<ended, code>>
    BY <1>a, <1>10, <2>1 DEF CancelRead
  <2>2. CASE \E c \in Codes : QUICCancelRead(webtransportCodeToHTTPCode(c))
    BY <1>9, <1>10, <2>2 DEF CancelRead
  <2> QED
    BY <1>10, <2>1, <2>2 DEF CancelRead
<1>11. CASE SendSideCloses
  BY <1>a, <1>11 DEF SendSideCloses
<1>12. CASE closeWithSession
  BY <1>a, <1>9, <1>12 DEF closeWithSession
<1>13. CASE Expire \/ (\E t \in NewDeadlines : SetReadDeadline(t))
  BY <1>a, <1>13 DEF Expire, SetReadDeadline
<1>14. CASE UNCHANGED vars
  BY <1>a, <1>14 DEF vars
<1> QED
  BY <1>1, <1>2, <1>3, <1>4, <1>5, <1>6, <1>7, <1>8, <1>10, <1>11, <1>12, <1>13, <1>14
     DEF Next, ReaderStep, WaitStep

\* registerClose of both sides, by any of the goroutines that may close one.
LEMMA CloseStep == Inv /\ [Next]_vars => CloseInv'
<1> SUFFICES ASSUME Inv, [Next]_vars PROVE CloseInv'
  OBVIOUS
<1> USE DEF CloseInv, RemovedWhenBothClosed
<1>0. Types /\ CloseInv
  BY DEF Inv
<1>a. ASSUME UNCHANGED <<cancel, sendSide, sendSideClosed, recvSideClosed, removed>>,
             \A r \in Readers : pc'[r] = "remove" <=> pc[r] = "remove"
      PROVE  CloseInv'
  BY <1>0, <1>a
<1>b. ASSUME UNCHANGED <<cancel, sendSide, sendSideClosed, recvSideClosed, removed>>,
             NEW r \in Readers, pc[r] # "remove", NEW p, p # "remove", pc' = [pc EXCEPT ![r] = p]
      PROVE  CloseInv'
  BY <1>0, <1>a, <1>b DEF Types
<1>1. ASSUME NEW r \in Readers, NEW n, NEW e \in Errors, ReadQUIC(r, n, e) PROVE CloseInv'
  BY <1>b, <1>1 DEF ReadQUIC
<1>2. ASSUME NEW r \in Readers, CountBytes(r) PROVE CloseInv'
  BY <1>b, <1>2 DEF CountBytes
<1>3. ASSUME NEW r \in Readers, CreditBytes(r) PROVE CloseInv'
  <2>1. AfterRead(err[r]) # "remove"
    BY <1>0 DEF AfterRead, Types, Errors
  <2> QED
    BY <1>b, <1>3, <2>1 DEF CreditBytes
<1>4. CASE onReceiveFinalSize
  BY <1>a, <1>4 DEF onReceiveFinalSize
<1>5. ASSUME NEW r \in Readers, WaitStep(r) PROVE CloseInv'
  BY <1>b, <1>5, WaitMoves
<1>6. ASSUME NEW r \in Readers, Read(r) PROVE CloseInv'
  BY <1>b, <1>6 DEF Read
<1>7. ASSUME NEW r \in Readers, ReadCloses(r) PROVE CloseInv'
  <2>1. /\ pc[r] = "close" /\ recvSideClosed' = TRUE
        /\ UNCHANGED <<cancel, sendSide, sendSideClosed, removed>>
    BY <1>7 DEF ReadCloses
  <2>2. CASE sendSideClosed
    BY <1>0, <1>7, <2>1, <2>2 DEF ReadCloses, BothClosed, Types
  <2>3. CASE ~sendSideClosed
    BY <1>0, <1>7, <2>1, <2>3 DEF ReadCloses, BothClosed, Types
  <2> QED
    BY <2>2, <2>3
<1>8. ASSUME NEW r \in Readers, ReadRemoves(r) PROVE CloseInv'
  BY <1>0, <1>8 DEF ReadRemoves
<1>9. ASSUME NEW s, NEW how, NEW c, PeerEnds(s, how, c) PROVE CloseInv'
  BY <1>a, <1>9 DEF PeerEnds
<1>10. CASE CancelRead
  BY <1>0, <1>10 DEF CancelRead, BothClosed, Types
<1>11. CASE SendSideCloses
  BY <1>0, <1>11 DEF SendSideCloses, BothClosed, Types
<1>12. CASE closeWithSession
  BY <1>a, <1>12 DEF closeWithSession
<1>13. CASE Expire \/ (\E t \in NewDeadlines : SetReadDeadline(t))
  BY <1>a, <1>13 DEF Expire, SetReadDeadline
<1>14. CASE UNCHANGED vars
  BY <1>a, <1>14 DEF vars
<1> QED
  BY <1>1, <1>2, <1>3, <1>4, <1>5, <1>6, <1>7, <1>8, <1>9, <1>10, <1>11, <1>12, <1>13, <1>14
     DEF Next, ReaderStep, WaitStep

-----------------------------------------------------------------------------
\* The bytes of one reader are counted, then credited; those of the callback are
\* what is left of the stream.  The two race for flowControlMx.
LEMMA CountStep == Inv /\ [Next]_vars => CountInv'
<1> SUFFICES ASSUME Inv, [Next]_vars PROVE CountInv'
  OBVIOUS
<1> USE CodesAssumption, ReadersAssumption
<1>0. Types /\ CountInv /\ Types'
  BY TypesStep DEF Inv
<1>1. /\ Uncounted \in SUBSET Goroutines /\ Pending \in SUBSET Goroutines
      /\ \A r \in Readers : r \in Goroutines /\ r # "callback"
      /\ "callback" \in Goroutines /\ "callback" \in Pending /\ "callback" \notin Uncounted
  BY DEF Uncounted, Pending, Goroutines
<1>2. /\ newly \in [Goroutines -> 0..MaxBytes] /\ newly' \in [Goroutines -> 0..MaxBytes]
      /\ Held(newly, Uncounted) \in Nat /\ Held(newly, Pending) \in Nat
  BY <1>0, <1>1, HeldFinite DEF Types
<1>3. \A g \in Goroutines : newly[g] \in Nat /\ newly'[g] \in Nat
  BY <1>2
<1>a. ASSUME UNCHANGED <<taken, size, countVars>>,
             \A r \in Readers : /\ pc'[r] = "count" <=> pc[r] = "count"
                                /\ pc'[r] = "credit" <=> pc[r] = "credit"
      PROVE  CountInv'
  <2>1. Uncounted' = Uncounted /\ Pending' = Pending
    BY <1>a DEF Uncounted, Pending
  <2> QED
    BY <1>0, <1>a, <2>1 DEF CountInv
<1>b. ASSUME UNCHANGED <<taken, size, countVars>>, NEW r \in Readers, NEW p,
             pc[r] \notin {"count", "credit"}, p \notin {"count", "credit"},
             pc' = [pc EXCEPT ![r] = p]
      PROVE  CountInv'
  BY <1>0, <1>a, <1>b DEF Types
<1>4. ASSUME NEW r \in Readers, NEW n, NEW e \in Errors, ReadQUIC(r, n, e),
             n = 0 \/ n \in 1..(Most - taken)
      PROVE  CountInv'
  <2>1. n \in 0..MaxBytes /\ (size = -1 \/ taken + n <= size)
    BY <1>4, ReadBound
  <2>2. /\ pc[r] = "read" /\ taken' = taken + n
        /\ newly' = [newly EXCEPT ![r] = n] /\ pc' = [pc EXCEPT ![r] = "count"]
        /\ UNCHANGED <<size, bytesRead, finalSizeKnown, callback, credited>>
    BY <1>4 DEF ReadQUIC
  <2>3. Uncounted' = Uncounted \cup {r} /\ r \notin Uncounted /\ Pending' = Pending /\ r \notin Pending
    BY <1>0, <1>1, <2>2 DEF Uncounted, Pending, Types
  <2>4. newly'[r] = n /\ \A g \in Goroutines \ {r} : newly'[g] = newly[g]
    BY <1>1, <1>2, <2>2
  <2>5. Held(newly', Uncounted') = Held(newly, Uncounted) + n
    <3>1. Held(newly', Uncounted \cup {r}) = Held(newly, Uncounted) + newly'[r]
      <4>1. Uncounted \in SUBSET Goroutines /\ r \in Goroutines /\ r \notin Uncounted
        BY <1>1, <2>3
      <4>2. IsFiniteSet(Bytes(newly', Uncounted)) /\ newly'[r] \in Nat
        BY <1>2, <1>3, <4>1, HeldFinite
      <4>3. Held(newly', Uncounted \cup {r}) = Held(newly', Uncounted) + newly'[r]
        BY <4>1, <4>2, HeldAdd
      <4>4. Held(newly', Uncounted) = Held(newly, Uncounted)
        BY <2>4, <4>1, HeldSame
      <4> QED
        BY <4>3, <4>4
    <3> QED
      BY <2>3, <2>4, <3>1
  <2>6. Held(newly', Pending') = Held(newly, Pending)
    BY <1>1, <2>3, <2>4, HeldSame
  <2>7. newly'["callback"] = newly["callback"]
    BY <1>1, <2>4
  <2> QED
    BY <1>0, <1>2, <2>1, <2>2, <2>5, <2>6, <2>7 DEF CountInv, Types
<1>5. ASSUME NEW r \in Readers, CountBytes(r) PROVE CountInv'
  <2>1. /\ pc[r] = "count" /\ pc' = [pc EXCEPT ![r] = "credit"]
        /\ newly' = [newly EXCEPT ![r] = Counted(newly[r])]
        /\ bytesRead' = bytesRead + Counted(newly[r])
        /\ UNCHANGED <<taken, size, finalSizeKnown, callback, credited>>
    BY <1>5 DEF CountBytes
  <2>2. /\ Uncounted' = Uncounted \ {r} /\ r \in Uncounted
        /\ Pending' = Pending \cup {r} /\ r \notin Pending
    <3>1. Uncounted' = Uncounted \ {r} /\ r \in Uncounted
      BY <1>0, <2>1 DEF Uncounted, Types
    <3>2. Pending' = Pending \cup {r} /\ r \notin Pending
      BY <1>0, <1>1, <2>1 DEF Pending, Types
    <3> QED
      BY <3>1, <3>2
  <2>3. newly'[r] = Counted(newly[r]) /\ \A g \in Goroutines \ {r} : newly'[g] = newly[g]
    BY <1>1, <1>2, <2>1
  <2>4. /\ Held(newly, Uncounted) = Held(newly', Uncounted') + newly[r]
        /\ Held(newly', Uncounted') \in Nat
    <3>1. Held(newly, Uncounted) = Held(newly', Uncounted \ {r}) + newly[r]
      <4>1. Uncounted \in SUBSET Goroutines /\ r \in Goroutines /\ r \in Uncounted
        BY <1>1, <2>2
      <4>2. Held(newly, Uncounted) = Held(newly, Uncounted \ {r}) + newly[r]
        BY <1>2, <4>1, HeldSplit, Zenon
      <4>3. Held(newly, Uncounted \ {r}) = Held(newly', Uncounted \ {r})
        BY <2>3, <4>1, HeldSame
      <4> QED
        BY <4>2, <4>3
    <3>2. Uncounted \ {r} \in SUBSET Goroutines
      BY <1>1
    <3>3. Held(newly', Uncounted \ {r}) \in Nat
      BY <1>2, <3>2, HeldFinite
    <3> QED
      BY <2>2, <3>1, <3>3
  <2>5. Held(newly', Pending') = Held(newly, Pending) + Counted(newly[r])
    <3>1. Held(newly', Pending \cup {r}) = Held(newly, Pending) + newly'[r]
      <4>1. Pending \in SUBSET Goroutines /\ r \in Goroutines /\ r \notin Pending
        BY <1>1, <2>2
      <4>2. IsFiniteSet(Bytes(newly', Pending)) /\ newly'[r] \in Nat
        BY <1>2, <1>3, <4>1, HeldFinite
      <4>3. Held(newly', Pending \cup {r}) = Held(newly', Pending) + newly'[r]
        BY <4>1, <4>2, HeldAdd
      <4>4. Held(newly', Pending) = Held(newly, Pending)
        BY <2>3, <4>1, HeldSame
      <4> QED
        BY <4>3, <4>4
    <3> QED
      BY <2>2, <2>3, <3>1
  <2>6. newly'["callback"] = newly["callback"]
    BY <1>1, <2>3
  <2>7. newly[r] \in Nat
    BY <1>1, <1>3
  <2>8. Counted(newly[r]) = IF finalSizeKnown THEN 0 ELSE newly[r]
    BY DEF Counted
  <2>9. /\ credited \in Nat /\ bytesRead \in Nat
        /\ credited + Held(newly, Pending) = bytesRead
    BY <1>0 DEF CountInv, Types
  <2>10. credited' + Held(newly', Pending') = bytesRead'
    BY <1>2, <2>1, <2>5, <2>7, <2>8, <2>9
  <2>11. ~finalSizeKnown => bytesRead + Held(newly, Uncounted) = taken
    BY <1>0 DEF CountInv
  <2>12. ~finalSizeKnown => bytesRead' + Held(newly', Uncounted') = taken'
    BY <2>1, <2>4, <2>7, <2>8, <2>9, <2>11
  <2>13. finalSizeKnown => bytesRead' = size'
    BY <1>0, <2>1, <2>8, <2>9 DEF CountInv
  <2> QED
    BY <1>0, <2>1, <2>6, <2>10, <2>12, <2>13 DEF CountInv
<1>6. ASSUME NEW r \in Readers, CreditBytes(r) PROVE CountInv'
  <2>1. AfterRead(err[r]) \notin {"count", "credit"}
    BY <1>0 DEF AfterRead, Types, Errors
  <2>2. /\ pc[r] = "credit" /\ pc' = [pc EXCEPT ![r] = AfterRead(err[r])]
        /\ newly' = [newly EXCEPT ![r] = 0] /\ credited' = credited + newly[r]
        /\ UNCHANGED <<taken, size, bytesRead, finalSizeKnown, callback>>
    BY <1>6 DEF CreditBytes, addBytesRead
  <2>3. Uncounted' = Uncounted /\ r \notin Uncounted /\ Pending' = Pending \ {r} /\ r \in Pending
    BY <1>0, <1>1, <2>1, <2>2 DEF Uncounted, Pending, Types
  <2>4. \A g \in Goroutines \ {r} : newly'[g] = newly[g]
    BY <1>1, <1>2, <2>2
  <2>5. /\ Held(newly, Pending) = Held(newly', Pending') + newly[r]
        /\ Held(newly', Pending') \in Nat
    <3>1. Held(newly, Pending) = Held(newly', Pending \ {r}) + newly[r]
      <4>1. Pending \in SUBSET Goroutines /\ r \in Goroutines /\ r \in Pending
        BY <1>1, <2>3
      <4>2. Held(newly, Pending) = Held(newly, Pending \ {r}) + newly[r]
        BY <1>2, <4>1, HeldSplit, Zenon
      <4>3. Held(newly, Pending \ {r}) = Held(newly', Pending \ {r})
        BY <2>4, <4>1, HeldSame
      <4> QED
        BY <4>2, <4>3
    <3>2. Pending \ {r} \in SUBSET Goroutines
      BY <1>1
    <3>3. Held(newly', Pending \ {r}) \in Nat
      BY <1>2, <3>2, HeldFinite
    <3> QED
      BY <2>3, <3>1, <3>3
  <2>6. Held(newly', Uncounted') = Held(newly, Uncounted)
    BY <1>1, <2>3, <2>4, HeldSame
  <2>7. newly'["callback"] = newly["callback"] /\ newly[r] \in Nat
    BY <1>1, <1>3, <2>4
  <2>8. /\ credited \in Nat /\ bytesRead \in Nat
        /\ credited + Held(newly, Pending) = bytesRead
    BY <1>0 DEF CountInv, Types
  <2>9. credited' + Held(newly', Pending') = bytesRead'
    BY <2>2, <2>5, <2>7, <2>8
  <2> QED
    BY <1>0, <2>2, <2>6, <2>7, <2>9 DEF CountInv
<1>7. CASE onReceiveFinalSize
  <2>1. UNCHANGED <<taken, size, pc>>
    BY <1>7 DEF onReceiveFinalSize
  <2>2. Uncounted' = Uncounted /\ Pending' = Pending
    BY <2>1 DEF Uncounted, Pending
  <2>3. \A g \in Goroutines \ {"callback"} : newly'[g] = newly[g]
    BY <1>1, <1>2, <1>7 DEF onReceiveFinalSize, addBytesRead
  <2>4. Held(newly', Uncounted') = Held(newly, Uncounted)
    BY <1>1, <2>2, <2>3, HeldSame
  <2>6. /\ Held(newly, Pending) = Held(newly, Pending \ {"callback"}) + newly["callback"]
        /\ Held(newly', Pending') = Held(newly, Pending \ {"callback"}) + newly'["callback"]
        /\ Held(newly, Pending \ {"callback"}) \in Nat
    <3>1. Held(newly, Pending) = Held(newly, Pending \ {"callback"}) + newly["callback"]
      BY <1>1, <1>2, HeldSplit, Zenon
    <3>2. Held(newly', Pending) = Held(newly', Pending \ {"callback"}) + newly'["callback"]
      BY <1>1, <1>2, HeldSplit, Zenon
    <3>3. Pending \ {"callback"} \in SUBSET Goroutines
      BY <1>1
    <3>4. Held(newly, Pending \ {"callback"}) = Held(newly', Pending \ {"callback"})
      BY <2>3, <3>3, HeldSame
    <3>5. Held(newly, Pending \ {"callback"}) \in Nat
      BY <1>2, <3>3, HeldFinite
    <3> QED
      BY <2>2, <3>1, <3>2, <3>4, <3>5
  <2>7. CASE callback = "none" /\ size # -1 /\ callback' = "credit"
             /\ newly' = [newly EXCEPT !["callback"] = size - bytesRead]
             /\ bytesRead' = size /\ finalSizeKnown' = TRUE /\ UNCHANGED credited
    <3>1. newly["callback"] = 0 /\ newly'["callback"] = size - bytesRead
      BY <1>0, <1>1, <1>2, <2>7 DEF CountInv
    <3>2. credited + Held(newly, Pending \ {"callback"}) = bytesRead
      BY <1>0, <2>6, <3>1 DEF CountInv
    <3>3. credited' + Held(newly', Pending') = bytesRead'
      BY <1>0, <2>6, <2>7, <3>1, <3>2 DEF Types
    <3> QED
      BY <1>0, <2>1, <2>7, <3>3 DEF CountInv
  <2>8. CASE callback = "credit" /\ callback' = "done" /\ addBytesRead("callback")
             /\ UNCHANGED <<bytesRead, finalSizeKnown>>
    <3>1. newly'["callback"] = 0 /\ credited' = credited + newly["callback"]
      BY <1>1, <1>2, <2>8 DEF addBytesRead
    <3>2. newly["callback"] \in Nat
      BY <1>1, <1>3
    <3>3. credited \in Nat /\ credited + Held(newly, Pending) = bytesRead
      BY <1>0 DEF CountInv, Types
    <3>4. credited' + Held(newly', Pending') = bytesRead'
      BY <2>6, <2>8, <3>1, <3>2, <3>3
    <3> QED
      BY <1>0, <2>1, <2>4, <2>8, <3>1, <3>4 DEF CountInv
  <2> QED
    BY <1>7, <2>7, <2>8 DEF onReceiveFinalSize
<1>8. ASSUME NEW r \in Readers, WaitStep(r) PROVE CountInv'
  BY <1>b, <1>8, WaitMoves
<1>9. ASSUME NEW r \in Readers, Read(r) PROVE CountInv'
  BY <1>b, <1>9 DEF Read
<1>10. ASSUME NEW r \in Readers, ReadCloses(r) \/ ReadRemoves(r) PROVE CountInv'
  BY <1>b, <1>10 DEF ReadCloses, ReadRemoves
<1>11. ASSUME NEW s \in 0..MaxBytes, NEW how \in {"fin", "reset"}, NEW c, PeerEnds(s, how, c)
       PROVE  CountInv'
  <2>1. /\ size' = s /\ s >= taken /\ UNCHANGED <<taken, countVars, pc>>
        /\ size = -1 \/ size' = size
    BY <1>11 DEF PeerEnds
  <2>2. Uncounted' = Uncounted /\ Pending' = Pending
    BY <2>1 DEF Uncounted, Pending
  <2>3. finalSizeKnown => size # -1
    BY <1>0 DEF CountInv, Types
  <2> QED
    BY <1>0, <2>1, <2>2, <2>3 DEF CountInv, Types
<1>12. CASE CancelRead \/ SendSideCloses \/ closeWithSession
  BY <1>a, <1>12 DEF CancelRead, SendSideCloses, closeWithSession
<1>13. CASE Expire \/ (\E t \in NewDeadlines : SetReadDeadline(t))
  BY <1>a, <1>13 DEF Expire, SetReadDeadline
<1>14. CASE UNCHANGED vars
  BY <1>a, <1>14 DEF vars
<1> QED
  BY <1>4, <1>5, <1>6, <1>7, <1>8, <1>9, <1>10, <1>11, <1>12, <1>13, <1>14
     DEF Next, ReaderStep, WaitStep

-----------------------------------------------------------------------------
\* Inv is inductive: it holds whichever of the readers, the callback, CancelRead,
\* closeWithSession and the peer comes first.
THEOREM Invariance == Spec => []Inv
<1>1. Inv /\ [Next]_vars => Inv'
  BY TypesStep, ErrorStep, CloseStep, CountStep DEF Inv
<1> QED
  BY InitInv, <1>1, PTL DEF Spec

\* With any number of readers, every byte is passed to AddBytesRead once.
THEOREM Credited == Spec => []CreditedOnce
<1>1. Inv => CreditedOnce
  <2> SUFFICES ASSUME Inv PROVE CreditedOnce
    OBVIOUS
  <2>1. Held(newly, Uncounted) \in Nat
    BY HeldFinite DEF Inv, Types, Uncounted, Goroutines
  <2>2. credited + Held(newly, Pending)
          = IF finalSizeKnown THEN size ELSE taken - Held(newly, Uncounted)
    BY <2>1 DEF Inv, Types, CountInv
  <2> QED
    BY <2>2 DEF CreditedOnce, Uncounted, Pending
<1> QED
  BY Invariance, <1>1, PTL

\* Read reports the code that an application passed to CancelRead or CancelWrite.
THEOREM CodesReported == Spec => []CodeReported
<1>1. Inv => CodeReported
  <2> SUFFICES ASSUME Inv, NEW r \in Readers, pc[r] \in {"close", "remove"}, err[r] = "stream"
               PROVE  Convertible(code) /\ httpCodeToWebtransportCode(code) \in Codes
    BY DEF CodeReported
  <2>1. PICK c \in Codes : code = webtransportCodeToHTTPCode(c)
    BY DEF Inv, ErrorInv
  <2>2. c \in StreamErrorCodes
    BY CodesAssumption
  <2>3. Convertible(code) /\ httpCodeToWebtransportCode(code) = c
    BY <2>1, <2>2, RoundTrip
  <2> QED
    BY <2>3
<1> QED
  BY Invariance, <1>1, PTL

\* The stream leaves the streams map when both sides are closed, and not before.
THEOREM Removed == Spec => []RemovedWhenBothClosed
<1>1. Inv => RemovedWhenBothClosed
  BY DEF Inv, CloseInv
<1> QED
  BY Invariance, <1>1, PTL

=============================================================================
