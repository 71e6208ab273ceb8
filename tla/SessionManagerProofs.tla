------------------------ MODULE SessionManagerProofs ------------------------
(***************************************************************************)
(* The safety property of SessionManager, for any sessions, streams,       *)
(* timeout and length of the list of recently closed sessions.             *)
(***************************************************************************)
EXTENDS SessionManager, FiniteSetTheorems, SequenceTheorems, TLAPS

\* A stream that arrived is in exactly one place: buffered for one session, or
\* given to its session, or reset, or forgotten.
PlaceInv ==
  /\ \A id, jd \in Sessions : id # jd => buffered[id] \cap buffered[jd] = {}
  /\ \A id \in Sessions : buffered[id] \cap (delivered \cup rejected \cup dropped) = {}
  /\ delivered \cap rejected = {} /\ delivered \cap dropped = {} /\ rejected \cap dropped = {}
  /\ \A s \in Streams :
       arrival[s] # Never <=> \/ s \in delivered \cup rejected \cup dropped
                              \/ \E id \in Sessions : s \in buffered[id]

\* Only an unestablished session has buffered streams, and until Close the entry
\* of a session that AddSession added stays until deleteSession deletes it: that
\* is why deleteSession finds no buffered streams.
EntryInv ==
  /\ \A id \in Sessions : entry[id] # "unestablished" => buffered[id] = {}
  /\ \A id \in Sessions :
       id \in (established \ ended) \cup toDelete /\ ~closed => entry[id] = "session"
  /\ dropped # {} => closed

Inv == TypeOK /\ PlaceInv /\ EntryInv

-----------------------------------------------------------------------------
USE DEF timerVars, lifeVars, fateVars, Never

\* NewSessionManager: there are no entries and no streams.
LEMMA InitInv == Init => Inv
<1> SUFFICES ASSUME Init PROVE Inv
  OBVIOUS
<1> USE TimeAssumption DEF Init
<1>1. TypeOK
  <2>1. <<>> \in Seq(Sessions) /\ Len(<<>>) = 0
    OBVIOUS
  <2>2. recentlyClosedSessions \in Seq(Sessions) /\ Len(recentlyClosedSessions) <= MaxRecent
    BY <2>1
  <2>3. timer \in [Sessions -> 0..timers] /\ timers \in Nat /\ arrival \in [Streams -> Nat]
    OBVIOUS
  <2>4. armed \subseteq [id : Sessions, timer : 1..timers, at : Nat]
    OBVIOUS
  <2>5. now \in Nat /\ closed \in BOOLEAN /\ fired \in [Sessions -> Nat]
    OBVIOUS
  <2> QED
    BY <2>2, <2>3, <2>4, <2>5 DEF TypeOK
<1>2. PlaceInv
  BY DEF PlaceInv
<1>3. EntryInv
  BY DEF EntryInv
<1> QED
  BY <1>1, <1>2, <1>3 DEF Inv

\* The list of recently closed sessions keeps its type and its bound.
LEMMA RememberType ==
  ASSUME TypeOK, NEW id \in Sessions
  PROVE  Remember(id) \in Seq(Sessions) /\ Len(Remember(id)) <= MaxRecent
<1> DEFINE all == Append(recentlyClosedSessions, id)
<1>1. all \in Seq(Sessions) /\ Len(all) = Len(recentlyClosedSessions) + 1
  BY DEF TypeOK
<1>2. CASE Len(all) > MaxRecent
  <2>1. all # <<>>
    BY AppendProperties DEF TypeOK
  <2>2. Tail(all) \in Seq(Sessions) /\ Len(Tail(all)) = Len(all) - 1
    BY <1>1, <2>1
  <2> QED
    BY <1>1, <1>2, <2>2, TimeAssumption DEF TypeOK, Remember
<1>3. CASE ~(Len(all) > MaxRecent)
  BY <1>1, <1>3, TimeAssumption DEF TypeOK, Remember
<1> QED
  BY <1>2, <1>3

\* A running timer is one that some entry created.
LEMMA ResetTimerType ==
  ASSUME TypeOK, NEW id \in Sessions, resetTimer(id)
  PROVE  /\ timer' \in [Sessions -> 0..timers'] /\ timers' \in Nat
         /\ armed' \subseteq [id : Sessions, timer : 1..timers', at : Nat]
<1> USE TimeAssumption DEF TypeOK
<1> DEFINE t == IF timer[id] # 0 THEN timer[id] ELSE timers + 1
<1>1. timers' \in Nat /\ timers <= timers' /\ t \in 1..timers'
  BY DEF resetTimer
<1>2. timer' \in [Sessions -> 0..timers']
  BY <1>1 DEF resetTimer
<1>3. [id |-> id, timer |-> t, at |-> now + Timeout]
        \in [id : Sessions, timer : 1..timers', at : Nat]
  BY <1>1
<1>4. Stopped(id) \subseteq [id : Sessions, timer : 1..timers', at : Nat]
  BY <1>1 DEF Stopped
<1> QED
  BY <1>1, <1>2, <1>3, <1>4 DEF resetTimer

\* Every step keeps the types.
LEMMA TypeStep == TypeOK /\ [Next]_vars => TypeOK'
<1> SUFFICES ASSUME TypeOK, [Next]_vars PROVE TypeOK'
  OBVIOUS
<1> USE TimeAssumption
<1>1. ASSUME NEW s \in Streams, NEW id \in Sessions, AddStream(s, id) PROVE TypeOK'
  <2>1. arrival' \in [Streams -> Nat] /\ now \in Nat
    BY <1>1 DEF AddStream, TypeOK
  <2>2. CASE entry[id] = "none" /\ IsRecentlyClosed(id) /\ rejected' = rejected \cup {s}
             /\ UNCHANGED <<entry, buffered, timerVars, delivered>>
    BY <1>1, <2>1, <2>2 DEF AddStream, TypeOK
  <2>3. CASE entry[id] = "session" /\ delivered' = delivered \cup {s}
             /\ UNCHANGED <<entry, buffered, timerVars, rejected>>
    BY <1>1, <2>1, <2>3 DEF AddStream, TypeOK
  <2>4. CASE /\ entry' = [entry EXCEPT ![id] = "unestablished"]
             /\ buffered' = [buffered EXCEPT ![id] = @ \cup {s}]
             /\ resetTimer(id)
             /\ UNCHANGED <<delivered, rejected>>
    <3>1. /\ timer' \in [Sessions -> 0..timers'] /\ timers' \in Nat
          /\ armed' \subseteq [id : Sessions, timer : 1..timers', at : Nat]
      BY <2>4, ResetTimerType
    <3> QED
      BY <1>1, <2>1, <2>4, <3>1 DEF AddStream, TypeOK
  <2> QED
    BY <1>1, <2>2, <2>3, <2>4 DEF AddStream
<1>2. ASSUME NEW t \in armed, Fire(t) PROVE TypeOK'
  BY <1>2 DEF Fire, TypeOK
<1>3. ASSUME NEW id \in Sessions, onTimer(id) PROVE TypeOK'
  <2>1. fired' \in [Sessions -> Nat]
    BY <1>3 DEF onTimer, TypeOK
  <2>2. CASE entry[id] = "unestablished"
    <3>1. RejectBuffered(id) /\ DeleteEntry(id)
      BY <1>3, <2>2 DEF onTimer
    <3>2. timer' \in [Sessions -> 0..timers]
      BY <3>1 DEF DeleteEntry, TypeOK
    <3>3. /\ entry' \in [Sessions -> {"none", "unestablished", "session"}]
          /\ buffered' \in [Sessions -> SUBSET Streams]
          /\ rejected' \subseteq Streams /\ dropped' = dropped
      BY <3>1 DEF RejectBuffered, DeleteEntry, TypeOK
    <3> QED
      BY <1>3, <2>1, <3>2, <3>3 DEF onTimer, TypeOK
  <2>3. CASE entry[id] # "unestablished"
    BY <1>3, <2>1, <2>3 DEF onTimer, TypeOK
  <2> QED
    BY <2>2, <2>3
<1>4. ASSUME NEW id \in Sessions, AddSession(id) PROVE TypeOK'
  <2>1. armed' \subseteq armed
    BY <1>4 DEF AddSession, Stopped
  <2> QED
    BY <1>4, <2>1 DEF AddSession, DeliverBuffered, TypeOK
<1>5. ASSUME NEW id \in Sessions, SessionEnds(id) PROVE TypeOK'
  BY <1>5 DEF SessionEnds, TypeOK
<1>6. ASSUME NEW id \in toDelete, deleteSession(id) PROVE TypeOK'
  <2>1. id \in Sessions
    BY DEF TypeOK
  <2>2. Remember(id) \in Seq(Sessions) /\ Len(Remember(id)) <= MaxRecent
    BY <2>1, RememberType
  <2> QED
    BY <1>6, <2>1, <2>2 DEF deleteSession, ForgetBuffered, DeleteEntry, TypeOK
<1>7. CASE Close
  BY <1>7 DEF Close, TypeOK
<1>8. CASE Tick
  BY <1>8 DEF Tick, TypeOK
<1>9. CASE UNCHANGED vars
  BY <1>9 DEF vars, TypeOK
<1> QED
  BY <1>1, <1>2, <1>3, <1>4, <1>5, <1>6, <1>7, <1>8, <1>9 DEF Next

-----------------------------------------------------------------------------
\* The entries of the map: deleteSession and onTimer race with AddSession.
LEMMA EntryStep == Inv /\ [Next]_vars => EntryInv'
<1> SUFFICES ASSUME Inv, [Next]_vars PROVE EntryInv'
  OBVIOUS
<1> USE TimeAssumption DEF Inv, TypeOK, EntryInv
<1>1. ASSUME NEW s \in Streams, NEW id \in Sessions, AddStream(s, id) PROVE EntryInv'
  BY <1>1 DEF AddStream
<1>2. ASSUME NEW t \in armed, Fire(t) PROVE EntryInv'
  BY <1>2 DEF Fire
<1>3. ASSUME NEW id \in Sessions, onTimer(id) PROVE EntryInv'
  BY <1>3 DEF onTimer, RejectBuffered, DeleteEntry
<1>4. ASSUME NEW id \in Sessions, AddSession(id) PROVE EntryInv'
  BY <1>4 DEF AddSession
<1>5. ASSUME NEW id \in Sessions, SessionEnds(id) PROVE EntryInv'
  BY <1>5 DEF SessionEnds
<1>6. ASSUME NEW id \in toDelete, deleteSession(id) PROVE EntryInv'
  BY <1>6 DEF deleteSession, ForgetBuffered, DeleteEntry
<1>7. CASE Close
  BY <1>7 DEF Close
<1>8. CASE Tick
  BY <1>8 DEF Tick
<1>9. CASE UNCHANGED vars
  BY <1>9 DEF vars
<1> QED
  BY <1>1, <1>2, <1>3, <1>4, <1>5, <1>6, <1>7, <1>8, <1>9 DEF Next

\* The streams: each step moves a stream or the buffered streams of a session
\* from one place to another.
LEMMA PlaceStep == Inv /\ [Next]_vars => PlaceInv'
<1> SUFFICES ASSUME Inv, [Next]_vars PROVE PlaceInv'
  OBVIOUS
<1> USE TimeAssumption DEF Inv, TypeOK, PlaceInv
<1>1. ASSUME NEW s \in Streams, NEW id \in Sessions, AddStream(s, id) PROVE PlaceInv'
  <2>1. /\ arrival' = [arrival EXCEPT ![s] = now] /\ now # Never /\ dropped' = dropped
        /\ s \notin delivered \cup rejected \cup dropped
        /\ \A jd \in Sessions : s \notin buffered[jd]
    BY <1>1 DEF AddStream
  <2>2. CASE rejected' = rejected \cup {s} /\ UNCHANGED <<buffered, delivered>>
    BY <2>1, <2>2
  <2>3. CASE delivered' = delivered \cup {s} /\ UNCHANGED <<buffered, rejected>>
    BY <2>1, <2>3
  <2>4. CASE buffered' = [buffered EXCEPT ![id] = @ \cup {s}] /\ UNCHANGED <<delivered, rejected>>
    BY <2>1, <2>4
  <2> QED
    BY <1>1, <2>2, <2>3, <2>4 DEF AddStream
<1>2. ASSUME NEW t \in armed, Fire(t) PROVE PlaceInv'
  BY <1>2 DEF Fire
<1>3. ASSUME NEW id \in Sessions, onTimer(id) PROVE PlaceInv'
  <2>1. CASE entry[id] = "unestablished"
    <3>1. /\ rejected' = rejected \cup buffered[id] /\ buffered' = [buffered EXCEPT ![id] = {}]
          /\ UNCHANGED <<delivered, dropped, arrival>>
      BY <1>3, <2>1 DEF onTimer, RejectBuffered, DeleteEntry
    <3> QED
      BY <3>1
  <2>2. CASE entry[id] # "unestablished"
    BY <1>3, <2>2 DEF onTimer
  <2> QED
    BY <2>1, <2>2
<1>4. ASSUME NEW id \in Sessions, AddSession(id) PROVE PlaceInv'
  BY <1>4 DEF AddSession, DeliverBuffered
<1>5. ASSUME NEW id \in Sessions, SessionEnds(id) PROVE PlaceInv'
  BY <1>5 DEF SessionEnds
<1>6. ASSUME NEW id \in toDelete, deleteSession(id) PROVE PlaceInv'
  BY <1>6 DEF deleteSession, ForgetBuffered, DeleteEntry
<1>7. CASE Close
  BY <1>7 DEF Close
<1>8. CASE Tick
  BY <1>8 DEF Tick
<1>9. CASE UNCHANGED vars
  BY <1>9 DEF vars
<1> QED
  BY <1>1, <1>2, <1>3, <1>4, <1>5, <1>6, <1>7, <1>8, <1>9 DEF Next

-----------------------------------------------------------------------------
\* Inv is inductive: every method of sessionManager, every timer and every
\* session that ends keeps it.
THEOREM Invariance == Spec => []Inv
<1>1. Inv /\ [Next]_vars => Inv'
  BY TypeStep, PlaceStep, EntryStep DEF Inv
<1> QED
  BY InitInv, <1>1, PTL DEF Spec

\* For any number of sessions and streams, a stream that arrived has exactly one
\* fate, and none is forgotten before Close.
THEOREM OneFate == Spec => []StreamFate
<1>1. Inv => StreamFate
  <2> SUFFICES ASSUME Inv PROVE StreamFate
    OBVIOUS
  <2>1. dropped # {} => closed
    BY DEF Inv, EntryInv
  <2> DEFINE fates(s) == {f \in {"buffered", "delivered", "rejected", "dropped"} :
                            CASE f = "buffered"  -> \E id \in Sessions : s \in buffered[id]
                              [] f = "delivered" -> s \in delivered
                              [] f = "rejected"  -> s \in rejected
                              [] f = "dropped"   -> s \in dropped}
  <2>2. ASSUME NEW s \in Arrived PROVE Cardinality(fates(s)) = 1
    <3>1. \E x : fates(s) = {x}
      <4>1. s \in Streams /\ arrival[s] # Never
        BY DEF Arrived
      <4>2. CASE \E id \in Sessions : s \in buffered[id]
        <5>1. s \notin delivered \cup rejected \cup dropped
          BY <4>2 DEF Inv, PlaceInv
        <5>2. fates(s) = {"buffered"}
          BY <4>2, <5>1
        <5> QED
          BY <5>2
      <4>3. CASE ~\E id \in Sessions : s \in buffered[id]
        <5>1. CASE s \in delivered
          <6>1. s \notin rejected \cup dropped
            BY <5>1 DEF Inv, PlaceInv
          <6>2. fates(s) = {"delivered"}
            BY <4>3, <5>1, <6>1
          <6> QED
            BY <6>2
        <5>2. CASE s \in rejected
          <6>1. s \notin delivered \cup dropped
            BY <5>2 DEF Inv, PlaceInv
          <6>2. fates(s) = {"rejected"}
            BY <4>3, <5>2, <6>1
          <6> QED
            BY <6>2
        <5>3. CASE s \in dropped
          <6>1. s \notin delivered \cup rejected
            BY <5>3 DEF Inv, PlaceInv
          <6>2. fates(s) = {"dropped"}
            BY <4>3, <5>3, <6>1
          <6> QED
            BY <6>2
        <5> QED
          BY <4>1, <4>3, <5>1, <5>2, <5>3 DEF Inv, PlaceInv
      <4> QED
        BY <4>2, <4>3
    <3> QED
      BY <3>1, FS_Singleton
  <2> QED
    BY <2>1, <2>2 DEF StreamFate
<1> QED
  BY Invariance, <1>1, PTL

-----------------------------------------------------------------------------
\* No buffered stream is left without its timer: the timer of the entry runs, or
\* it has fired and onTimer waits for mx.  (BufferedResolved rests on it.)
TimerPending ==
  \A id \in Sessions : buffered[id] # {} =>
    \/ fired[id] > 0
    \/ \E t \in armed : t.id = id /\ t.timer = timer[id]

\* Two entries never share a timer, so stopping one leaves the others running.
TimerInv ==
  /\ \A id, jd \in Sessions : timer[id] = timer[jd] /\ timer[id] # 0 => id = jd
  /\ TimerPending

\* No step stops a timer that a buffered stream needs.
LEMMA TimerStep == Inv /\ TimerInv /\ [Next]_vars => TimerInv'
<1> SUFFICES ASSUME Inv, TimerInv, [Next]_vars PROVE TimerInv'
  OBVIOUS
<1> USE TimeAssumption DEF Inv, TypeOK
<1>a. ASSUME UNCHANGED <<timer, armed, fired, buffered>> PROVE TimerInv'
  BY <1>a DEF TimerInv, TimerPending
<1>b. ASSUME NEW id \in Sessions, buffered' = [buffered EXCEPT ![id] = {}],
             timer' = [timer EXCEPT ![id] = 0],
             armed' \in {armed, Stopped(id)},
             \A jd \in Sessions \ {id} : fired'[jd] = fired[jd]
      PROVE  TimerInv'
  <2>1. \A id1, jd \in Sessions : timer'[id1] = timer'[jd] /\ timer'[id1] # 0 => id1 = jd
    BY <1>b DEF TimerInv
  <2>2. ASSUME NEW jd \in Sessions, buffered'[jd] # {}
        PROVE  fired'[jd] > 0 \/ \E t \in armed' : t.id = jd /\ t.timer = timer'[jd]
    <3>1. jd # id /\ buffered[jd] # {} /\ timer'[jd] = timer[jd] /\ fired'[jd] = fired[jd]
      BY <1>b, <2>2
    <3>2. CASE fired[jd] > 0
      BY <3>1, <3>2
    <3>3. CASE \E t \in armed : t.id = jd /\ t.timer = timer[jd]
      <4>1. PICK t \in armed : t.id = jd /\ t.timer = timer[jd]
        BY <3>3
      <4>2. t.timer # 0
        OBVIOUS
      <4>3. timer[jd] # timer[id]
        BY <3>1, <4>1, <4>2 DEF TimerInv
      <4>4. t \in armed'
        BY <1>b, <4>1, <4>3 DEF Stopped
      <4> QED
        BY <3>1, <4>1, <4>4
    <3> QED
      BY <3>1, <3>2, <3>3 DEF TimerInv, TimerPending
  <2> QED
    BY <2>1, <2>2 DEF TimerInv, TimerPending
<1>1. ASSUME NEW s \in Streams, NEW id \in Sessions, AddStream(s, id) PROVE TimerInv'
  <2>1. CASE UNCHANGED <<buffered, timerVars>>
    BY <1>1, <2>1, <1>a DEF AddStream
  <2>2. CASE buffered' = [buffered EXCEPT ![id] = @ \cup {s}] /\ resetTimer(id)
    <3> DEFINE n == IF timer[id] # 0 THEN timer[id] ELSE timers + 1
               new == [id |-> id, timer |-> n, at |-> now + Timeout]
    <3>1. timer' = [timer EXCEPT ![id] = n] /\ armed' = Stopped(id) \cup {new} /\ fired' = fired
      BY <1>1, <2>2 DEF AddStream, resetTimer
    <3>2. n # 0 /\ \A jd \in Sessions \ {id} : timer[jd] # n
      BY DEF TimerInv
    <3>3. \A jd, kd \in Sessions : timer'[jd] = timer'[kd] /\ timer'[jd] # 0 => jd = kd
      BY <3>1, <3>2 DEF TimerInv
    <3>4. new \in armed' /\ new.id = id /\ new.timer = timer'[id]
      BY <3>1
    <3>5. ASSUME NEW jd \in Sessions, buffered'[jd] # {}
          PROVE  fired'[jd] > 0 \/ \E t \in armed' : t.id = jd /\ t.timer = timer'[jd]
      <4>1. CASE jd = id
        BY <3>4, <4>1
      <4>2. CASE jd # id
        <5>1. buffered[jd] # {} /\ timer'[jd] = timer[jd]
          BY <2>2, <3>1, <3>5, <4>2
        <5>2. CASE fired[jd] > 0
          BY <3>1, <5>2
        <5>3. CASE \E t \in armed : t.id = jd /\ t.timer = timer[jd]
          <6>1. PICK t \in armed : t.id = jd /\ t.timer = timer[jd]
            BY <5>3
          <6>2. t.timer # 0
            OBVIOUS
          <6>3. timer[jd] # timer[id]
            BY <4>2, <6>1, <6>2 DEF TimerInv
          <6>4. t \in armed'
            BY <3>1, <6>1, <6>3 DEF Stopped
          <6> QED
            BY <5>1, <6>1, <6>4
        <5> QED
          BY <5>1, <5>2, <5>3 DEF TimerInv, TimerPending
      <4> QED
        BY <4>1, <4>2
    <3> QED
      BY <3>3, <3>5 DEF TimerInv, TimerPending
  <2> QED
    BY <1>1, <2>1, <2>2 DEF AddStream
<1>2. ASSUME NEW t \in armed, Fire(t) PROVE TimerInv'
  <2>1. /\ armed' = armed \ {t} /\ fired' = [fired EXCEPT ![t.id] = @ + 1]
        /\ UNCHANGED <<timer, buffered>> /\ t.id \in Sessions
    BY <1>2 DEF Fire
  <2>2. fired'[t.id] > 0
    BY <2>1
  <2>3. \A jd \in Sessions \ {t.id} : fired'[jd] = fired[jd]
    BY <2>1
  <2>4. \A u \in armed : u.id # t.id => u \in armed'
    BY <2>1
  <2> QED
    BY <2>1, <2>2, <2>3, <2>4 DEF TimerInv, TimerPending
<1>3. ASSUME NEW id \in Sessions, onTimer(id) PROVE TimerInv'
  <2>1. \A jd \in Sessions \ {id} : fired'[jd] = fired[jd]
    BY <1>3 DEF onTimer
  <2>2. CASE entry[id] = "unestablished"
    BY <1>3, <2>1, <2>2, <1>b DEF onTimer, DeleteEntry
  <2>3. CASE entry[id] # "unestablished"
    <3>1. UNCHANGED <<timer, armed, buffered>> /\ buffered[id] = {}
      BY <1>3, <2>3 DEF onTimer, EntryInv
    <3> QED
      BY <2>1, <3>1 DEF TimerInv, TimerPending
  <2> QED
    BY <2>2, <2>3
<1>4. ASSUME NEW id \in Sessions, AddSession(id) PROVE TimerInv'
  BY <1>4, <1>b DEF AddSession
<1>5. ASSUME NEW id \in Sessions, SessionEnds(id) PROVE TimerInv'
  BY <1>5, <1>a DEF SessionEnds
<1>6. ASSUME NEW id \in toDelete, deleteSession(id) PROVE TimerInv'
  BY <1>6, <1>b DEF deleteSession, DeleteEntry
<1>7. CASE Close
  BY <1>7 DEF Close, TimerInv, TimerPending
<1>8. CASE Tick
  BY <1>8, <1>a DEF Tick
<1>9. CASE UNCHANGED vars
  BY <1>9, <1>a DEF vars
<1> QED
  BY <1>1, <1>2, <1>3, <1>4, <1>5, <1>6, <1>7, <1>8, <1>9 DEF Next

\* session_manager.go: a stream that is buffered has a timer that runs, or an
\* onTimer that is about to run, whatever AddSession, deleteSession and the
\* timers of other sessions do in between.
THEOREM TimerRuns == Spec => []TimerPending
<1>1. Init => TimerInv
  BY DEF Init, TimerInv, TimerPending
<1>2. TimerInv => TimerPending
  BY DEF TimerInv
<1> QED
  BY <1>1, <1>2, TimerStep, Invariance, PTL DEF Spec
=============================================================================
