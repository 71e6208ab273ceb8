--------------------------- MODULE SessionManager ---------------------------
(***************************************************************************)
(* session_manager.go: hands the streams of a QUIC connection to their     *)
(* WebTransport sessions, and buffers streams that arrive before their     *)
(* session does.                                                           *)
(*                                                                         *)
(* Every method runs under mx and is one action.  A timer that fires       *)
(* starts a goroutine that runs onTimer once it gets mx, and a session     *)
(* whose context is done starts one that runs deleteSession: other methods *)
(* may come first.  Time is a counter.  AddStream and AddUniStream differ  *)
(* only in the QUIC stream they reset.                                     *)
(***************************************************************************)
EXTENDS Naturals, Sequences, FiniteSets

CONSTANTS
  Sessions,   \* session IDs
  Streams,    \* streams opened by the peer
  Timeout,    \* the reordering timeout
  MaxRecent,  \* maxRecentlyClosedSessions
  Prompt,     \* whether time stands still while a timer is due
  MaxTime     \* bound: length of a behaviour in time

ASSUME TimeAssumption ==
  Timeout \in Nat \ {0} /\ MaxRecent \in Nat /\ MaxTime \in Nat /\ Prompt \in BOOLEAN

VARIABLES
  entry,      \* sessions[id]: "none", "unestablished" or "session"
  buffered,   \* the streams of the unestablished session
  timer,      \* the timer of the unestablished session, 0 if nil
  timers,     \* number of timers created
  armed,      \* the timers that are running
  fired,      \* number of goroutines about to run onTimer for a session
  recentlyClosedSessions,
  closed,     \* Close was called
  established, ended,  \* sessions that AddSession was called for; and that ended
  toDelete,   \* sessions that deleteSession is about to run for
  now, arrival,        \* the time, and when each stream arrived
  delivered, rejected, dropped  \* streams given to a session, reset, forgotten

vars == <<entry, buffered, timer, timers, armed, fired, recentlyClosedSessions, closed,
          established, ended, toDelete, now, arrival, delivered, rejected, dropped>>

timerVars == <<timer, timers, armed>>
lifeVars == <<established, ended, toDelete>>
fateVars == <<delivered, rejected, dropped>>

Never == MaxTime + 1
Arrived == {s \in Streams : arrival[s] # Never}

TypeOK ==
  /\ entry \in [Sessions -> {"none", "unestablished", "session"}]
  /\ buffered \in [Sessions -> SUBSET Streams]
  /\ timer \in [Sessions -> 0..timers] /\ timers \in Nat
  /\ armed \subseteq [id : Sessions, timer : 1..timers, at : Nat]
  /\ fired \in [Sessions -> Nat]
  /\ recentlyClosedSessions \in Seq(Sessions) /\ Len(recentlyClosedSessions) <= MaxRecent
  /\ closed \in BOOLEAN
  /\ established \subseteq Sessions /\ ended \subseteq established /\ toDelete \subseteq ended
  /\ now \in Nat /\ arrival \in [Streams -> Nat]
  /\ delivered \subseteq Streams /\ rejected \subseteq Streams /\ dropped \subseteq Streams

Init ==
  /\ entry = [id \in Sessions |-> "none"]
  /\ buffered = [id \in Sessions |-> {}]
  /\ timer = [id \in Sessions |-> 0] /\ timers = 0 /\ armed = {}
  /\ fired = [id \in Sessions |-> 0]
  /\ recentlyClosedSessions = <<>> /\ closed = FALSE
  /\ established = {} /\ ended = {} /\ toDelete = {}
  /\ now = 0 /\ arrival = [s \in Streams |-> Never]
  /\ delivered = {} /\ rejected = {} /\ dropped = {}

-----------------------------------------------------------------------------
Stopped(id) == {t \in armed : t.timer # timer[id]}

\* delete(m.sessions, id)
DeleteEntry(id) ==
  /\ entry' = [entry EXCEPT ![id] = "none"]
  /\ buffered' = [buffered EXCEPT ![id] = {}]
  /\ timer' = [timer EXCEPT ![id] = 0]

\* resetTimer: the first stream of an entry creates its timer, a further one
\* restarts it.
StopTimer(id) ==
  IF timer[id] # 0
  THEN armed' = Stopped(id) /\ UNCHANGED <<timer, timers>>
  ELSE /\ timers' = timers + 1
       /\ timer' = [timer EXCEPT ![id] = timers + 1]
       /\ armed' = armed \cup {[id |-> id, timer |-> timers + 1, at |-> now + Timeout]}
resetTimer(id) ==
  LET t == IF timer[id] # 0 THEN timer[id] ELSE timers + 1
  IN  /\ timer' = [timer EXCEPT ![id] = t]
      /\ timers' = IF timer[id] # 0 THEN timers ELSE t
      /\ armed' = Stopped(id) \cup {[id |-> id, timer |-> t, at |-> now + Timeout]}

IsRecentlyClosed(id) ==
  \E i \in 1..Len(recentlyClosedSessions) : recentlyClosedSessions[i] = id

\* AddStream and AddUniStream, for a stream that arrives now (early enough for
\* its timer to expire within MaxTime).
AddStream(s, id) ==
  /\ arrival[s] = Never /\ now + Timeout <= MaxTime
  /\ arrival' = [arrival EXCEPT ![s] = now]
  /\ \/ /\ entry[id] = "none" /\ IsRecentlyClosed(id)
        /\ rejected' = rejected \cup {s}
        /\ UNCHANGED <<entry, buffered, timerVars, delivered>>
     \/ /\ entry[id] = "session"
        /\ delivered' = delivered \cup {s}
        /\ UNCHANGED <<entry, buffered, timerVars, rejected>>
     \/ /\ entry[id] = "unestablished" \/ (entry[id] = "none" /\ ~IsRecentlyClosed(id))
        /\ entry' = [entry EXCEPT ![id] = "unestablished"]
        /\ buffered' = [buffered EXCEPT ![id] = @ \cup {s}]
        /\ resetTimer(id)
        /\ UNCHANGED <<delivered, rejected>>
  /\ UNCHANGED <<fired, recentlyClosedSessions, closed, lifeVars, now, dropped>>

\* A timer expires: onTimer waits for mx.
Fire(t) ==
  /\ t.at <= now
  /\ armed' = armed \ {t}
  /\ fired' = [fired EXCEPT ![t.id] = @ + 1]
  /\ UNCHANGED <<entry, buffered, timer, timers, recentlyClosedSessions, closed, lifeVars,
                 now, arrival, fateVars>>

\* onTimer resets what is buffered for a session that is not there yet.
ForgetBuffered(id) == dropped' = dropped \cup buffered[id] /\ UNCHANGED rejected
RejectBuffered(id) == rejected' = rejected \cup buffered[id] /\ UNCHANGED dropped

onTimer(id) ==
  /\ fired[id] > 0 /\ fired' = [fired EXCEPT ![id] = @ - 1]
  /\ IF entry[id] = "unestablished"
     THEN RejectBuffered(id) /\ DeleteEntry(id)
     ELSE UNCHANGED <<entry, buffered, timer, rejected, dropped>>
  /\ UNCHANGED <<timers, armed, recentlyClosedSessions, closed, lifeVars, now, arrival,
                 delivered>>

\* AddSession: the session gets the buffered streams.
DeliverBuffered(id) == delivered' = delivered \cup buffered[id]

AddSession(id) ==
  /\ id \notin established /\ established' = established \cup {id}
  /\ DeliverBuffered(id)
  /\ armed' = IF timer[id] # 0 THEN Stopped(id) ELSE armed
  /\ entry' = [entry EXCEPT ![id] = "session"]
  /\ buffered' = [buffered EXCEPT ![id] = {}]
  /\ timer' = [timer EXCEPT ![id] = 0]
  /\ UNCHANGED <<timers, fired, recentlyClosedSessions, closed, ended, toDelete, now,
                 arrival, rejected, dropped>>

\* The context of the session is done (context.AfterFunc) ...
SessionEnds(id) ==
  /\ id \in established \ ended
  /\ ended' = ended \cup {id} /\ toDelete' = toDelete \cup {id}
  /\ UNCHANGED <<entry, buffered, timerVars, fired, recentlyClosedSessions, closed,
                 established, now, arrival, fateVars>>

\* ... and deleteSession runs.
Remember(id) ==
  LET all == Append(recentlyClosedSessions, id)
  IN  IF Len(all) > MaxRecent THEN Tail(all) ELSE all

deleteSession(id) ==
  /\ toDelete' = toDelete \ {id}
  /\ ForgetBuffered(id)
  /\ DeleteEntry(id)
  /\ recentlyClosedSessions' = Remember(id)
  /\ UNCHANGED <<timers, armed, fired, closed, established, ended, now, arrival, delivered>>

\* Close, called when the QUIC connection is gone.
Close ==
  /\ ~closed /\ closed' = TRUE
  /\ armed' = {t \in armed : t.timer # timer[t.id]}
  /\ dropped' = dropped \cup UNION {buffered[id] : id \in Sessions}
  /\ entry' = [id \in Sessions |-> "none"]
  /\ buffered' = [id \in Sessions |-> {}]
  /\ timer' = [id \in Sessions |-> 0]
  /\ UNCHANGED <<timers, fired, recentlyClosedSessions, lifeVars, now, arrival, delivered,
                 rejected>>

Tick ==
  /\ now < MaxTime /\ now' = now + 1
  /\ Prompt => (\A t \in armed : t.at > now) /\ (\A id \in Sessions : fired[id] = 0)
  /\ UNCHANGED <<entry, buffered, timerVars, fired, recentlyClosedSessions, closed,
                 lifeVars, arrival, fateVars>>

Next ==
  \/ \E s \in Streams, id \in Sessions : AddStream(s, id)
  \/ \E t \in armed : Fire(t)
  \/ \E id \in Sessions : onTimer(id) \/ AddSession(id) \/ SessionEnds(id)
  \/ \E id \in toDelete : deleteSession(id)
  \/ Close \/ Tick

Spec == Init /\ [][Next]_vars
\* Time passes, timers fire, and goroutines that wait for mx get it.
Fairness ==
  /\ WF_vars(Tick) /\ WF_vars(\E t \in armed : Fire(t))
  /\ \A id \in Sessions : WF_vars(onTimer(id)) /\ WF_vars(id \in toDelete /\ deleteSession(id))

FairSpec == Spec /\ Fairness

-----------------------------------------------------------------------------
\* Every stream that arrived is either buffered or was given to its session or
\* reset or forgotten; and only one of these, whatever the order of timers,
\* AddSession and deleteSession.  It is forgotten without being reset only after
\* Close: onTimer and deleteSession never discard buffered streams.
StreamFate ==
  /\ dropped # {} => closed
  /\ \A s \in Arrived :
       LET fates == {f \in {"buffered", "delivered", "rejected", "dropped"} :
                       CASE f = "buffered"  -> \E id \in Sessions : s \in buffered[id]
                         [] f = "delivered" -> s \in delivered
                         [] f = "rejected"  -> s \in rejected
                         [] f = "dropped"   -> s \in dropped}
       IN  Cardinality(fates) = 1

\* A stream does not stay buffered: its session takes it, or it is reset.
BufferedResolved ==
  \A s \in Streams :
    (\E id \in Sessions : s \in buffered[id]) ~> s \in delivered \cup rejected \cup dropped

\* "The stream is buffered until the session is established. If that takes longer
\* than timeout, the stream is reset" (lines 49-50): a buffered stream is reset
\* when the timeout has passed, not before, and is not buffered any longer.
ResetAfterTimeout ==
  [][\A s \in Arrived :
       /\ s \in rejected' \ rejected => now >= arrival[s] + Timeout
       /\ (\E id \in Sessions : s \in buffered'[id]) => now' <= arrival[s] + Timeout]_vars
=============================================================================
