----------------------------- MODULE ServerProofs -----------------------------
(***************************************************************************)
(* Proofs about Server, for any number of sessions and any sharing of keys *)
(* between them.                                                           *)
(***************************************************************************)
EXTENDS Server, TLAPS

USE ServerAssumption DEF ServerAssumption

-----------------------------------------------------------------------------
(* The inductive invariant.                                                *)

\* A session has been accepted or refused exactly if the transport has made it.
ReadyInv == \A w \in Sessions : transport[w] = "new" <=> session[w] = "no"

\* The end that the tick is about to apply is no longer kept by the session, and the
\* tick task has ended when stop() goes on to the connections.
TickInv ==
  /\ tick.ends => tick.now # Nobody /\ tick.now \notin failed
  /\ stop.at \in {"closing", "transport", "stopped"} => tick.at = "ended"

\* As long as a session is open nothing but itself is registered for its key, ...
AloneInv == \A w \in Accepted : transport[w] = "open" => Connection(w) \in {w, Nobody}

\* ... and it is, until its end has been reported or stop() clears the table.  This
\* covers sessions that are gone: the report of their end takes the entry away.
HeldInv ==
  \A w \in Accepted :
    /\ transport[w] \in {"open", "gone"}
    /\ ~Refused(Key[w])
    /\ stop.at \in {"no", "tick", "closing"}
    => Connection(w) = w

\* The transport stops its sessions last.
StoppedInv ==
  \A w \in Sessions : /\ transport[w] = "stopped" => stop.at = "stopped"
                      /\ stop.at = "stopped" => transport[w] # "open"

\* What stop() found open is closed already or is still to be closed.
LeftInv ==
  /\ stop.at \in {"closing", "transport"} =>
       \A v \in found :
         transport[v] = "open" => v \in closed \cup stop.left \/ Refused(Key[v])
  /\ stop.at = "transport" => stop.left = {}

IInv == /\ TypeOK /\ ReadyInv /\ TickInv /\ AloneInv /\ HeldInv /\ StoppedInv /\ LeftInv
        /\ GivenOwn /\ StopEndsAll

\* The invariant holds at first.
LEMMA InitInv == Init => IInv
<1> SUFFICES ASSUME Init PROVE IInv
  OBVIOUS
<1>1. TypeOK
  BY DEF Init, TypeOK, Accepted, Asleep
<1>2. ReadyInv /\ TickInv /\ AloneInv /\ HeldInv /\ StoppedInv /\ LeftInv
  BY DEF Init, ReadyInv, TickInv, AloneInv, HeldInv, StoppedInv, LeftInv, Accepted, Asleep
<1>3. GivenOwn /\ StopEndsAll
  BY DEF Init, GivenOwn, StopEndsAll
<1> QED BY <1>1, <1>2, <1>3 DEF IInv

-----------------------------------------------------------------------------
(* The steps.                                                              *)

\* What is registered for a key is a session, and the key of a session is a key.
LEMMA ConnectionType ==
  ASSUME TypeOK
  PROVE  /\ Registered \subseteq Accepted
         /\ \A w \in Sessions : Key[w] \in Keys /\ Connection(w) \in Accepted \cup {Nobody}
         /\ \A w \in Sessions : Connection(w) = w => w \in Registered
<1>1. \A w \in Sessions : Key[w] \in Keys
  BY DEF Keys
<1>2. \A w \in Sessions : Connection(w) \in Accepted \cup {Nobody}
  BY <1>1 DEF TypeOK, Connection
<1>3. Registered \subseteq Accepted
  BY DEF TypeOK, Registered
<1>4. \A w \in Sessions : Connection(w) = w => w \in Registered
  BY <1>1 DEF Connection, Registered
<1> QED BY <1>1, <1>2, <1>3, <1>4

\* What does not touch the sessions keeps what is said of them alone.
LEMMA SessionsKept ==
  ASSUME IInv, UNCHANGED sessions
  PROVE  /\ Accepted' = Accepted /\ Registered' = Registered
         /\ ReadyInv' /\ AloneInv'
         /\ \A k \in Keys : Refused(k)' <=> Refused(k)
         /\ \A w \in Sessions : Connection(w)' = Connection(w)
BY DEF IInv, sessions, Accepted, Registered, ReadyInv, AloneInv, Refused, Connection

\* A session becomes ready.
LEMMA SessionReadyInv ==
  ASSUME IInv, NEW w \in Sessions, SessionReady(w)
  PROVE  IInv'
<1>1. /\ transport[w] = "new" /\ session[w] = "no" /\ Key[w] \in Keys
      /\ \A v \in Sessions : Key[v] = Key[w] => transport[v] # "open"
      /\ transport' = [transport EXCEPT ![w] = "open"]
      /\ stop.at # "stopped"
      /\ UNCHANGED <<endings, callbacks, tick, stop, found>>
  BY ConnectionType DEF SessionReady, Serving, IInv, ReadyInv
<1>2. /\ \A v \in Sessions \ {w} : session'[v] = session[v] /\ transport'[v] = transport[v]
      /\ transport'[w] = "open" /\ session'[w] \in {"accepted", "refused"}
      /\ session' \in [Sessions -> {"no", "refused", "accepted"}]
  BY <1>1 DEF SessionReady, IInv, TypeOK
<1>3. Accepted \subseteq Accepted' /\ w \notin Accepted /\ Accepted' \subseteq Accepted \cup {w}
  BY <1>1, <1>2 DEF Accepted
<1>4. \A k \in Keys : Refused(k) => Refused(k)'
  BY <1>1, <1>2 DEF Refused
<1>5. \/ /\ Connection(w) = Nobody /\ session'[w] = "accepted"
         /\ connections' = [connections EXCEPT ![Key[w]] = w]
      \/ /\ session'[w] = "refused" /\ connections' = connections
  BY <1>1 DEF SessionReady, IInv, TypeOK
<1>6. TypeOK'
  <2>1. connections' \in [Keys -> Accepted' \cup {Nobody}]
    BY <1>1, <1>2, <1>3, <1>5 DEF IInv, TypeOK, Accepted
  <2>2. transport' \in [Sessions -> {"new", "open", "gone", "reported", "stopped"}]
    BY <1>1 DEF IInv, TypeOK
  <2>3. UNCHANGED <<failed, lost, closed, found, handling, crossed, tick, stop>>
    BY <1>1 DEF endings, callbacks
  <2>4. /\ failed \cup lost \cup found \subseteq Accepted'
        /\ closed \subseteq Accepted' /\ failed \cap closed = {}
        /\ handling \in [Sessions -> Accepted' \cup {Nobody}]
        /\ crossed \subseteq Accepted' \X Accepted'
    BY <1>3 DEF IInv, TypeOK
  <2>5. /\ tick \in [at: {"asleep", "round", "ticking", "ended"}, left: SUBSET Accepted',
                     now: Accepted' \cup {Nobody}, ends: BOOLEAN]
        /\ stop \in [at: {"no", "tick", "closing", "transport", "stopped"},
                     left: SUBSET Accepted']
    BY <1>3 DEF IInv, TypeOK
  <2> QED BY <1>2, <2>1, <2>2, <2>3, <2>4, <2>5 DEF TypeOK
<1>7. ReadyInv' /\ TickInv' /\ StoppedInv'
  BY <1>1, <1>2 DEF IInv, ReadyInv, TickInv, StoppedInv, endings
<1>8. \A v \in Accepted : Key[v] # Key[w] => Connection(v)' = Connection(v)
  BY <1>1, <1>5, ConnectionType DEF IInv, TypeOK, Connection, Accepted
<1>9. AloneInv'
  <2> SUFFICES ASSUME NEW v \in Accepted', transport'[v] = "open"
               PROVE  Connection(v)' \in {v, Nobody}
    BY DEF AloneInv
  <2>1. CASE v = w
    BY <1>1, <1>2, <1>5, <2>1 DEF Connection, Accepted, IInv, TypeOK
  <2>2. CASE v # w
    <3>1. v \in Accepted /\ transport[v] = "open" /\ Key[v] # Key[w]
      BY <1>1, <1>2, <1>3, <2>2 DEF Accepted
    <3> QED BY <1>8, <3>1 DEF IInv, AloneInv
  <2> QED BY <2>1, <2>2
<1>10. HeldInv'
  <2> SUFFICES ASSUME NEW v \in Accepted', transport'[v] \in {"open", "gone"},
                      ~Refused(Key[v])', stop'.at \in {"no", "tick", "closing"}
               PROVE  Connection(v)' = v
    BY DEF HeldInv
  <2>1. CASE v = w
    BY <1>1, <1>2, <1>5, <2>1 DEF Connection, Accepted, IInv, TypeOK
  <2>2. CASE v # w
    <3>1. /\ v \in Accepted /\ v \in Sessions /\ transport[v] \in {"open", "gone"}
          /\ ~Refused(Key[v]) /\ stop.at \in {"no", "tick", "closing"}
      BY <1>1, <1>2, <1>3, <1>4, <2>2, ConnectionType DEF Accepted, IInv
    <3>2. Connection(v) = v
      BY <3>1 DEF IInv, HeldInv
    <3>3. Key[v] # Key[w]
      <4> SUFFICES ASSUME Key[v] = Key[w] PROVE FALSE
        OBVIOUS
      <4>1. Connection(w) = v /\ v # Nobody
        BY <3>1, <3>2 DEF Connection
      <4>2. session'[w] = "refused"
        BY <1>5, <4>1
      <4> QED BY <4>2 DEF Refused
    <3> QED BY <1>8, <3>1, <3>2, <3>3
  <2> QED BY <2>1, <2>2
<1>11. LeftInv' /\ StopEndsAll'
  <2>1. found \subseteq Accepted /\ found \subseteq Sessions /\ w \notin found
    BY <1>3 DEF IInv, TypeOK, Accepted
  <2> QED BY <1>1, <1>2, <1>4, <2>1, ConnectionType
          DEF IInv, LeftInv, StopEndsAll, endings
<1>12. GivenOwn'
  <2>1. \A pair \in crossed : pair[1] \in Sessions /\ pair[1] # w
    BY <1>3 DEF IInv, TypeOK, Accepted
  <2> QED BY <1>1, <1>2, <2>1 DEF IInv, GivenOwn, callbacks
<1> QED BY <1>6, <1>7, <1>9, <1>10, <1>11, <1>12 DEF IInv

\* The transport loses a session.
LEMMA LeaveInv ==
  ASSUME IInv, NEW w \in Sessions, Leave(w)
  PROVE  IInv'
<1>1. /\ transport[w] = "open"
      /\ transport' = [transport EXCEPT ![w] = "gone"]
      /\ UNCHANGED <<connections, session, failed, closed, lost, handling, crossed,
                     tick, stop, found>>
  BY DEF Leave, endings, callbacks
<1>2. /\ transport'[w] = "gone" /\ \A v \in Sessions \ {w} : transport'[v] = transport[v]
      /\ Accepted' = Accepted
      /\ \A k \in Keys : Refused(k)' <=> Refused(k)
      /\ \A v \in Sessions : Connection(v)' = Connection(v)
  BY <1>1 DEF IInv, TypeOK, Accepted, Refused, Connection
<1>3. TypeOK'
  BY <1>1, <1>2 DEF IInv, TypeOK
<1>4. ReadyInv' /\ TickInv' /\ AloneInv' /\ StoppedInv'
  BY <1>1, <1>2 DEF IInv, ReadyInv, TickInv, AloneInv, StoppedInv, Accepted
<1>5. HeldInv'
  BY <1>1, <1>2, ConnectionType DEF IInv, HeldInv, Accepted
<1>6. LeftInv' /\ GivenOwn' /\ StopEndsAll'
  <2>1. found \subseteq Sessions /\ \A pair \in crossed : pair[1] \in Sessions
    BY DEF IInv, TypeOK, Accepted
  <2> QED BY <1>1, <1>2, <2>1, ConnectionType DEF IInv, LeftInv, GivenOwn, StopEndsAll
<1> QED BY <1>3, <1>4, <1>5, <1>6 DEF IInv

\* The end of a session is reported.  The entry it takes away is its own, unless a
\* session of the key was refused.
LEMMA SessionClosedInv ==
  ASSUME IInv, NEW w \in Sessions, SessionClosed(w)
  PROVE  IInv'
<1>1. /\ transport[w] = "gone"
      /\ transport' = [transport EXCEPT ![w] = "reported"]
      /\ connections' = [connections EXCEPT ![Key[w]] = Nobody]
      /\ UNCHANGED <<session, failed, closed, lost, handling, crossed, tick, stop, found>>
  BY DEF SessionClosed, endings, callbacks
<1>2. /\ transport'[w] = "reported" /\ \A v \in Sessions \ {w} : transport'[v] = transport[v]
      /\ Accepted' = Accepted
      /\ \A k \in Keys : Refused(k)' <=> Refused(k)
  BY <1>1 DEF IInv, TypeOK, Accepted, Refused
<1>3. \A v \in Sessions :
        Connection(v)' = IF Key[v] = Key[w] THEN Nobody ELSE Connection(v)
  BY <1>1, ConnectionType DEF IInv, TypeOK, Connection
<1>4. TypeOK'
  BY <1>1, <1>2, ConnectionType DEF IInv, TypeOK
<1>5. ReadyInv' /\ TickInv' /\ AloneInv' /\ StoppedInv'
  BY <1>1, <1>2, <1>3 DEF IInv, ReadyInv, TickInv, AloneInv, StoppedInv, Accepted
<1>6. HeldInv'
  <2> SUFFICES ASSUME NEW v \in Accepted', transport'[v] \in {"open", "gone"},
                      ~Refused(Key[v])', stop'.at \in {"no", "tick", "closing"}
               PROVE  Connection(v)' = v
    BY DEF HeldInv
  <2>0. v \in Accepted /\ v \in Sessions /\ ~Refused(Key[v]) /\ stop' = stop
    BY <1>1, <1>2, ConnectionType DEF Accepted, IInv
  <2>1. v # w /\ transport[v] \in {"open", "gone"} /\ Connection(v) = v
    BY <1>2, <2>0 DEF IInv, HeldInv
  <2>2. Key[v] # Key[w]
    <3> SUFFICES ASSUME Key[v] = Key[w] PROVE FALSE
      OBVIOUS
    <3>1. w \in Accepted
      BY <1>1, <2>0 DEF IInv, TypeOK, ReadyInv, Refused, Accepted
    <3>2. Connection(w) = w
      BY <1>1, <2>0, <3>1 DEF IInv, HeldInv
    <3> QED BY <2>1, <3>2 DEF Connection
  <2> QED BY <1>3, <2>0, <2>1, <2>2
<1>7. LeftInv' /\ GivenOwn' /\ StopEndsAll'
  <2>1. found \subseteq Sessions /\ \A pair \in crossed : pair[1] \in Sessions
    BY DEF IInv, TypeOK, Accepted
  <2> QED BY <1>1, <1>2, <2>1, ConnectionType DEF IInv, LeftInv, GivenOwn, StopEndsAll
<1> QED BY <1>4, <1>5, <1>6, <1>7 DEF IInv

\* What the peer sends does not touch the sessions.
LEMMA ReceiveInv ==
  ASSUME IInv, NEW w \in Sessions, ReceiveFails(w) \/ Receive(w) \/ Handle(w)
  PROVE  IInv'
<1>1. UNCHANGED <<sessions, closed, lost, tick, stop, found>>
  BY DEF ReceiveFails, Receive, Handle, endings, callbacks
<1>2. /\ Accepted' = Accepted /\ ReadyInv' /\ AloneInv'
      /\ \A k \in Keys : Refused(k)' <=> Refused(k)
      /\ \A v \in Sessions : Connection(v)' = Connection(v)
  BY <1>1, SessionsKept
<1>3. TypeOK'
  <2>1. CASE ReceiveFails(w)
    BY <1>1, <1>2, <2>1, ConnectionType DEF ReceiveFails, IInv, TypeOK, sessions, callbacks
  <2>2. CASE Receive(w)
    BY <1>1, <1>2, <2>2, ConnectionType DEF Receive, IInv, TypeOK, sessions, endings
  <2>3. CASE Handle(w)
    BY <1>1, <1>2, <2>3, ConnectionType DEF Handle, IInv, TypeOK, sessions, endings, Accepted
  <2> QED BY <2>1, <2>2, <2>3
<1>4. TickInv'
  BY <1>1 DEF ReceiveFails, Receive, Handle, endings, IInv, TickInv
<1>5. HeldInv' /\ StoppedInv'
  BY <1>1, <1>2, ConnectionType DEF IInv, HeldInv, StoppedInv, sessions, Accepted
<1>6. LeftInv' /\ StopEndsAll'
  BY <1>1, <1>2, ConnectionType DEF IInv, TypeOK, LeftInv, StopEndsAll, sessions, Accepted
<1>7. GivenOwn'
  <2>1. CASE crossed' = crossed
    BY <1>1, <2>1 DEF IInv, GivenOwn, sessions
  <2>2. CASE Handle(w) /\ crossed' # crossed
    <3> DEFINE v == handling[w]
    <3>1. v \in Accepted /\ Connection(v) \notin {v, Nobody}
      BY <2>2 DEF Handle, IInv, TypeOK
    <3>2. transport[v] # "open"
      BY <3>1 DEF IInv, AloneInv
    <3>3. crossed' = crossed \cup {<<v, Connection(v)>>}
      BY <2>2 DEF Handle
    <3> QED BY <1>1, <3>2, <3>3 DEF IInv, GivenOwn, sessions
  <2> QED BY <2>1, <2>2 DEF ReceiveFails, Receive, callbacks
<1> QED BY <1>2, <1>3, <1>4, <1>5, <1>6, <1>7 DEF IInv

\* A step of the tick task.
LEMMA TickTaskInv ==
  ASSUME IInv, TickTask
  PROVE  IInv'
<1>1. /\ UNCHANGED <<sessions, handling, crossed, stop, found>>
      /\ closed \subseteq closed'
      /\ tick.at # "ended"
  BY DEF TickTask, TickRound, TickNext, Ticked, TickSleeps, endings, callbacks
<1>2. /\ Accepted' = Accepted /\ Registered \subseteq Accepted /\ ReadyInv' /\ AloneInv'
      /\ \A k \in Keys : Refused(k)' <=> Refused(k)
      /\ \A v \in Sessions : Connection(v)' = Connection(v)
  BY <1>1, SessionsKept, ConnectionType DEF IInv
<1>3. TypeOK' /\ TickInv'
  <2>1. /\ transport' = transport /\ connections' = connections /\ session' = session
        /\ handling' = handling /\ crossed' = crossed /\ stop' = stop /\ found' = found
    BY <1>1 DEF sessions
  <2>2. /\ tick.at \in {"asleep", "round", "ticking"} /\ tick.left \subseteq Accepted
        /\ tick.now \in Accepted \cup {Nobody} /\ tick.ends \in BOOLEAN
        /\ tick.ends => tick.now # Nobody /\ tick.now \notin failed
        /\ failed \subseteq Accepted /\ closed \subseteq Accepted /\ lost \subseteq Accepted
        /\ failed \cap closed = {}
        /\ stop.at \notin {"closing", "transport", "stopped"}
    BY <1>1 DEF IInv, TypeOK, TickInv
  <2>3. /\ failed' \cup lost' \subseteq Accepted /\ closed' \subseteq Accepted
        /\ failed' \cap closed' = {}
    <3>1. CASE TickRound \/ TickSleeps
      BY <2>2, <3>1 DEF TickRound, TickSleeps, endings
    <3>2. ASSUME NEW v \in Sessions, TickNext(v)
          PROVE  lost' = lost /\ closed' = closed /\ failed' \subseteq failed
      BY <3>2 DEF TickNext
    <3>3. CASE Ticked
      BY <2>2, <3>3 DEF Ticked
    <3> QED BY <2>2, <3>1, <3>2, <3>3 DEF TickTask
  <2>4. /\ tick' \in [at: {"asleep", "round", "ticking", "ended"}, left: SUBSET Accepted,
                      now: Accepted \cup {Nobody}, ends: BOOLEAN]
        /\ tick'.ends => tick'.now # Nobody /\ tick'.now \notin failed'
    <3>0. tick = [at |-> tick.at, left |-> tick.left, now |-> tick.now, ends |-> tick.ends]
      BY DEF IInv, TypeOK
    <3>1. CASE TickRound
      <4>1. tick' = [at |-> "round", left |-> Registered, now |-> tick.now, ends |-> tick.ends]
            /\ failed' = failed
        BY <3>0, <3>1 DEF TickRound, endings
      <4> QED BY <1>2, <2>2, <4>1
    <3>2. CASE TickSleeps
      BY <3>2 DEF TickSleeps, Asleep
    <3>3. ASSUME NEW v \in Sessions, TickNext(v)
          PROVE  /\ tick' \in [at: {"asleep", "round", "ticking", "ended"}, left: SUBSET Accepted,
                               now: Accepted \cup {Nobody}, ends: BOOLEAN]
                 /\ tick'.ends => tick'.now # Nobody /\ tick'.now \notin failed'
      <4>1. CASE v \in closed
        <5>1. tick' = [at |-> tick.at, left |-> tick.left \ {v}, now |-> tick.now,
                       ends |-> tick.ends]
              /\ failed' = failed
          BY <3>0, <3>3, <4>1 DEF TickNext
        <5> QED BY <2>2, <5>1
      <4>2. CASE v \notin closed
        <5>1. /\ tick' = [at |-> "ticking", left |-> tick.left \ {v}, now |-> v,
                          ends |-> v \in failed]
              /\ failed' = failed \ {v} /\ v \in tick.left
          BY <3>3, <4>2 DEF TickNext
        <5>2. v \in Accepted /\ v # Nobody /\ (v \in failed) \in BOOLEAN
          BY <2>2, <5>1 DEF Accepted
        <5> QED BY <2>2, <5>1, <5>2
      <4> QED BY <4>1, <4>2
    <3>4. CASE Ticked
      <4>1. tick' = [at |-> "round", left |-> tick.left, now |-> Nobody, ends |-> FALSE]
        BY <3>0, <3>4 DEF Ticked
      <4> QED BY <2>2, <4>1
    <3> QED BY <3>1, <3>2, <3>3, <3>4 DEF TickTask
  <2>5. TickInv'
    BY <2>1, <2>2, <2>4 DEF TickInv
  <2> QED BY <1>2, <2>1, <2>3, <2>4, <2>5 DEF IInv, TypeOK
<1>4. HeldInv' /\ StoppedInv'
  BY <1>1, <1>2, ConnectionType DEF IInv, HeldInv, StoppedInv, sessions, Accepted
<1>5. LeftInv' /\ StopEndsAll' /\ GivenOwn'
  BY <1>1, <1>2, ConnectionType
     DEF IInv, TypeOK, TickInv, LeftInv, StopEndsAll, GivenOwn, sessions, Accepted
<1> QED BY <1>2, <1>3, <1>4, <1>5 DEF IInv

\* A step of stop().
LEMMA StopInv ==
  ASSUME IInv,
         Stop \/ TickCancelled \/ (\E v \in Sessions : CloseNext(v))
           \/ ClearConnections \/ TransportStopped
  PROVE  IInv'
<1>1. CASE Stop
  <2>1. /\ UNCHANGED <<sessions, failed, closed, lost, handling, crossed, tick>>
        /\ stop.at = "no" /\ stop'.at = "tick" /\ stop'.left = stop.left
        /\ stop' \in [at: {"no", "tick", "closing", "transport", "stopped"},
                      left: SUBSET Accepted]
        /\ found' = Registered
    BY <1>1 DEF Stop, endings, callbacks, IInv, TypeOK
  <2>2. /\ Accepted' = Accepted /\ Registered \subseteq Accepted /\ ReadyInv' /\ AloneInv'
        /\ \A k \in Keys : Refused(k)' <=> Refused(k)
        /\ \A v \in Sessions : Connection(v)' = Connection(v)
    BY <2>1, SessionsKept, ConnectionType DEF IInv
  <2>3. TypeOK' /\ TickInv'
    BY <2>1, <2>2 DEF IInv, TypeOK, TickInv, sessions
  <2>4. HeldInv' /\ StoppedInv' /\ LeftInv' /\ GivenOwn' /\ StopEndsAll'
    BY <2>1, <2>2, ConnectionType
       DEF IInv, HeldInv, StoppedInv, LeftInv, GivenOwn, StopEndsAll, sessions, Accepted
  <2> QED BY <2>2, <2>3, <2>4 DEF IInv
<1>2. CASE TickCancelled
  <2>1. /\ UNCHANGED <<sessions, failed, closed, handling, crossed, found>>
        /\ tick' = [at |-> "ended", left |-> {}, now |-> Nobody, ends |-> FALSE]
        /\ stop.at = "tick" /\ stop' = [at |-> "closing", left |-> Registered]
        /\ lost' \subseteq lost \cup ({tick.now} \ {Nobody})
    BY <1>2 DEF TickCancelled, Asleep, callbacks, IInv, TickInv
  <2>2. /\ Accepted' = Accepted /\ Registered \subseteq Accepted /\ ReadyInv' /\ AloneInv'
        /\ \A k \in Keys : Refused(k)' <=> Refused(k)
        /\ \A v \in Sessions : Connection(v)' = Connection(v)
    BY <2>1, SessionsKept, ConnectionType DEF IInv
  <2>3. TypeOK' /\ TickInv'
    BY <2>1, <2>2 DEF IInv, TypeOK, TickInv, sessions
  <2>4. HeldInv' /\ StoppedInv' /\ GivenOwn' /\ StopEndsAll'
    BY <2>1, <2>2, ConnectionType
       DEF IInv, HeldInv, StoppedInv, GivenOwn, StopEndsAll, sessions, Accepted
  <2>5. LeftInv'
    <3>1. ASSUME NEW v \in found, transport[v] = "open", ~Refused(Key[v])
          PROVE  v \in Registered
      <4>1. v \in Accepted /\ v \in Sessions
        BY DEF IInv, TypeOK, Accepted
      <4>2. Connection(v) = v
        BY <2>1, <3>1, <4>1 DEF IInv, HeldInv
      <4> QED BY <4>1, <4>2, ConnectionType DEF IInv
    <3>2. found \subseteq Sessions
      BY DEF IInv, TypeOK, Accepted
    <3>3. /\ stop'.at = "closing" /\ stop'.left = Registered /\ found' = found
          /\ transport' = transport /\ closed' = closed
      BY <2>1 DEF sessions
    <3>4. ASSUME NEW v \in found, transport[v] = "open"
          PROVE  v \in closed \cup Registered \/ Refused(Key[v])'
      BY <2>2, <3>1, <3>2, <3>4, ConnectionType DEF IInv
    <3> QED BY <3>3, <3>4 DEF LeftInv
  <2> QED BY <2>2, <2>3, <2>4, <2>5 DEF IInv
<1>3. ASSUME NEW v \in Sessions, CloseNext(v) PROVE IInv'
  <2>1. /\ UNCHANGED <<sessions, lost, handling, crossed, tick, found>>
        /\ stop.at = "closing" /\ stop'.at = "closing" /\ stop'.left = stop.left \ {v}
        /\ stop' \in [at: {"no", "tick", "closing", "transport", "stopped"},
                      left: SUBSET Accepted]
        /\ v \in Accepted /\ closed' = closed \cup {v} /\ failed' = failed \ {v}
    BY <1>3 DEF CloseNext, callbacks, IInv, TypeOK
  <2>2. /\ Accepted' = Accepted /\ ReadyInv' /\ AloneInv'
        /\ \A k \in Keys : Refused(k)' <=> Refused(k)
        /\ \A u \in Sessions : Connection(u)' = Connection(u)
    BY <2>1, SessionsKept
  <2>3. TypeOK' /\ TickInv'
    BY <2>1, <2>2 DEF IInv, TypeOK, TickInv, sessions
  <2>4. HeldInv' /\ StoppedInv' /\ GivenOwn' /\ StopEndsAll'
    BY <2>1, <2>2, ConnectionType
       DEF IInv, HeldInv, StoppedInv, GivenOwn, StopEndsAll, sessions, Accepted
  <2>5. LeftInv'
    BY <2>1, <2>2, ConnectionType DEF IInv, TypeOK, LeftInv, sessions, Accepted
  <2> QED BY <2>2, <2>3, <2>4, <2>5 DEF IInv
<1>4. CASE ClearConnections
  <2>1. /\ UNCHANGED <<transport, session, failed, closed, lost, handling, crossed, tick, found>>
        /\ stop.at = "closing" /\ stop.left = {}
        /\ stop'.at = "transport" /\ stop'.left = {}
        /\ stop' \in [at: {"no", "tick", "closing", "transport", "stopped"},
                      left: SUBSET Accepted]
        /\ connections' = [k \in Keys |-> Nobody]
    BY <1>4 DEF ClearConnections, endings, callbacks, IInv, TypeOK
  <2>2. /\ Accepted' = Accepted
        /\ \A k \in Keys : Refused(k)' <=> Refused(k)
        /\ \A v \in Sessions : Connection(v)' = Nobody
    BY <2>1, ConnectionType DEF IInv, Accepted, Refused, Connection
  <2>3. TypeOK' /\ TickInv' /\ ReadyInv'
    BY <2>1, <2>2 DEF IInv, TypeOK, TickInv, ReadyInv
  <2>4. AloneInv' /\ HeldInv' /\ StoppedInv' /\ GivenOwn' /\ StopEndsAll'
    BY <2>1, <2>2 DEF IInv, AloneInv, HeldInv, StoppedInv, GivenOwn, StopEndsAll, Accepted
  <2>5. LeftInv'
    BY <2>1, <2>2, ConnectionType DEF IInv, TypeOK, LeftInv, Accepted
  <2> QED BY <2>3, <2>4, <2>5 DEF IInv
<1>5. CASE TransportStopped
  <2>1. /\ UNCHANGED <<connections, session, failed, closed, lost, handling, crossed, tick, found>>
        /\ stop.at = "transport" /\ stop'.at = "stopped" /\ stop.left = {} /\ stop'.left = {}
        /\ stop' \in [at: {"no", "tick", "closing", "transport", "stopped"},
                      left: SUBSET Accepted]
        /\ \A v \in Sessions : transport'[v] = IF transport[v] = "open" THEN "stopped"
                                                                      ELSE transport[v]
        /\ transport' \in [Sessions -> {"new", "open", "gone", "reported", "stopped"}]
    BY <1>5 DEF TransportStopped, endings, callbacks, IInv, TypeOK, LeftInv
  <2>2. /\ Accepted' = Accepted
        /\ \A k \in Keys : Refused(k)' <=> Refused(k)
    BY <2>1 DEF Accepted, Refused
  <2>3. TypeOK' /\ TickInv' /\ ReadyInv'
    BY <2>1, <2>2 DEF IInv, TypeOK, TickInv, ReadyInv
  <2>4. AloneInv' /\ HeldInv' /\ StoppedInv' /\ LeftInv'
    BY <2>1, <2>2 DEF IInv, AloneInv, HeldInv, StoppedInv, LeftInv, Accepted
  <2>5. GivenOwn'
    <3>1. \A pair \in crossed : pair[1] \in Sessions
      BY DEF IInv, TypeOK, Accepted
    <3> QED BY <2>1, <3>1 DEF IInv, GivenOwn
  <2>6. StopEndsAll'
    <3>1. /\ found \subseteq Sessions /\ tick.at = "ended"
          /\ \A v \in Sessions : transport[v] # "stopped"
      BY <2>1 DEF IInv, TypeOK, Accepted, TickInv, StoppedInv
    <3>2. ASSUME NEW v \in found, transport'[v] = "stopped"
          PROVE  v \in closed \/ Refused(Key[v])
      BY <2>1, <3>1, <3>2 DEF IInv, LeftInv
    <3> QED BY <2>1, <2>2, <3>1, <3>2, ConnectionType DEF IInv, StopEndsAll
  <2> QED BY <2>3, <2>4, <2>5, <2>6 DEF IInv
<1> QED BY <1>1, <1>2, <1>3, <1>4, <1>5

\* A step that changes nothing.
LEMMA StutterInv == ASSUME IInv, UNCHANGED vars PROVE IInv'
BY DEF IInv, TypeOK, ReadyInv, TickInv, AloneInv, HeldInv, StoppedInv, LeftInv, GivenOwn,
       StopEndsAll, Accepted, Refused, Connection, vars, sessions, endings, callbacks

\* Every step keeps the invariant.
LEMMA NextInv == IInv /\ [Next]_vars => IInv'
BY SessionReadyInv, LeaveInv, SessionClosedInv, ReceiveInv, TickTaskInv, StopInv, StutterInv
   DEF Next

-----------------------------------------------------------------------------
(* The theorems.                                                           *)

\* The inductive invariant holds of every reachable state.
THEOREM Invariant == Spec => []IInv
BY InitInv, NextInv, PTL DEF Spec

\* The types, for any number of sessions.
THEOREM TypeCorrect == Spec => []TypeOK
<1>1. IInv => TypeOK
  BY DEF IInv
<1> QED BY <1>1, Invariant, PTL

\* The invariant gives Served: an open session was accepted, unless one of its key was
\* refused, and so it is held.
LEMMA InvServed == IInv => Served
<1> SUFFICES ASSUME IInv, NEW w \in Sessions, transport[w] = "open", ~Refused(Key[w]),
                    stop.at # "transport"
             PROVE  Connection(w) = w
  BY DEF Served
<1>1. w \in Accepted
  BY DEF IInv, TypeOK, ReadyInv, Refused, Accepted
<1>2. stop.at \in {"no", "tick", "closing"}
  BY DEF IInv, TypeOK, StoppedInv
<1> QED BY <1>1, <1>2 DEF IInv, HeldInv

\* An open session is the one registered for its key (_on_session_ready and
\* _on_session_closed), however many sessions share addresses and session IDs.
THEOREM OpenIsServed == Spec => []Served
BY InvServed, Invariant, PTL

\* The application is given the runtime of the session an event came on, as long as that
\* session is open.
THEOREM EventsAreGivenOwn == Spec => []GivenOwn
<1>1. IInv => GivenOwn
  BY DEF IInv
<1> QED BY <1>1, Invariant, PTL

\* stop() ends the tick task and leaves no session open that was registered before it.
THEOREM StopIsComplete == Spec => []StopEndsAll
<1>1. IInv => StopEndsAll
  BY DEF IInv
<1> QED BY <1>1, Invariant, PTL

=============================================================================
