-------------------------------- MODULE Server --------------------------------
(***************************************************************************)
(* The connections of a Server (python/moqt/moq/server.py): the table of   *)
(* its MoQT sessions, the callbacks of the transport, the task that ticks  *)
(* all sessions in turn, and stop().                                       *)
(*                                                                         *)
(* A WebTransport session is known by its key, the address of the peer     *)
(* and the session ID; a peer that connects again may get the same key.    *)
(* A session and the runtime made for it have the same name here.          *)
(* Callbacks and tasks run to their next await and the transport does not  *)
(* wait for one callback before it makes the next.                         *)
(*                                                                         *)
(* External to the modelled code: the transport, and the session of        *)
(* moqt-rs, which keeps the event that closes a failed session until the   *)
(* next call that takes its events.                                        *)
(***************************************************************************)
EXTENDS Naturals

CONSTANTS Sessions,  \* WebTransport sessions
          Addresses, \* addresses of peers
          Key,       \* Key[w]: the address and the session ID of w
          Nobody     \* None

Keys == {Key[w] : w \in Sessions}

ASSUME ServerAssumption ==
  /\ Key \in [Sessions -> Addresses \X Nat]
  /\ Nobody \notin Sessions

VARIABLES
  transport,   \* transport[w]: "new", "open", "gone" (by the peer), "reported" (that it
               \* is gone) or "stopped"
  connections, \* Server._connections: the session registered for a key
  session,     \* session[w]: what _on_session_ready made of w: "no", "accepted", "refused"
  failed,      \* runtimes whose session has failed and keeps the event that says so
  closed,      \* runtimes that are closed
  handling,    \* handling[w]: the runtime whose event a callback of w is to handle
  crossed,     \* <<w, v>>: the application was given v for an event of w (observer)
  tick,        \* the tick task: where it is, the runtimes left of the round, the
               \* runtime being ticked and whether its end is among the events
  lost,        \* runtimes whose end was among events that were not applied (observer)
  stop,        \* stop(): where it is, and the runtimes left to close
  found        \* runtimes registered when stop() was called (observer)

sessions == <<transport, connections, session>>
endings == <<failed, closed, lost>>
callbacks == <<handling, crossed>>
vars == <<sessions, endings, callbacks, tick, stop, found>>

Registered == {connections[k] : k \in Keys} \ {Nobody}
Asleep == [at |-> "asleep", left |-> {}, now |-> Nobody, ends |-> FALSE]

Init ==
  /\ transport = [w \in Sessions |-> "new"]
  /\ connections = [k \in Keys |-> Nobody]
  /\ session = [w \in Sessions |-> "no"]
  /\ failed = {} /\ closed = {} /\ lost = {}
  /\ handling = [w \in Sessions |-> Nobody]
  /\ crossed = {}
  /\ tick = Asleep
  /\ stop = [at |-> "no", left |-> {}]
  /\ found = {}

\* Slip: the session ID is left out of the key.
SlipConnection(w) ==
  LET same == {v \in Registered : Key[v][1] = Key[w][1]} IN
  IF same = {} THEN Nobody ELSE CHOOSE v \in same : TRUE

\* _connection: the runtime registered for the key now.
Connection(w) == connections[Key[w]]

-----------------------------------------------------------------------------
(* Sessions of the transport.                                              *)

Serving == stop.at # "stopped"

\* _on_session_ready up to the await of Runtime.start, after which nothing is left to do,
\* even if it raises.  A key that is still taken is refused with an exception.
SessionReady(w) ==
  /\ Serving
  /\ transport[w] = "new"
  /\ \A v \in Sessions : Key[v] = Key[w] => transport[v] # "open"
  /\ transport' = [transport EXCEPT ![w] = "open"]
  /\ \/ /\ Connection(w) = Nobody
        /\ connections' = [connections EXCEPT ![Key[w]] = w]
        /\ session' = [session EXCEPT ![w] = "accepted"]
     \/ /\ Connection(w) # Nobody
        /\ session' = [session EXCEPT ![w] = "refused"]
        /\ UNCHANGED connections
  /\ UNCHANGED <<endings, callbacks, tick, stop, found>>

\* The peer closes the session, or the connection is lost.
Leave(w) ==
  /\ transport[w] = "open"
  /\ transport' = [transport EXCEPT ![w] = "gone"]
  /\ UNCHANGED <<connections, session, endings, callbacks, tick, stop, found>>

\* Slip: all sessions of the peer are forgotten.
SlipSessionClosed(w) ==
  /\ transport[w] = "gone"
  /\ connections' = [k \in Keys |-> IF k[1] = Key[w][1] THEN Nobody ELSE connections[k]]
  /\ transport' = [transport EXCEPT ![w] = "reported"]
  /\ UNCHANGED <<session, endings, callbacks, tick, stop, found>>

\* _on_session_closed: whatever has the key is forgotten.  The runtime is not told.
SessionClosed(w) ==
  /\ transport[w] = "gone"
  /\ transport' = [transport EXCEPT ![w] = "reported"]
  /\ connections' = [connections EXCEPT ![Key[w]] = Nobody]
  /\ UNCHANGED <<session, endings, callbacks, tick, stop, found>>

-----------------------------------------------------------------------------
(* What the peer sends.                                                    *)

\* _on_stream_data, _on_stream_reset and _on_datagram when the session fails on what it
\* is given: the exception is logged, and the session keeps the event of its end.
ReceiveFails(w) ==
  /\ Serving
  /\ transport[w] = "open"
  /\ Connection(w) # Nobody
  /\ Connection(w) \notin failed \cup closed \cup lost
  /\ ~ (tick.ends /\ tick.now = Connection(w))
  /\ failed' = failed \cup {Connection(w)}
  /\ UNCHANGED <<sessions, closed, lost, callbacks, tick, stop, found>>

\* The session takes it, and events of its runtime are to be handled after those
\* before them, which may await the transport.
Receive(w) ==
  /\ Serving
  /\ transport[w] = "open"
  /\ handling[w] = Nobody
  /\ Connection(w) # Nobody
  /\ Connection(w) \notin failed \cup closed
  /\ handling' = [handling EXCEPT ![w] = Connection(w)]
  /\ UNCHANGED <<sessions, endings, crossed, tick, stop, found>>

\* Slip: the application is called although nothing is registered any more.
SlipHandle(w) ==
  LET v == handling[w] IN
  /\ v # Nobody
  /\ handling' = [handling EXCEPT ![w] = Nobody]
  /\ crossed' = IF Connection(v) = v THEN crossed ELSE crossed \cup {<<v, Connection(v)>>}
  /\ UNCHANGED <<sessions, endings, tick, stop, found>>

\* _on_established, _on_request, _on_request_update, _on_fill_fetch_stream and
\* _on_goaway: the context says which runtime the application is given.
Handle(w) ==
  LET v == handling[w] IN
  /\ v # Nobody
  /\ handling' = [handling EXCEPT ![w] = Nobody]
  /\ crossed' = IF Connection(v) \in {v, Nobody} THEN crossed
                ELSE crossed \cup {<<v, Connection(v)>>}
  /\ UNCHANGED <<sessions, endings, tick, stop, found>>

-----------------------------------------------------------------------------
(* The tick task.                                                          *)

\* A round begins with all connections there are.
TickRound ==
  /\ tick.at = "asleep"
  /\ tick' = [tick EXCEPT !.at = "round", !.left = Registered]
  /\ UNCHANGED <<sessions, endings, callbacks, stop, found>>

\* The next runtime, unless it is closed: Runtime.tick takes the events of the session.
TickNext(v) ==
  /\ tick.at = "round"
  /\ v \in tick.left
  /\ \/ /\ v \in closed
        /\ tick' = [tick EXCEPT !.left = @ \ {v}]
        /\ UNCHANGED failed
     \/ /\ v \notin closed
        /\ tick' = [at |-> "ticking", left |-> tick.left \ {v}, now |-> v, ends |-> v \in failed]
        /\ failed' = failed \ {v}
  /\ UNCHANGED <<sessions, closed, lost, callbacks, stop, found>>

\* Slip: an exception ends the task.
SlipTicked ==
  /\ tick.at = "ticking"
  /\ \/ /\ tick' = [tick EXCEPT !.at = "round", !.now = Nobody, !.ends = FALSE]
        /\ closed' = closed \cup {v \in {tick.now} : tick.ends}
        /\ UNCHANGED lost
     \/ /\ tick' = [Asleep EXCEPT !.at = "ended"]
        /\ lost' = lost \cup {v \in {tick.now} \ closed : tick.ends}
        /\ UNCHANGED closed
  /\ UNCHANGED <<sessions, failed, callbacks, stop, found>>

\* Its events are applied, or one before the end of the session raises and the
\* rest is lost; the exception is suppressed.
Ticked ==
  /\ tick.at = "ticking"
  /\ tick' = [tick EXCEPT !.at = "round", !.now = Nobody, !.ends = FALSE]
  /\ \/ /\ closed' = closed \cup {v \in {tick.now} : tick.ends}
        /\ UNCHANGED lost
     \/ /\ lost' = lost \cup {v \in {tick.now} \ closed : tick.ends}
        /\ UNCHANGED closed
  /\ UNCHANGED <<sessions, failed, callbacks, stop, found>>

TickSleeps ==
  /\ tick.at = "round"
  /\ tick.left = {}
  /\ tick' = Asleep
  /\ UNCHANGED <<sessions, endings, callbacks, stop, found>>

-----------------------------------------------------------------------------
(* stop().                                                                 *)

\* Up to the await of the cancelled tick task.
Stop ==
  /\ stop.at = "no"
  /\ stop' = [stop EXCEPT !.at = "tick"]
  /\ found' = Registered
  /\ UNCHANGED <<sessions, endings, callbacks, tick>>

\* The tick task ends where it awaits; the runtimes to close are those there are now.
TickCancelled ==
  /\ stop.at = "tick"
  /\ tick.at \in {"asleep", "ticking", "ended"}
  /\ tick' = [Asleep EXCEPT !.at = "ended"]
  /\ lost' = lost \cup {v \in {tick.now} \ closed : tick.ends}
  /\ stop' = [at |-> "closing", left |-> Registered]
  /\ UNCHANGED <<sessions, failed, closed, callbacks, found>>

\* Slip: an exception of one close ends the loop.
SlipCloseNext(v) ==
  /\ stop.at = "closing"
  /\ v \in stop.left
  /\ closed' = closed \cup {v}
  /\ failed' = failed \ {v}
  /\ \E left \in {{}, stop.left \ {v}} : stop' = [stop EXCEPT !.left = left]
  /\ UNCHANGED <<sessions, lost, callbacks, tick, found>>

\* Runtime.close of the next runtime: one that is closed, as it has ended by itself, is
\* left alone; any other is closed first and the transport told after that.
CloseNext(v) ==
  /\ stop.at = "closing"
  /\ v \in stop.left
  /\ closed' = closed \cup {v}
  /\ failed' = failed \ {v}
  /\ stop' = [stop EXCEPT !.left = @ \ {v}]
  /\ UNCHANGED <<sessions, lost, callbacks, tick, found>>

\* The table is cleared, whatever is in it by now, and the transport is stopped.
ClearConnections ==
  /\ stop.at = "closing"
  /\ stop.left = {}
  /\ connections' = [k \in Keys |-> Nobody]
  /\ stop' = [stop EXCEPT !.at = "transport"]
  /\ UNCHANGED <<transport, session, endings, callbacks, tick, found>>

TransportStopped ==
  /\ stop.at = "transport"
  /\ stop' = [stop EXCEPT !.at = "stopped"]
  /\ transport' = [w \in Sessions |-> IF transport[w] = "open" THEN "stopped" ELSE transport[w]]
  /\ UNCHANGED <<connections, session, endings, callbacks, tick, found>>

-----------------------------------------------------------------------------
TickTask == TickRound \/ (\E v \in Sessions : TickNext(v)) \/ Ticked \/ TickSleeps

Next ==
  \/ \E w \in Sessions : \/ SessionReady(w) \/ Leave(w) \/ SessionClosed(w)
                         \/ ReceiveFails(w) \/ Receive(w) \/ Handle(w)
  \/ TickTask
  \/ Stop \/ TickCancelled \/ (\E v \in Sessions : CloseNext(v))
  \/ ClearConnections \/ TransportStopped

\* The event loop runs the tick task when its sleep or what it awaits is over, and the
\* round does not prefer one connection to another.
Spec ==
  /\ Init /\ [][Next]_vars
  /\ WF_vars(TickTask)

-----------------------------------------------------------------------------
(* Properties.                                                             *)

\* The types of all variables, and that a session which is registered, handled or
\* closed has been accepted.
Accepted == {w \in Sessions : session[w] = "accepted"}

TypeOK ==
  /\ transport \in [Sessions -> {"new", "open", "gone", "reported", "stopped"}]
  /\ connections \in [Keys -> Accepted \cup {Nobody}]
  /\ session \in [Sessions -> {"no", "refused", "accepted"}]
  /\ failed \cup lost \cup found \subseteq Accepted
  /\ closed \subseteq Accepted /\ failed \cap closed = {}
  /\ handling \in [Sessions -> Accepted \cup {Nobody}]
  /\ crossed \subseteq Accepted \X Accepted
  /\ tick \in [at: {"asleep", "round", "ticking", "ended"}, left: SUBSET Accepted,
               now: Accepted \cup {Nobody}, ends: BOOLEAN]
  /\ stop \in [at: {"no", "tick", "closing", "transport", "stopped"}, left: SUBSET Accepted]

Refused(k) == \E w \in Sessions : Key[w] = k /\ session[w] = "refused"

\* A session that the transport has open is the one registered for its key, so that what
\* its peer sends, and the ticks, reach its own runtime, however sessions come and go
\* around it.  Excepted: a key of which a session was refused, because it came before the
\* end of the one before it was reported; and from when stop() clears the table.
Served ==
  \A w \in Sessions :
    transport[w] = "open" /\ ~Refused(Key[w]) /\ stop.at # "transport" => Connection(w) = w

\* The application is given the runtime of the session on which an event came, unless
\* that session is gone and its key is in use again.
GivenOwn == \A pair \in crossed : transport[pair[1]] # "open"

\* A session that has failed is closed within a round of the tick task, which the
\* failures and the exceptions of other sessions do not stop.  Excepted: the session is
\* forgotten before, the events were lost by an exception of its own, stop() is called.
FailedIsClosed ==
  \A v \in Sessions :
    v \in failed ~> \/ v \in closed \cup lost \/ Connection(v) # v \/ stop.at # "no"

\* When stop() is over the tick task has ended, and of the sessions registered when it
\* was called each that the transport still had has been closed.  Excepted: a key of
\* which a session was refused, whose end takes the entry of another away.
StopEndsAll ==
  stop.at = "stopped" =>
    /\ tick.at = "ended"
    /\ \A v \in found : transport[v] = "stopped" => v \in closed \/ Refused(Key[v])
=============================================================================
