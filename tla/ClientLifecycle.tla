-------------------------- MODULE ClientLifecycle --------------------------
(***************************************************************************)
(* The life of a Client (python/moqt/moq/client.py): connect(), close(),   *)
(* the task that runs the transport, the task that ticks, and the          *)
(* callbacks that end the wait for the MoQT SETUP.                         *)
(*                                                                         *)
(* One connect() makes a runtime, a run task and a tick task; all three    *)
(* have its name here.  The attributes of the client name the latest ones. *)
(* Calls, tasks and callbacks run to their next await, and connect() ends  *)
(* with close() when it fails, so several calls may be closing at a time.  *)
(* A task that is None is not awaited: such a stage begins or ends where   *)
(* the stage next to it does.                                              *)
(*                                                                         *)
(* External to the modelled code: the transport, whose run() returns once  *)
(* it is closed, and the peer.                                             *)
(***************************************************************************)
EXTENDS Naturals

CONSTANTS Connects,       \* calls of connect()
          Closes,         \* calls of close() by tasks of the application
          CallbackCloses, \* calls of close() in a callback, that is, in the run task
          Nobody          \* None

ASSUME LifecycleAssumption ==
  /\ Connects \cap (Closes \cup CallbackCloses) = {}
  /\ Closes \cap CallbackCloses = {}
  /\ Nobody \notin Connects

Calls == Connects \cup Closes \cup CallbackCloses
MaybeConnects == Connects \cup {Nobody}

VARIABLES
  call,         \* call[x]: where the call x is, or how it ended
  reason,       \* reason[x]: why x closes: "close", "timeout" or "error"
  awaits,       \* awaits[x]: the task that x waits for while it closes
  host,         \* host[x]: the run task in which the callback that made x runs
  runtime,      \* Client._runtime
  run_task,     \* Client._run_task
  tick_task,    \* Client._tick_task
  event,        \* Client._established_event is set
  connect_error,\* Client._connect_error is not None
  running,      \* run tasks that have not ended
  failed,       \* run tasks that have ended with an exception
  ticking,      \* tick tasks that have not ended
  cancelled,    \* tick tasks that have been cancelled
  made,         \* runtimes made so far
  closed,       \* runtimes that are closed
  established,  \* runtimes whose SETUP exchange was completed
  up,           \* the transport is connected
  found,        \* found[x]: the runtimes made before x began to close (observer)
  fresh,        \* connects that began with the event and the error clear (observer)
  overlapped    \* a connect began while another call was under way, or a close
                \* while the transport was being connected (observer)

attributes == <<runtime, run_task, tick_task>>
signals == <<event, connect_error>>
tasks == <<running, failed, ticking, cancelled>>
runtimes == <<made, closed, established>>
observers == <<fresh, overlapped>>
reasons == <<reason, awaits, found>>
places == <<call, reason, awaits, host, found>>
vars == <<places, attributes, signals, tasks, runtimes, up, observers>>

Opening == {"connecting", "starting", "waiting"}
Closing == {"tick", "runtime", "transport", "run"}
UnderWay == Opening \cup Closing

\* How a call ends.  "connected": connect() returns.  "closed": close() returns.
\* "timeout", "failed": connect() has closed the client and raises.  "run_failed":
\* the close raises what ended the run task.  "refused": the client is running
\* already.  "raised": by the transport, or cancelled.  "self": the close awaits
\* the task it runs in.
Cleaned == {"closed", "timeout", "failed", "run_failed"}
Ended == Cleaned \cup {"connected", "refused", "raised", "self"}

Init ==
  /\ call = [x \in Calls |-> "idle"]
  /\ reason = [x \in Calls |-> "close"]
  /\ awaits = [x \in Calls |-> Nobody]
  /\ host = [x \in Calls |-> Nobody]
  /\ runtime = Nobody /\ run_task = Nobody /\ tick_task = Nobody
  /\ event = FALSE /\ connect_error = FALSE
  /\ running = {} /\ failed = {} /\ ticking = {} /\ cancelled = {}
  /\ made = {} /\ closed = {} /\ established = {}
  /\ up = FALSE
  /\ found = [x \in Calls |-> {}]
  /\ fresh = {} /\ overlapped = FALSE

-----------------------------------------------------------------------------
(* Closing.                                                                *)

\* Slip: the tick task is not cancelled before it is awaited.
SlipBeginClose(x, why) ==
  /\ call' = [call EXCEPT ![x] = "tick"]
  /\ reason' = [reason EXCEPT ![x] = why]
  /\ awaits' = [awaits EXCEPT ![x] = tick_task]
  /\ found' = [found EXCEPT ![x] = made]
  /\ UNCHANGED cancelled

\* close() up to the await of the tick task.
BeginClose(x, why) ==
  /\ call' = [call EXCEPT ![x] = "tick"]
  /\ reason' = [reason EXCEPT ![x] = why]
  /\ awaits' = [awaits EXCEPT ![x] = tick_task]
  /\ found' = [found EXCEPT ![x] = made]
  /\ cancelled' = cancelled \cup ({tick_task} \ {Nobody})

\* Slip: a client without a runtime is not looked for.
SlipNoRuntime(x) ==
  /\ call[x] = "tick"
  /\ awaits[x] \notin ticking
  /\ call' = [call EXCEPT ![x] = "runtime"]
  /\ tick_task' = IF awaits[x] # Nobody THEN Nobody ELSE tick_task
  /\ closed' = closed \cup {runtime}
  /\ UNCHANGED <<reasons, host, runtime, run_task, signals, tasks, made,
                 established, up, observers>>

\* The tick task has ended.  A runtime is closed next; Runtime.close marks it closed
\* before it awaits anything.
TickAwaited(x) ==
  /\ call[x] = "tick"
  /\ awaits[x] \notin ticking
  /\ call' = [call EXCEPT ![x] = IF runtime = Nobody THEN "transport" ELSE "runtime"]
  /\ tick_task' = IF awaits[x] # Nobody THEN Nobody ELSE tick_task
  /\ closed' = closed \cup ({runtime} \ {Nobody})
  /\ UNCHANGED <<reasons, host, runtime, run_task, signals, tasks, made,
                 established, up, observers>>

\* Runtime.close is over, with an exception or without.
RuntimeClosed(x) ==
  /\ call[x] = "runtime"
  /\ call' = [call EXCEPT ![x] = "transport"]
  /\ runtime' = Nobody
  /\ UNCHANGED <<reasons, host, run_task, tick_task, signals, tasks, runtimes,
                 up, observers>>

\* The transport is closed; the run task is awaited.
TransportClosed(x) ==
  /\ call[x] = "transport"
  /\ call' = [call EXCEPT ![x] = "run"]
  /\ awaits' = [awaits EXCEPT ![x] = run_task]
  /\ up' = FALSE
  /\ UNCHANGED <<reason, found, host, attributes, signals, tasks, runtimes, observers>>

\* How a call that has closed the client ends.
Result(x) ==
  CASE awaits[x] \in failed -> "run_failed"
    [] awaits[x] \notin failed /\ reason[x] = "close" -> "closed"
    [] awaits[x] \notin failed /\ reason[x] = "timeout" -> "timeout"
    [] awaits[x] \notin failed /\ reason[x] = "error" -> "failed"

\* What a call that has ended kept for itself is no more.
Forget(x) ==
  /\ reason' = [reason EXCEPT ![x] = "close"]
  /\ awaits' = [awaits EXCEPT ![x] = Nobody]

\* The run task has ended, or it is the task that awaits it, which asyncio refuses.
RunAwaited(x) ==
  /\ call[x] = "run"
  /\ awaits[x] \in running => awaits[x] = host[x]
  /\ call' = [call EXCEPT ![x] = IF awaits[x] \in running THEN "self" ELSE Result(x)]
  /\ run_task' = IF awaits[x] # Nobody THEN Nobody ELSE run_task
  /\ Forget(x)
  /\ UNCHANGED <<found, host, runtime, tick_task, signals, tasks, runtimes, up,
                 observers>>

\* The application calls close(); in a callback it does so in the run task.
Close(x) ==
  /\ call[x] = "idle"
  /\ x \in CallbackCloses => run_task \in running
  /\ BeginClose(x, "close")
  /\ host' = [host EXCEPT ![x] = IF x \in CallbackCloses THEN run_task ELSE Nobody]
  /\ overlapped' = (overlapped \/ \E c \in Connects : call[c] = "connecting")
  /\ UNCHANGED <<attributes, signals, running, failed, ticking, runtimes, up, fresh>>

-----------------------------------------------------------------------------
(* Connecting.                                                             *)

\* connect() up to the await of the transport.
Connect(c) ==
  /\ call[c] = "idle"
  /\ call' = [call EXCEPT ![c] = IF run_task # Nobody THEN "refused" ELSE "connecting"]
  /\ fresh' = IF event \/ connect_error THEN fresh ELSE fresh \cup {c}
  /\ overlapped' = (overlapped \/ \E x \in Calls : call[x] \in UnderWay)
  /\ UNCHANGED <<reasons, host, attributes, signals, tasks, runtimes, up>>

\* Slip: the run task is not kept.
SlipTransportConnected(c) ==
  /\ call[c] = "connecting"
  /\ call' = [call EXCEPT ![c] = "starting"]
  /\ runtime' = c /\ tick_task' = c
  /\ made' = made \cup {c}
  /\ running' = running \cup {c}
  /\ ticking' = ticking \cup {c}
  /\ up' = TRUE
  /\ UNCHANGED <<reasons, host, run_task, signals, failed, cancelled, closed,
                 established, observers>>

\* The transport is connected: the runtime and both tasks are made, and the
\* runtime begins to open its control stream.
TransportConnected(c) ==
  /\ call[c] = "connecting"
  /\ call' = [call EXCEPT ![c] = "starting"]
  /\ runtime' = c /\ run_task' = c /\ tick_task' = c
  /\ made' = made \cup {c}
  /\ running' = running \cup {c}
  /\ ticking' = ticking \cup {c}
  /\ up' = TRUE
  /\ UNCHANGED <<reasons, host, signals, failed, cancelled, closed,
                 established, observers>>

\* Runtime.start has opened the control stream and written SETUP.
Started(c) ==
  /\ call[c] = "starting"
  /\ call' = [call EXCEPT ![c] = "waiting"]
  /\ UNCHANGED <<reasons, host, attributes, signals, tasks, runtimes, up, observers>>

\* Slip: the error is not looked at.
SlipWake(c) ==
  /\ call[c] = "waiting"
  /\ event
  /\ call' = [call EXCEPT ![c] = "connected"]
  /\ UNCHANGED <<reasons, host, attributes, signals, tasks, runtimes, up, observers>>

\* The event is set: the SETUP exchange is over, or the connection has failed.
Wake(c) ==
  /\ call[c] = "waiting"
  /\ event
  /\ \/ /\ connect_error
        /\ BeginClose(c, "error")
     \/ /\ ~connect_error
        /\ call' = [call EXCEPT ![c] = "connected"]
        /\ UNCHANGED <<reasons, cancelled>>
  /\ UNCHANGED <<host, attributes, signals, running, failed, ticking, runtimes, up,
                 observers>>

\* Slip: the client is not closed.
SlipTimeout(c) ==
  /\ call[c] = "waiting"
  /\ call' = [call EXCEPT ![c] = "timeout"]
  /\ UNCHANGED <<reasons, host, attributes, signals, tasks, runtimes, up, observers>>

\* The wait times out, even with the event just set, or start() raises a
\* TimeoutError of the transport.
Timeout(c) ==
  /\ call[c] \in {"starting", "waiting"}
  /\ BeginClose(c, "timeout")
  /\ UNCHANGED <<host, attributes, signals, running, failed, ticking, runtimes, up,
                 observers>>

\* An await of the transport raises, or the task of the call is cancelled.  The
\* client is left as it is.
Raises(x) ==
  /\ call[x] \in Opening \cup {"runtime", "transport"}
  /\ call' = [call EXCEPT ![x] = "raised"]
  /\ Forget(x)
  /\ UNCHANGED <<found, host, attributes, signals, tasks, runtimes, up, observers>>

-----------------------------------------------------------------------------
(* The tasks and the callbacks of the transport.                           *)

\* _tick_loop: cancelled, or the runtime is gone.
TickEnds(c) ==
  /\ c \in ticking
  /\ c \in cancelled \/ runtime \in closed \cup {Nobody}
  /\ ticking' = ticking \ {c}
  /\ UNCHANGED <<places, attributes, signals, running, failed, cancelled, runtimes, up,
                 observers>>

\* A callback runs in the task, which goes on when it is over.
Occupied(c) == \E x \in CallbackCloses : call[x] \in UnderWay /\ host[x] = c

\* The transport is closed and run() returns.
RunStops(c) ==
  /\ c \in running
  /\ ~up
  /\ ~Occupied(c)
  /\ running' = running \ {c}
  /\ UNCHANGED <<places, attributes, signals, failed, ticking, cancelled, runtimes, up,
                 observers>>

\* _fail_connect.
FailConnect ==
  /\ connect_error' = TRUE
  /\ event' = TRUE

\* run() returns early, or raises and _on_run_done reports the error.
RunBreaks(c) ==
  /\ c \in running
  /\ ~Occupied(c)
  /\ running' = running \ {c}
  /\ \/ /\ UNCHANGED <<signals, failed>>
     \/ /\ failed' = failed \cup {c}
        /\ FailConnect
  /\ UNCHANGED <<places, attributes, ticking, cancelled, runtimes, up, observers>>

Receiving == running # {} /\ up

\* _on_established: the SETUP of the peer has come.
Established ==
  /\ Receiving
  /\ runtime \in made \ closed
  /\ established' = established \cup {runtime}
  /\ event' = TRUE
  /\ UNCHANGED <<places, attributes, connect_error, tasks, made, closed, up, observers>>

\* _on_close: the session ends by itself.
SessionEnds ==
  /\ Receiving
  /\ runtime \in made \ closed
  /\ closed' = closed \cup {runtime}
  /\ FailConnect
  /\ UNCHANGED <<places, attributes, tasks, made, established, up, observers>>

\* _on_stream_data and _on_datagram: the runtime raises.
ReceiveFails ==
  /\ Receiving
  /\ runtime # Nobody
  /\ FailConnect
  /\ UNCHANGED <<places, attributes, tasks, runtimes, up, observers>>

\* _on_session_closed: an error only as long as the client is not established,
\* which it is no more when close() has taken the runtime away.
TransportSessionClosed ==
  /\ running # {}
  /\ runtime \notin established
  /\ FailConnect
  /\ UNCHANGED <<places, attributes, tasks, runtimes, up, observers>>

-----------------------------------------------------------------------------
Next ==
  \/ \E c \in Connects : Connect(c) \/ TransportConnected(c) \/ Started(c)
                         \/ Wake(c) \/ Timeout(c)
  \/ \E x \in Closes \cup CallbackCloses : Close(x)
  \/ \E x \in Connects \cup Closes : Raises(x)
  \/ \E x \in Calls : TickAwaited(x) \/ RuntimeClosed(x) \/ TransportClosed(x)
                      \/ RunAwaited(x)
  \/ \E c \in Connects : TickEnds(c) \/ RunStops(c) \/ RunBreaks(c)
  \/ Established \/ SessionEnds \/ ReceiveFails \/ TransportSessionClosed

\* The event loop runs what is ready, the wait has a timeout, and the transport
\* closes when it is told to.
Spec ==
  /\ Init /\ [][Next]_vars
  /\ \A c \in Connects : WF_vars(Timeout(c)) /\ WF_vars(TickEnds(c)) /\ WF_vars(RunStops(c))
  /\ \A x \in Calls : /\ WF_vars(TickAwaited(x)) /\ WF_vars(RuntimeClosed(x))
                      /\ WF_vars(TransportClosed(x)) /\ WF_vars(RunAwaited(x))

-----------------------------------------------------------------------------
(* Properties.                                                             *)

\* The types of all variables; only runtimes that were made, and tasks that were
\* started, are named anywhere, and a fault of the run task is of one that ended.
TypeOK ==
  /\ call \in [Calls -> {"idle"} \cup UnderWay \cup Ended]
  /\ reason \in [Calls -> {"close", "timeout", "error"}]
  /\ awaits \in [Calls -> MaybeConnects] /\ host \in [Calls -> MaybeConnects]
  /\ runtime \in made \cup {Nobody}
  /\ run_task \in made \cup {Nobody} /\ tick_task \in made \cup {Nobody}
  /\ event \in BOOLEAN /\ connect_error \in BOOLEAN
  /\ running \subseteq made /\ failed \subseteq made \ running
  /\ ticking \subseteq made /\ cancelled \subseteq made
  /\ made \subseteq Connects /\ closed \subseteq made /\ established \subseteq made
  /\ up \in BOOLEAN
  /\ found \in [Calls -> SUBSET made]
  /\ fresh \subseteq Connects /\ overlapped \in BOOLEAN

\* connect() returns only when its own runtime has completed the SETUP exchange,
\* whatever else wakes it.  Excepted: a client that was connected before, whose
\* event is never cleared, and connects that overlap with another call.
ConnectedMeansEstablished ==
  \A c \in fresh : call[c] = "connected" => c \in established \/ overlapped

\* A close() in a callback cannot await the run task it runs in, which ends after it.
LeftByCallback(c) == \E q \in CallbackCloses : call[q] = "self" /\ host[q] = c

\* What runs can be reached from the attributes of the client, so that a close()
\* ends it, however earlier calls ended: no task and no open runtime is lost.
\* Excepted: calls that overlap, see overlapped, and LeftByCallback.
NothingLost ==
  ~overlapped =>
    /\ ticking \subseteq {tick_task}
    /\ made \ closed \subseteq {runtime}
    /\ \A c \in running : c = run_task \/ LeftByCallback(c)

\* Nothing is left of the connect() c: its tasks have ended, its runtime is closed
\* and the client does not name them.
Gone(c) ==
  /\ c \notin {runtime, run_task, tick_task} \cup ticking
  /\ c \in closed
  /\ c \in running => LeftByCallback(c)

\* A connect() that fails by the timeout or by an error of the connection, and a
\* close(), leave nothing of what there was when they began to close, nor what the
\* connect() itself made, even if several of them do so at a time.
EndsClean ==
  ~overlapped =>
    \A x \in Calls : call[x] \in Cleaned =>
      \A c \in found[x] \cup ({x} \cap made) : Gone(c)

\* A connect() that waits for the SETUP, and a call that closes, ends, although
\* several calls close at a time, each awaiting tasks of the others.
CallsEnd ==
  \A x \in Calls :
    call[x] \in {"waiting"} \cup Closing ~> call[x] \in Ended \/ overlapped
=============================================================================
