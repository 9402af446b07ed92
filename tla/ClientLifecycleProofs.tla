------------------------ MODULE ClientLifecycleProofs ------------------------
(***************************************************************************)
(* Proofs about ClientLifecycle, for any number of calls of connect() and  *)
(* close().                                                                *)
(***************************************************************************)
EXTENDS ClientLifecycle, TLAPS

USE LifecycleAssumption DEF LifecycleAssumption

-----------------------------------------------------------------------------
(* The inductive invariant.                                                *)

\* Only a call in a callback runs in a run task.
HostInv == \A x \in Calls \ CallbackCloses : host[x] = Nobody

\* A connect() makes its runtime and its tasks when the transport is connected.
NewInv == \A c \in Connects : /\ call[c] \in {"idle", "connecting"} => c \notin made
                              /\ call[c] = "idle" => c \notin fresh

\* While a connect() awaits the transport no other call is under way, and the client
\* has no run task.
OneConnects ==
  \A c \in Connects :
    call[c] = "connecting" =>
      run_task = Nobody /\ \A x \in Calls \ {c} : call[x] \notin UnderWay

\* No runtime is made while a call closes.
FoundInv == \A x \in Calls : call[x] \in Closing => found[x] = made

\* What is over at each stage of a call that closes, whatever the others that close
\* at the same time do to the attributes.
StageInv ==
  \A x \in Calls :
    /\ call[x] = "tick" => ticking \subseteq {awaits[x]} /\ tick_task \in {awaits[x], Nobody}
    /\ call[x] \in {"runtime", "transport", "run"} =>
         ticking = {} /\ made \subseteq closed /\ tick_task = Nobody
    /\ call[x] \in {"transport", "run"} => runtime = Nobody
    /\ call[x] = "run" => run_task \in {awaits[x], Nobody}

\* The run task is the last thing the client lets go of.
EmptyInv == run_task = Nobody => ticking = {} /\ made \subseteq closed

\* A connect() that waits has its own runtime, or one that is being closed has none.
OwnInv == \A c \in Connects : call[c] \in {"starting", "waiting"} => runtime \in {c, Nobody}

\* The event of a fresh connect() is set by its own SETUP exchange or with an error.
EventInv ==
  \A c \in fresh : call[c] \in Opening /\ event /\ ~connect_error => c \in established

\* What holds as long as no calls overlap.
Orderly == /\ OneConnects /\ FoundInv /\ StageInv /\ EmptyInv /\ OwnInv /\ EventInv
           /\ NothingLost /\ EndsClean

IInv == /\ TypeOK /\ HostInv /\ NewInv /\ ConnectedMeansEstablished
        /\ overlapped \/ Orderly

\* The parts that hold in any case, and those that are of no interest after an overlap.
LEMMA Parts ==
  IInv => /\ TypeOK /\ HostInv /\ NewInv /\ ConnectedMeansEstablished
          /\ NothingLost /\ EndsClean
          /\ ~overlapped => Orderly
BY DEF IInv, Orderly, NothingLost, EndsClean

\* The invariant holds at first.
LEMMA InitInv == Init => IInv
<1> SUFFICES ASSUME Init PROVE IInv
  OBVIOUS
<1>1. TypeOK
  BY DEF Init, TypeOK, MaybeConnects
<1>2. HostInv /\ NewInv /\ ConnectedMeansEstablished
  BY DEF Init, HostInv, NewInv, ConnectedMeansEstablished
<1>3. OneConnects /\ FoundInv /\ StageInv /\ EmptyInv /\ OwnInv /\ EventInv
  BY DEF Init, OneConnects, FoundInv, StageInv, EmptyInv, OwnInv, EventInv, Calls, Closing
<1>4. NothingLost /\ EndsClean
  BY DEF Init, NothingLost, EndsClean, Cleaned
<1> QED BY <1>1, <1>2, <1>3, <1>4 DEF IInv, Orderly

-----------------------------------------------------------------------------
(* Types.                                                                  *)

LEMMA CallTypes ==
  /\ Connects \subseteq Calls /\ Closes \subseteq Calls /\ CallbackCloses \subseteq Calls
  /\ Connects \subseteq MaybeConnects /\ Nobody \in MaybeConnects
  /\ Opening \subseteq UnderWay /\ Closing \subseteq UnderWay
BY DEF Calls, MaybeConnects, UnderWay

\* Beginning to close keeps the types of what it touches.
LEMMA BeginCloseTypes ==
  ASSUME TypeOK, NEW x \in Calls, NEW why \in {"close", "timeout", "error"},
         BeginClose(x, why)
  PROVE  /\ call' \in [Calls -> {"idle"} \cup UnderWay \cup Ended]
         /\ reason' \in [Calls -> {"close", "timeout", "error"}]
         /\ awaits' \in [Calls -> MaybeConnects]
         /\ found' \in [Calls -> SUBSET made]
         /\ cancelled' \subseteq made
<1>1. tick_task \in MaybeConnects /\ "tick" \in UnderWay
  BY DEF TypeOK, MaybeConnects, UnderWay, Closing
<1> QED BY <1>1 DEF BeginClose, TypeOK

\* The types of the variables, for a step of a call.
LEMMA CallTypeOK ==
  ASSUME TypeOK, NewInv, NEW x \in Calls,
         \/ x \in Connects /\ (Connect(x) \/ TransportConnected(x) \/ Started(x)
                               \/ Wake(x) \/ Timeout(x))
         \/ Close(x) \/ Raises(x) \/ TickAwaited(x) \/ RuntimeClosed(x)
         \/ TransportClosed(x) \/ RunAwaited(x)
  PROVE  TypeOK'
<1> USE CallTypes
<1>1. CASE x \in Connects /\ Connect(x)
  BY <1>1 DEF Connect, TypeOK, attributes, signals, tasks, runtimes, reasons, Opening, UnderWay, Ended
<1>2. CASE x \in Connects /\ TransportConnected(x)
  <2>1. x \notin made
    BY <1>2 DEF TransportConnected, NewInv
  <2>2. /\ made' = made \cup {x} /\ running' = running \cup {x} /\ ticking' = ticking \cup {x}
        /\ runtime' = x /\ run_task' = x /\ tick_task' = x
        /\ UNCHANGED <<reason, awaits, found, host, event, connect_error, failed, cancelled,
                       closed, established, fresh, overlapped>>
        /\ call' \in [Calls -> {"idle"} \cup UnderWay \cup Ended] /\ up' = TRUE
    BY <1>2 DEF TransportConnected, TypeOK, reasons, signals, observers, UnderWay, Opening
  <2>3. found \in [Calls -> SUBSET made']
    BY <2>2 DEF TypeOK
  <2> QED BY <1>2, <2>1, <2>2, <2>3 DEF TypeOK
<1>3. CASE x \in Connects /\ Started(x)
  BY <1>3 DEF Started, TypeOK, attributes, signals, tasks, runtimes, reasons, observers, Opening, UnderWay
<1>4. CASE x \in Connects /\ (Wake(x) \/ Timeout(x))
  <2>1. UNCHANGED <<host, attributes, signals, running, failed, ticking, runtimes, up,
                    observers>>
    BY <1>4 DEF Wake, Timeout
  <2>2. CASE \E why \in {"close", "timeout", "error"} : BeginClose(x, why)
    BY <2>1, <2>2, BeginCloseTypes DEF TypeOK, attributes, signals, runtimes, observers
  <2>3. CASE /\ call' = [call EXCEPT ![x] = "connected"] /\ UNCHANGED <<reasons, cancelled>>
    BY <2>1, <2>3 DEF TypeOK, attributes, signals, runtimes, reasons, observers, Ended
  <2> QED BY <1>4, <2>2, <2>3 DEF Wake, Timeout
<1>5. CASE Close(x)
  <2>1. UNCHANGED <<attributes, signals, running, failed, ticking, runtimes, up, fresh>>
    BY <1>5 DEF Close
  <2>2. host' \in [Calls -> MaybeConnects] /\ overlapped' \in BOOLEAN
    BY <1>5 DEF Close, TypeOK, MaybeConnects
  <2>3. BeginClose(x, "close")
    BY <1>5 DEF Close
  <2> QED BY <2>1, <2>2, <2>3, BeginCloseTypes DEF TypeOK, attributes, signals, runtimes
<1>6. CASE Raises(x)
  BY <1>6 DEF Raises, Forget, TypeOK, attributes, signals, tasks, runtimes, observers, Ended
<1>7. CASE TickAwaited(x) \/ RuntimeClosed(x)
  <2>1. call' \in [Calls -> {"idle"} \cup UnderWay \cup Ended]
    BY <1>7 DEF TickAwaited, RuntimeClosed, TypeOK, UnderWay, Closing
  <2> QED BY <1>7, <2>1 DEF TickAwaited, RuntimeClosed, TypeOK, signals, tasks, runtimes, reasons, observers
<1>8. CASE TransportClosed(x)
  <2>1. run_task \in MaybeConnects
    BY DEF TypeOK, MaybeConnects
  <2> QED BY <1>8, <2>1 DEF TransportClosed, TypeOK, attributes, signals, tasks, runtimes, observers, UnderWay, Closing
<1>9. CASE RunAwaited(x)
  <2>1. Result(x) \in Ended
    BY DEF Result, TypeOK, Ended, Cleaned
  <2>2. call' \in [Calls -> {"idle"} \cup UnderWay \cup Ended]
    BY <1>9, <2>1 DEF RunAwaited, TypeOK, Ended
  <2> QED BY <1>9, <2>2 DEF RunAwaited, Forget, TypeOK, signals, tasks, runtimes, observers
<1> QED BY <1>1, <1>2, <1>3, <1>4, <1>5, <1>6, <1>7, <1>8, <1>9

\* The types of the variables, for a step of a task or of the transport.
TaskStep ==
  \/ \E c \in Connects : TickEnds(c) \/ RunStops(c) \/ RunBreaks(c)
  \/ Established \/ SessionEnds \/ ReceiveFails \/ TransportSessionClosed

LEMMA TaskTypeOK ==
  ASSUME TypeOK, TaskStep
  PROVE  TypeOK'
<1>1. ASSUME NEW c \in Connects, TickEnds(c) \/ RunStops(c) \/ RunBreaks(c) PROVE TypeOK'
  BY <1>1 DEF TickEnds, RunStops, RunBreaks, FailConnect, TypeOK, places, attributes, signals,
              runtimes, observers
<1>2. CASE Established \/ SessionEnds \/ ReceiveFails \/ TransportSessionClosed
  BY <1>2 DEF Established, SessionEnds, ReceiveFails, TransportSessionClosed, FailConnect, TypeOK,
              places, attributes, tasks, runtimes, observers
<1> QED BY <1>1, <1>2 DEF TaskStep

-----------------------------------------------------------------------------
(* The steps of the tasks and of the transport.  They touch no call and no *)
(* attribute; runtimes are only closed and tasks only end.                 *)

LEMMA TaskShrinks ==
  ASSUME TypeOK, TaskStep
  PROVE  /\ UNCHANGED <<places, attributes, made, observers>>
         /\ closed \subseteq closed' /\ closed' \subseteq made
         /\ established \subseteq established'
         /\ running' \subseteq running /\ ticking' \subseteq ticking
BY DEF TaskStep, TickEnds, RunStops, RunBreaks, Established, SessionEnds, ReceiveFails,
       TransportSessionClosed, TypeOK, runtimes, tasks

LEMMA TaskInv ==
  ASSUME IInv, TaskStep
  PROVE  IInv'
<1>1. TypeOK'
  BY TaskTypeOK DEF IInv
<1>2. /\ UNCHANGED <<call, reason, awaits, host, found, runtime, run_task, tick_task, made,
                     fresh, overlapped>>
      /\ closed \subseteq closed' /\ closed' \subseteq made
      /\ established \subseteq established'
      /\ running' \subseteq running /\ ticking' \subseteq ticking
  BY TaskShrinks DEF IInv, places, attributes, observers
<1>3. HostInv' /\ NewInv' /\ ConnectedMeansEstablished'
  BY <1>2 DEF IInv, HostInv, NewInv, ConnectedMeansEstablished
<1>4. ASSUME ~overlapped PROVE Orderly'
  <2>1. OneConnects' /\ FoundInv' /\ StageInv' /\ EmptyInv' /\ OwnInv'
    BY <1>2, <1>4 DEF IInv, Orderly, OneConnects, FoundInv, StageInv, EmptyInv, OwnInv
  <2>2. NothingLost'
    BY <1>2, <1>4 DEF IInv, Orderly, NothingLost, LeftByCallback
  <2>3. EndsClean'
    BY <1>2, <1>4 DEF IInv, Orderly, EndsClean, Gone, LeftByCallback
  <2>4. EventInv'
    <3> SUFFICES ASSUME NEW c \in fresh, call[c] \in Opening, event', ~connect_error'
                 PROVE  c \in established'
      BY <1>2 DEF EventInv
    <3>1. CASE event /\ ~connect_error
      BY <1>2, <1>4, <3>1 DEF IInv, Orderly, EventInv
    <3>2. CASE ~(event /\ ~connect_error)
      <4>0. \/ Established \/ connect_error' = TRUE
            \/ event' = event /\ connect_error' = connect_error
        BY DEF TaskStep, TickEnds, RunStops, RunBreaks, SessionEnds, ReceiveFails,
               TransportSessionClosed, FailConnect, signals
      <4>1. Established
        BY <3>2, <4>0
      <4>2. runtime \in made \ closed /\ established' = established \cup {runtime}
        BY <4>1 DEF Established
      <4>3. c \in Connects /\ c \in Calls /\ runtime # Nobody
        BY <4>2, CallTypes DEF IInv, TypeOK
      <4>4. call[c] # "connecting"
        BY <1>4, <4>2, <4>3 DEF IInv, Orderly, OneConnects, EmptyInv
      <4>5. runtime = c
        BY <1>4, <4>3, <4>4 DEF IInv, Orderly, OwnInv, Opening
      <4> QED BY <4>2, <4>5
    <3> QED BY <3>1, <3>2
  <2> QED BY <2>1, <2>2, <2>3, <2>4 DEF Orderly
<1> QED BY <1>1, <1>2, <1>3, <1>4 DEF IInv

-----------------------------------------------------------------------------
(* The steps of a connect().                                               *)

LEMMA ConnectInv ==
  ASSUME IInv, NEW x \in Connects, Connect(x)
  PROVE  IInv'
<1>1. /\ call[x] = "idle" /\ x \in Calls
      /\ call' = [call EXCEPT ![x] = IF run_task # Nobody THEN "refused" ELSE "connecting"]
      /\ fresh' \subseteq fresh \cup {x} /\ (event => fresh' = fresh)
      /\ overlapped => overlapped'
      /\ ~overlapped' => ~overlapped /\ \A y \in Calls : call[y] \notin UnderWay
      /\ UNCHANGED <<reason, awaits, found, host, runtime, run_task, tick_task, event,
                     connect_error, running, failed, ticking, cancelled, made, closed,
                     established, up>>
  BY CallTypes DEF Connect, reasons, attributes, signals, tasks, runtimes
<1>2. /\ \A y \in Calls \ {x} : call'[y] = call[y]
      /\ call'[x] = IF run_task # Nobody THEN "refused" ELSE "connecting"
  BY <1>1 DEF IInv, TypeOK
<1>3. TypeOK'
  BY <1>1, CallTypeOK DEF IInv
<1>4. HostInv' /\ NewInv' /\ ConnectedMeansEstablished'
  <2>1. fresh \subseteq Calls /\ Connects \subseteq Calls
    BY CallTypes DEF IInv, TypeOK
  <2>2. HostInv' /\ NewInv'
    BY <1>1, <1>2, <2>1 DEF IInv, HostInv, NewInv
  <2>3. ConnectedMeansEstablished'
    BY <1>1, <1>2, <2>1 DEF IInv, ConnectedMeansEstablished
  <2> QED BY <2>2, <2>3
<1>5. ASSUME ~overlapped' PROVE Orderly'
  <2>1. ~overlapped /\ Orderly /\ \A y \in Calls : call[y] \notin UnderWay
    BY <1>1, <1>5 DEF IInv
  <2>2. OneConnects' /\ FoundInv' /\ StageInv' /\ EmptyInv' /\ OwnInv'
    BY <1>1, <1>2, <2>1, CallTypes
       DEF Orderly, OneConnects, FoundInv, StageInv, EmptyInv, OwnInv, UnderWay, Opening, Closing
  <2>3. EventInv'
    <3> SUFFICES ASSUME NEW c \in fresh', call'[c] \in Opening, event, ~connect_error
                 PROVE  c \in established
      BY <1>1 DEF EventInv
    <3>1. c \in fresh
      BY <1>1
    <3>2. c \in Calls /\ c # x
      BY <1>1, <3>1, CallTypes DEF IInv, TypeOK, NewInv
    <3> QED BY <1>2, <2>1, <3>2, CallTypes
  <2>4. NothingLost'
    <3>1. \A c \in running : LeftByCallback(c) => LeftByCallback(c)'
      BY <1>1, <1>2, CallTypes DEF LeftByCallback
    <3> QED BY <1>1, <2>1, <3>1 DEF Orderly, NothingLost
  <2>5. EndsClean'
    <3>1. \A c \in made : Gone(c) => Gone(c)'
      BY <1>1, <1>2, CallTypes DEF Gone, LeftByCallback
    <3>2. \A y \in Calls : call'[y] \in Cleaned => call[y] \in Cleaned
      BY <1>1, <1>2 DEF Cleaned
    <3>3. \A y \in Calls : found[y] \subseteq made
      BY DEF IInv, TypeOK
    <3> QED BY <1>1, <2>1, <3>1, <3>2, <3>3 DEF Orderly, EndsClean
  <2> QED BY <2>2, <2>3, <2>4, <2>5 DEF Orderly
<1> QED BY <1>3, <1>4, <1>5 DEF IInv

LEMMA TransportConnectedInv ==
  ASSUME IInv, NEW x \in Connects, TransportConnected(x)
  PROVE  IInv'
<1>1. /\ call[x] = "connecting" /\ x \in Calls /\ x # Nobody /\ x \notin made
      /\ call' = [call EXCEPT ![x] = "starting"]
      /\ runtime' = x /\ run_task' = x /\ tick_task' = x
      /\ made' = made \cup {x} /\ running' = running \cup {x} /\ ticking' = ticking \cup {x}
      /\ UNCHANGED <<reason, awaits, found, host, event, connect_error, closed, established,
                     fresh, overlapped>>
  BY CallTypes DEF TransportConnected, reasons, signals, observers, IInv, NewInv
<1>2. /\ \A y \in Calls \ {x} : call'[y] = call[y]
      /\ call'[x] = "starting"
  BY <1>1 DEF IInv, TypeOK
<1>3. TypeOK'
  BY CallTypeOK, <1>1 DEF IInv
<1>4. HostInv' /\ NewInv' /\ ConnectedMeansEstablished'
  <2>1. fresh \subseteq Calls /\ Connects \subseteq Calls
    BY CallTypes DEF IInv, TypeOK
  <2>2. HostInv' /\ NewInv'
    BY <1>1, <1>2, <2>1 DEF IInv, HostInv, NewInv
  <2>3. ConnectedMeansEstablished'
    BY <1>1, <1>2, <2>1 DEF IInv, ConnectedMeansEstablished
  <2> QED BY <2>2, <2>3
<1>5. ASSUME ~overlapped' PROVE Orderly'
  <2>1. Orderly /\ ~overlapped
    BY <1>1, <1>5 DEF IInv
  <2>2. run_task = Nobody /\ ticking = {} /\ made \subseteq closed
    BY <1>1, <2>1 DEF Orderly, OneConnects, EmptyInv
  <2>3. \A y \in Calls \ {x} : call'[y] \notin UnderWay
    BY <1>1, <1>2, <2>1 DEF Orderly, OneConnects
  <2>4. OneConnects' /\ FoundInv' /\ StageInv' /\ EmptyInv' /\ OwnInv'
    BY <1>1, <1>2, <2>3, CallTypes
       DEF OneConnects, FoundInv, StageInv, EmptyInv, OwnInv, UnderWay, Opening, Closing
  <2>5. EventInv'
    <3>1. fresh \subseteq Calls
      BY CallTypes DEF IInv, TypeOK
    <3> QED BY <1>1, <1>2, <2>1, <3>1 DEF Orderly, EventInv, Opening
  <2>6. \A c \in made \cup running : LeftByCallback(c) => LeftByCallback(c)'
    BY <1>1, <1>2, CallTypes DEF LeftByCallback
  <2>7. NothingLost'
    <3>1. running \subseteq made /\ Nobody \notin running
      BY DEF IInv, TypeOK
    <3>2. \A c \in running : LeftByCallback(c)
      BY <2>1, <2>2, <3>1 DEF Orderly, NothingLost
    <3> QED BY <1>1, <2>2, <2>6, <3>2 DEF NothingLost
  <2>8. EndsClean'
    <3>1. \A c \in made : Gone(c) => Gone(c)'
      BY <1>1, <2>6 DEF Gone
    <3>2. \A y \in Calls : call'[y] \in Cleaned => y # x /\ call[y] \in Cleaned
      BY <1>1, <1>2 DEF Cleaned
    <3>3. \A y \in Calls : found[y] \subseteq made
      BY DEF IInv, TypeOK
    <3> QED BY <1>1, <2>1, <3>1, <3>2, <3>3 DEF Orderly, EndsClean
  <2> QED BY <2>4, <2>5, <2>7, <2>8 DEF Orderly
<1> QED BY <1>3, <1>4, <1>5 DEF IInv

\* A call goes on or ends without a trace: a connect() whose SETUP is written, one
\* that returns, and a call that raises.
LEMMA QuietInv ==
  ASSUME IInv, NEW x \in Calls, NEW new \in {"waiting", "connected", "raised"},
         call[x] \in UnderWay,
         new = "waiting" => call[x] = "starting",
         new = "connected" => call[x] = "waiting" /\ event /\ ~connect_error,
         call' = [call EXCEPT ![x] = new],
         \A y \in Calls \ {x} : awaits'[y] = awaits[y],
         UNCHANGED <<found, host, attributes, signals, tasks, runtimes, up, observers>>,
         TypeOK'
  PROVE  IInv'
<1>1. /\ \A y \in Calls \ {x} : call'[y] = call[y]
      /\ call'[x] = new /\ new \notin Closing \cup Cleaned \cup {"idle", "connecting", "starting", "self"}
      /\ call[x] \notin Cleaned \cup {"idle", "self"}
  BY DEF IInv, TypeOK, UnderWay, Opening, Closing, Cleaned
<1>2. UNCHANGED <<found, host, runtime, run_task, tick_task, event, connect_error, running,
                  ticking, made, closed, established, fresh, overlapped>>
  BY DEF attributes, signals, tasks, runtimes, observers
<1>3. Connects \subseteq Calls /\ fresh \subseteq Connects
  BY CallTypes DEF IInv, TypeOK
<1>4. HostInv' /\ NewInv'
  BY <1>1, <1>2, <1>3 DEF IInv, HostInv, NewInv
<1>5. ConnectedMeansEstablished'
  <2>1. \/ overlapped \/ x \notin fresh \/ new # "connected" \/ x \in established
    BY <1>3 DEF IInv, Orderly, EventInv, Opening
  <2> QED BY <1>1, <1>2, <1>3, <2>1 DEF IInv, ConnectedMeansEstablished
<1>6. ASSUME ~overlapped' PROVE Orderly'
  <2>1. Orderly
    BY <1>2, <1>6 DEF IInv
  <2>2. OneConnects'
    BY <1>1, <1>2, <1>3, <2>1, CallTypes DEF Orderly, OneConnects
  <2>3. FoundInv' /\ StageInv' /\ EmptyInv'
    BY <1>1, <1>2, <2>1, CallTypes DEF Orderly, FoundInv, StageInv, EmptyInv, Closing
  <2>4. OwnInv' /\ EventInv'
    <3>1. new \in Opening => call[x] \in Opening
      BY DEF Opening
    <3>2. new = "waiting" => call[x] \in {"starting", "waiting"}
      OBVIOUS
    <3> QED BY <1>1, <1>2, <1>3, <2>1, <3>1, <3>2 DEF Orderly, OwnInv, EventInv
  <2>5. \A c \in made \cup running : LeftByCallback(c) => LeftByCallback(c)'
    BY <1>1, <1>2, CallTypes DEF LeftByCallback
  <2>6. NothingLost'
    BY <1>2, <2>1, <2>5 DEF Orderly, NothingLost
  <2>7. EndsClean'
    <3>1. \A c \in made : Gone(c) => Gone(c)'
      BY <1>2, <2>5 DEF Gone
    <3>2. \A y \in Calls : call'[y] \in Cleaned => call[y] \in Cleaned
      BY <1>1 DEF Cleaned
    <3>3. \A y \in Calls : found[y] \subseteq made
      BY DEF IInv, TypeOK
    <3> QED BY <1>2, <2>1, <3>1, <3>2, <3>3 DEF Orderly, EndsClean
  <2> QED BY <2>1, <2>2, <2>3, <2>4, <2>6, <2>7 DEF Orderly
<1> QED BY <1>4, <1>5, <1>6 DEF IInv

-----------------------------------------------------------------------------
(* The steps of a call that closes.                                        *)

LEMMA BeginCloseInv ==
  ASSUME IInv, NEW x \in Calls, NEW why, BeginClose(x, why),
         call[x] \in {"idle", "starting", "waiting"},
         \A y \in Calls \ {x} : host'[y] = host[y],
         UNCHANGED <<attributes, signals, running, failed, ticking, runtimes, up, fresh>>,
         overlapped => overlapped',
         ~overlapped' => \A c \in Connects : call[c] # "connecting",
         TypeOK', HostInv'
  PROVE  IInv'
<1>1. /\ \A y \in Calls \ {x} : /\ call'[y] = call[y] /\ awaits'[y] = awaits[y]
                                /\ found'[y] = found[y]
      /\ call'[x] = "tick" /\ awaits'[x] = tick_task /\ found'[x] = made
  BY DEF BeginClose, IInv, TypeOK
<1>2. UNCHANGED <<runtime, run_task, tick_task, event, connect_error, running, ticking, made,
                  closed, established, fresh>>
  BY DEF attributes, signals, runtimes
<1>3. Connects \subseteq Calls /\ fresh \subseteq Connects
  BY CallTypes DEF IInv, TypeOK
<1>4. NewInv'
  BY <1>1, <1>2, <1>3 DEF IInv, NewInv
<1>5. ConnectedMeansEstablished'
  <2>1. \A c \in fresh : call'[c] = "connected" => call[c] = "connected"
    BY <1>1, <1>3
  <2> QED BY <1>2, <2>1 DEF IInv, ConnectedMeansEstablished
<1>6. ASSUME ~overlapped' PROVE Orderly'
  <2>1. Orderly /\ \A c \in Connects : call'[c] # "connecting"
    BY <1>1, <1>3, <1>6 DEF IInv
  <2>2. OneConnects' /\ FoundInv'
    BY <1>1, <1>2, <2>1 DEF Orderly, OneConnects, FoundInv
  <2>3. StageInv' /\ EmptyInv'
    <3>1. ticking \subseteq {tick_task}
      BY <1>6, <2>1 DEF Orderly, NothingLost
    <3> QED BY <1>1, <1>2, <2>1, <3>1 DEF Orderly, StageInv, EmptyInv
  <2>4. OwnInv' /\ EventInv'
    BY <1>1, <1>2, <1>3, <2>1 DEF Orderly, OwnInv, EventInv, Opening
  <2>5. \A c \in made \cup running : LeftByCallback(c) => LeftByCallback(c)'
    BY <1>1, CallTypes DEF LeftByCallback
  <2>6. NothingLost'
    BY <1>2, <1>6, <2>1, <2>5 DEF Orderly, NothingLost
  <2>7. EndsClean'
    <3>1. \A c \in made : Gone(c) => Gone(c)'
      BY <1>2, <2>5 DEF Gone
    <3>2. \A y \in Calls : call'[y] \in Cleaned =>
                            y # x /\ call[y] \in Cleaned /\ found'[y] = found[y]
      BY <1>1 DEF Cleaned
    <3>3. \A y \in Calls : found[y] \subseteq made
      BY DEF IInv, TypeOK
    <3> QED BY <1>2, <1>6, <2>1, <3>1, <3>2, <3>3 DEF Orderly, EndsClean
  <2> QED BY <2>1, <2>2, <2>3, <2>4, <2>6, <2>7 DEF Orderly
<1> QED BY <1>4, <1>5, <1>6 DEF IInv

\* A call goes on with the next stage, and no other call is touched; the attributes
\* are only cleared and runtimes only closed.
LEMMA StageStep ==
  ASSUME IInv, NEW x \in Calls, NEW new \in {"runtime", "transport", "run"},
         call[x] \in Closing,
         \A y \in Calls \ {x} : call'[y] = call[y] /\ awaits'[y] = awaits[y],
         call'[x] = new,
         runtime' \in {runtime, Nobody}, tick_task' \in {tick_task, Nobody},
         closed \subseteq closed',
         ~overlapped =>
           /\ ticking = {} /\ made \subseteq closed' /\ tick_task' = Nobody
           /\ new \in {"transport", "run"} => runtime' = Nobody
           /\ new = "run" => run_task \in {awaits'[x], Nobody},
         UNCHANGED <<found, host, run_task, signals, tasks, made, established, observers>>,
         TypeOK'
  PROVE  IInv'
<1>2. UNCHANGED <<found, host, run_task, event, connect_error, running, ticking, made,
                  established, fresh, overlapped>>
  BY DEF signals, tasks, observers
<1>3. Connects \subseteq Calls /\ fresh \subseteq Connects
  BY CallTypes DEF IInv, TypeOK
<1>4. HostInv' /\ NewInv'
  BY <1>2, <1>3 DEF IInv, HostInv, NewInv
<1>5. ConnectedMeansEstablished'
  <2>1. \A c \in fresh : call'[c] = "connected" => call[c] = "connected"
    BY <1>3
  <2> QED BY <1>2, <2>1 DEF IInv, ConnectedMeansEstablished
<1>6. ASSUME ~overlapped' PROVE Orderly'
  <2>1. Orderly /\ ~overlapped
    BY <1>2, <1>6 DEF IInv
  <2>2. OneConnects'
    <3>1. \A y \in Calls : call'[y] \in UnderWay => call[y] \in UnderWay
      BY CallTypes
    <3>2. \A c \in Connects : call'[c] = "connecting" => call[c] = "connecting"
      BY <1>3
    <3> QED BY <1>2, <2>1, <3>1, <3>2 DEF Orderly, OneConnects
  <2>3. FoundInv'
    BY <1>2, <2>1 DEF Orderly, FoundInv
  <2>4. StageInv' /\ EmptyInv'
    BY <1>2, <2>1 DEF Orderly, StageInv, EmptyInv
  <2>5. OwnInv' /\ EventInv'
    BY <1>2, <1>3, <2>1 DEF Orderly, OwnInv, EventInv, Opening
  <2>6. \A c \in made \cup running : LeftByCallback(c) => LeftByCallback(c)'
    BY <1>2, CallTypes DEF LeftByCallback, Closing
  <2>7. NothingLost'
    BY <1>2, <2>1, <2>6 DEF Orderly, NothingLost
  <2>8. EndsClean'
    <3>0. Nobody \notin made
      BY DEF IInv, TypeOK
    <3>1. \A c \in made : Gone(c) => Gone(c)'
      BY <1>2, <2>6, <3>0 DEF Gone
    <3>2. \A y \in Calls : call'[y] \in Cleaned => call[y] \in Cleaned
      BY DEF Cleaned
    <3>3. \A y \in Calls : found[y] \subseteq made
      BY DEF IInv, TypeOK
    <3> QED BY <1>2, <2>1, <3>1, <3>2, <3>3 DEF Orderly, EndsClean
  <2> QED BY <2>1, <2>2, <2>3, <2>4, <2>5, <2>7, <2>8 DEF Orderly
<1> QED BY <1>4, <1>5, <1>6 DEF IInv

LEMMA ClosingInv ==
  ASSUME IInv, NEW x \in Calls,
         TickAwaited(x) \/ RuntimeClosed(x) \/ TransportClosed(x)
  PROVE  IInv'
<1>1. TypeOK'
  BY CallTypeOK DEF IInv
<1>2. ~overlapped => Orderly
  BY DEF IInv
<1>3. CASE TickAwaited(x)
  <2> DEFINE new == IF runtime = Nobody THEN "transport" ELSE "runtime"
  <2>1. /\ call[x] = "tick" /\ awaits[x] \notin ticking
        /\ tick_task' = IF awaits[x] # Nobody THEN Nobody ELSE tick_task
        /\ closed' = closed \cup ({runtime} \ {Nobody})
        /\ UNCHANGED <<reason, awaits, found, host, runtime, run_task, signals, tasks, made,
                       established, up, observers>>
    BY <1>3 DEF TickAwaited, reasons
  <2>2. call'[x] = new /\ \A y \in Calls \ {x} : call'[y] = call[y]
    BY <1>3 DEF TickAwaited, IInv, TypeOK
  <2>3. ASSUME ~overlapped
        PROVE  ticking = {} /\ made \subseteq closed' /\ tick_task' = Nobody
    <3>1. ticking \subseteq {awaits[x]} /\ tick_task \in {awaits[x], Nobody}
      BY <1>2, <2>1, <2>3 DEF Orderly, StageInv
    <3>2. made \ closed \subseteq {runtime} /\ Nobody \notin made
      BY <1>2, <2>3 DEF Orderly, NothingLost, IInv, TypeOK
    <3> QED BY <2>1, <3>1, <3>2
  <2>4. /\ new \in {"runtime", "transport", "run"} /\ new # "run"
        /\ new \in {"transport", "run"} => runtime' = Nobody
        /\ call[x] \in Closing /\ runtime' \in {runtime, Nobody}
        /\ tick_task' \in {tick_task, Nobody} /\ closed \subseteq closed' /\ made' = made
        /\ established' = established
        /\ \A y \in Calls \ {x} : awaits'[y] = awaits[y]
    BY <2>1 DEF Closing
  <2> HIDE DEF new
  <2>5. UNCHANGED <<found, host, run_task, signals, tasks, made, established, observers>>
    BY <2>1
  <2> QED BY <1>1, <2>2, <2>3, <2>4, <2>5, StageStep
<1>4. CASE RuntimeClosed(x)
  <2>1. /\ call[x] = "runtime" /\ call[x] \in Closing /\ runtime' = Nobody
        /\ UNCHANGED <<reason, awaits, found, host, run_task, tick_task, signals, tasks, made,
                       closed, established, up, observers>>
    BY <1>4 DEF RuntimeClosed, reasons, runtimes, Closing
  <2>2. call'[x] = "transport" /\ \A y \in Calls \ {x} : call'[y] = call[y]
    BY <1>4 DEF RuntimeClosed, IInv, TypeOK
  <2>3. ~overlapped => ticking = {} /\ made \subseteq closed /\ tick_task = Nobody
    BY <1>2, <2>1 DEF Orderly, StageInv
  <2> QED BY <1>1, <2>1, <2>2, <2>3, StageStep
<1>5. CASE TransportClosed(x)
  <2>1. /\ call[x] = "transport" /\ call[x] \in Closing
        /\ UNCHANGED <<reason, found, host, runtime, run_task, tick_task, signals, tasks, made,
                       closed, established, observers>>
    BY <1>5 DEF TransportClosed, attributes, runtimes, Closing
  <2>2. /\ call'[x] = "run" /\ awaits'[x] = run_task
        /\ \A y \in Calls \ {x} : call'[y] = call[y] /\ awaits'[y] = awaits[y]
    BY <1>5 DEF TransportClosed, IInv, TypeOK
  <2>3. ~overlapped => /\ ticking = {} /\ made \subseteq closed /\ tick_task = Nobody
                       /\ runtime = Nobody
    BY <1>2, <2>1 DEF Orderly, StageInv
  <2> QED BY <1>1, <2>1, <2>2, <2>3, StageStep
<1> QED BY <1>3, <1>4, <1>5

\* The run task has been awaited.  Unless the call runs in it, that was the last there was.
LEMMA RunAwaitedInv ==
  ASSUME IInv, NEW x \in Calls, RunAwaited(x)
  PROVE  IInv'
<1> DEFINE mine == awaits[x] \in running
           end == IF mine THEN "self" ELSE Result(x)
<1>0. /\ end \in Cleaned \cup {"self"} /\ (mine <=> end = "self")
  BY DEF Result, IInv, TypeOK, Cleaned
<1>1. /\ call[x] = "run" /\ (mine => awaits[x] = host[x])
      /\ run_task' = IF awaits[x] # Nobody THEN Nobody ELSE run_task
      /\ UNCHANGED <<found, host, runtime, tick_task, event, connect_error, running, ticking,
                     made, closed, established, fresh, overlapped>>
  BY DEF RunAwaited, signals, tasks, runtimes, observers
<1>2. /\ call'[x] = end
      /\ \A y \in Calls \ {x} : call'[y] = call[y] /\ awaits'[y] = awaits[y]
  BY DEF RunAwaited, Forget, IInv, TypeOK
<1> HIDE DEF end
<1>3. TypeOK'
  BY CallTypeOK DEF IInv
<1>4. /\ Connects \subseteq Calls /\ fresh \subseteq Connects
      /\ end \notin UnderWay /\ end \notin {"idle", "connected"}
  <2>1. Connects \subseteq Calls /\ fresh \subseteq Connects
    BY CallTypes DEF IInv, TypeOK
  <2>2. end \in {"closed", "timeout", "failed", "run_failed", "self"}
    BY <1>0 DEF Cleaned
  <2> QED BY <2>1, <2>2 DEF UnderWay, Opening, Closing
<1>5. HostInv' /\ NewInv'
  BY <1>1, <1>2, <1>4, CallTypes DEF IInv, HostInv, NewInv, UnderWay, Opening
<1>6. ConnectedMeansEstablished'
  <2>1. \A c \in fresh : call'[c] = "connected" => call[c] = "connected"
    BY <1>2, <1>4
  <2> QED BY <1>1, <2>1 DEF IInv, ConnectedMeansEstablished
<1>7. ASSUME ~overlapped' PROVE Orderly'
  <2>1. Orderly /\ ~overlapped
    BY <1>1, <1>7 DEF IInv
  <2>2. /\ ticking = {} /\ made \subseteq closed /\ tick_task = Nobody /\ runtime = Nobody
        /\ run_task \in {awaits[x], Nobody} /\ found[x] = made
    BY <1>1, <2>1 DEF Orderly, StageInv, FoundInv, Closing
  <2>3. run_task' = Nobody
    BY <1>1, <2>2
  <2>4. OneConnects'
    BY <1>1, <1>2, <1>4, <2>1, <2>3, CallTypes DEF Orderly, OneConnects, UnderWay, Opening
  <2>5. FoundInv' /\ StageInv' /\ EmptyInv'
    BY <1>1, <1>2, <1>4, <2>1, <2>2, <2>3, CallTypes
       DEF Orderly, FoundInv, StageInv, EmptyInv, UnderWay, Closing
  <2>6. OwnInv' /\ EventInv'
    BY <1>1, <1>2, <1>4, <2>1, CallTypes DEF Orderly, OwnInv, EventInv, UnderWay, Opening
  <2>7. \A c \in made \cup running : LeftByCallback(c) => LeftByCallback(c)'
    BY <1>1, <1>2, CallTypes DEF LeftByCallback
  <2>8. \A c \in running : LeftByCallback(c)'
    <3> SUFFICES ASSUME NEW c \in running, ~LeftByCallback(c) PROVE LeftByCallback(c)'
      BY <2>7
    <3>1. c = run_task /\ c # Nobody
      BY <2>1 DEF Orderly, NothingLost, IInv, TypeOK
    <3>2. mine /\ host[x] = c
      BY <1>1, <2>2, <3>1
    <3>3. x \in CallbackCloses
      BY <3>1, <3>2 DEF IInv, HostInv
    <3>4. end = "self"
      BY <1>0, <3>2
    <3> QED BY <1>1, <1>2, <3>2, <3>3, <3>4 DEF LeftByCallback
  <2>9. NothingLost'
    BY <1>1, <2>2, <2>8 DEF NothingLost
  <2>10. EndsClean'
    <3>1. \A c \in made : Gone(c)'
      BY <1>1, <2>2, <2>3, <2>8 DEF Gone, IInv, TypeOK
    <3>2. \A y \in Calls : found[y] \subseteq made
      BY DEF IInv, TypeOK
    <3> QED BY <1>1, <3>1, <3>2 DEF EndsClean
  <2> QED BY <2>4, <2>5, <2>6, <2>9, <2>10 DEF Orderly
<1> QED BY <1>3, <1>5, <1>6, <1>7 DEF IInv

-----------------------------------------------------------------------------
(* All steps.                                                              *)

LEMMA StartedInv ==
  ASSUME IInv, NEW x \in Connects, Started(x)
  PROVE  IInv'
<1>1. TypeOK' /\ x \in Calls
  BY CallTypeOK, CallTypes DEF IInv
<1>2. /\ call[x] = "starting" /\ call[x] \in UnderWay
      /\ call' = [call EXCEPT ![x] = "waiting"]
      /\ UNCHANGED <<awaits, found, host, attributes, signals, tasks, runtimes, up, observers>>
  BY DEF Started, reasons, UnderWay, Opening
<1> QED BY <1>1, <1>2, QuietInv

LEMMA WakeInv ==
  ASSUME IInv, NEW x \in Connects, Wake(x) \/ Timeout(x)
  PROVE  IInv'
<1>1. TypeOK' /\ x \in Calls
  BY CallTypeOK, CallTypes DEF IInv
<1>2. /\ call[x] \in {"starting", "waiting"} /\ call[x] \in UnderWay
      /\ UNCHANGED <<host, attributes, signals, running, failed, ticking, runtimes, up, fresh,
                     overlapped>>
  BY DEF Wake, Timeout, observers, UnderWay, Opening
<1>3. ASSUME NEW why, BeginClose(x, why) PROVE IInv'
  <2>1. HostInv'
    BY <1>2 DEF IInv, HostInv
  <2>2. ~overlapped' => \A c \in Connects : call[c] # "connecting"
    <3> SUFFICES ASSUME ~overlapped, NEW c \in Connects, call[c] = "connecting" PROVE FALSE
      BY <1>2
    <3>1. x # c
      BY <1>2
    <3> QED BY <1>1, <1>2, <3>1 DEF IInv, Orderly, OneConnects
  <2> QED BY <1>1, <1>2, <1>3, <2>1, <2>2, BeginCloseInv
<1>4. CASE /\ Wake(x) /\ ~connect_error
           /\ call' = [call EXCEPT ![x] = "connected"] /\ UNCHANGED <<reasons, cancelled>>
  <2>1. /\ event /\ call[x] = "waiting"
        /\ UNCHANGED <<awaits, found, host, attributes, signals, tasks, runtimes, up, observers>>
    BY <1>4 DEF Wake, reasons, tasks
  <2> QED BY <1>1, <1>2, <1>4, <2>1, QuietInv
<1> QED BY <1>3, <1>4 DEF Wake, Timeout

LEMMA CloseInv ==
  ASSUME IInv, NEW x \in Closes \cup CallbackCloses, Close(x)
  PROVE  IInv'
<1>1. TypeOK' /\ x \in Calls
  BY CallTypeOK, CallTypes DEF IInv
<1>2. /\ call[x] = "idle" /\ BeginClose(x, "close")
      /\ UNCHANGED <<attributes, signals, running, failed, ticking, runtimes, up, fresh>>
      /\ overlapped => overlapped'
      /\ ~overlapped' => \A c \in Connects : call[c] # "connecting"
  BY DEF Close
<1>3. \A y \in Calls \ {x} : host'[y] = host[y]
  BY DEF Close, IInv, TypeOK
<1>4. HostInv'
  BY DEF Close, IInv, TypeOK, HostInv
<1> QED BY <1>1, <1>2, <1>3, <1>4, BeginCloseInv

LEMMA RaisesInv ==
  ASSUME IInv, NEW x \in Calls, Raises(x)
  PROVE  IInv'
<1>1. TypeOK'
  BY CallTypeOK DEF IInv
<1>2. /\ call[x] \in UnderWay /\ call' = [call EXCEPT ![x] = "raised"]
      /\ UNCHANGED <<found, host, attributes, signals, tasks, runtimes, up, observers>>
  BY DEF Raises, UnderWay, Opening, Closing
<1>3. \A y \in Calls \ {x} : awaits'[y] = awaits[y]
  BY DEF Raises, Forget, IInv, TypeOK
<1> QED BY <1>1, <1>2, <1>3, QuietInv

\* A step that changes nothing.
LEMMA StutterInv == ASSUME IInv, UNCHANGED vars PROVE IInv'
BY DEF IInv, TypeOK, HostInv, NewInv, ConnectedMeansEstablished, Orderly, OneConnects,
       FoundInv, StageInv, EmptyInv, OwnInv, EventInv, NothingLost, EndsClean, Gone,
       LeftByCallback, vars, places, attributes, signals, tasks, runtimes, observers

\* Every step keeps the invariant.
LEMMA NextInv == IInv /\ [Next]_vars => IInv'
BY ConnectInv, TransportConnectedInv, StartedInv, WakeInv, CloseInv, RaisesInv, ClosingInv,
   RunAwaitedInv, TaskInv, StutterInv, CallTypes DEF Next, TaskStep

-----------------------------------------------------------------------------
(* The theorems.                                                           *)

\* The inductive invariant holds of every reachable state.
THEOREM Invariant == Spec => []IInv
BY InitInv, NextInv, PTL DEF Spec

\* The types, for any number of calls.
THEOREM TypeCorrect == Spec => []TypeOK
BY Invariant, Parts, PTL

\* connect() returns only when its own SETUP exchange is over (CL connect(), _fail_connect
\* and _on_established), unless the event was set before or calls overlap.
THEOREM ConnectedIsEstablished == Spec => []ConnectedMeansEstablished
BY Invariant, Parts, PTL

\* No task and no open runtime is out of the reach of a later close().
THEOREM NothingIsLost == Spec => []NothingLost
BY Invariant, Parts, PTL

\* A connect() that fails by itself, and a close(), leave nothing behind, for any number
\* of calls that close at a time.
THEOREM EndsAreClean == Spec => []EndsClean
BY Invariant, Parts, PTL

=============================================================================
