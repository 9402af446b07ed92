------------------------------ MODULE Requests ------------------------------
(***************************************************************************)
(* The requests that Runtime (python/moqt/moq/_runtime.py) starts and the  *)
(* updates it sends on their streams, from the call of the application to  *)
(* the answer, an error, a cancellation or the end of the session.         *)
(*                                                                         *)
(* Responses carry no Request ID: they come in the order of the messages   *)
(* on the stream of the request, and the runtime finds the future that     *)
(* waits for one under the Request ID of the stream.  A request and every  *)
(* update of it share this one entry.                                      *)
(*                                                                         *)
(* A coroutine runs to its next await that suspends: the opening of the    *)
(* stream, the write of the message, the wait for the answer.  Everything  *)
(* else may happen in between.                                             *)
(*                                                                         *)
(* External to the modelled code: the peer, the transport, and the Session *)
(* of moqt-rs, which rejects calls once it is closed.                      *)
(***************************************************************************)
EXTENDS Naturals, Sequences

CONSTANTS Starts,   \* calls of subscribe(), publish(), fetch(), track_status()
          Updates,  \* calls of send_request_update()
          Target,   \* Target[u]: the start call of the request that u updates
          Nobody    \* not a call

ASSUME RequestsAssumption ==
  /\ Starts \cap Updates = {}
  /\ Target \in [Updates -> Starts]
  /\ Nobody \notin Starts \cup Updates

Calls == Starts \cup Updates

\* A request is named by the call that started it.
Request(c) == IF c \in Starts THEN c ELSE Target[c]

VARIABLES
  core_closed, \* the session of moqt-rs is closed
  closed,      \* Runtime._closed
  left,        \* the application closed the runtime itself
  entry,       \* entry[r]: the call whose future is in Runtime._pending_requests
  future,      \* future[c]: the future of the call
  place,       \* place[c]: where its coroutine is, and how it ended
  asked,       \* asked[r]: calls on the stream of r that the peer has to answer
  over,        \* requests whose stream the peer has ended
  answers      \* answers[c]: what the peer answered to c (observer)

vars == <<core_closed, closed, left, entry, future, place, asked, over, answers>>
session == <<core_closed, closed, left>>

Suspended == {"opening", "sending", "waiting"}
Ended == {"answered", "refused", "closed", "failed", "cancelled"}

Init ==
  /\ core_closed = FALSE
  /\ closed = FALSE
  /\ left = FALSE
  /\ entry = [r \in Starts |-> Nobody]
  /\ future = [c \in Calls |-> "none"]
  /\ place = [c \in Calls |-> "idle"]
  /\ asked = [r \in Starts |-> <<>>]
  /\ over = {}
  /\ answers = [c \in Calls |-> "none"]

-----------------------------------------------------------------------------
(* The calls of the application.                                           *)

\* Slip: the future is entered when the message has been written.
SlipStart(c) ==
  /\ ~core_closed
  /\ place[c] = "idle"
  /\ place' = [place EXCEPT ![c] = "opening"]
  /\ future' = [future EXCEPT ![c] = "pending"]
  /\ UNCHANGED <<session, entry, asked, over, answers>>

\* _start_request up to the opening of the stream.
Start(c) ==
  /\ ~core_closed
  /\ place[c] = "idle"
  /\ place' = [place EXCEPT ![c] = "opening"]
  /\ future' = [future EXCEPT ![c] = "pending"]
  /\ entry' = [entry EXCEPT ![c] = c]
  /\ UNCHANGED <<session, asked, over, answers>>

\* _send_request has a stream and begins to write: the peer may have the message
\* before the write returns.
StreamOpened(c) ==
  /\ place[c] = "opening"
  /\ place' = [place EXCEPT ![c] = "sending"]
  /\ asked' = [asked EXCEPT ![c] = Append(@, c)]
  /\ UNCHANGED <<session, entry, future, over, answers>>

\* Slip: the update has no future of its own.
SlipUpdate(c) ==
  /\ ~core_closed
  /\ place[c] = "idle"
  /\ place[Target[c]] = "answered"
  /\ Target[c] \notin over
  /\ place' = [place EXCEPT ![c] = "sending"]
  /\ entry' = [entry EXCEPT ![Target[c]] = c]
  /\ asked' = [asked EXCEPT ![Target[c]] = Append(@, c)]
  /\ UNCHANGED <<session, future, over, answers>>

\* send_request_update up to the write on the stream of the request.
Update(c) ==
  /\ ~core_closed
  /\ place[c] = "idle"
  /\ place[Target[c]] = "answered"
  /\ Target[c] \notin over
  /\ place' = [place EXCEPT ![c] = "sending"]
  /\ future' = [future EXCEPT ![c] = "pending"]
  /\ entry' = [entry EXCEPT ![Target[c]] = c]
  /\ asked' = [asked EXCEPT ![Target[c]] = Append(@, c)]
  /\ UNCHANGED <<session, over, answers>>

Popped(c) == [entry EXCEPT ![Request(c)] = Nobody]

\* The entry after an exception in the coroutine of c.  The try of a start begins
\* with its wait, so until then its entry stays; an update always pops whatever
\* is there.
Failed(c) ==
  IF c \in Updates \/ place[c] = "waiting" THEN Popped(c) ELSE entry

\* The stream cannot be opened, or the write raises.
Raises(c) ==
  /\ place[c] \in {"opening", "sending"}
  /\ place' = [place EXCEPT ![c] = "failed"]
  /\ entry' = Failed(c)
  /\ UNCHANGED <<session, future, asked, over, answers>>

\* The task of the call is cancelled, by a timeout of the application or by hand.
Cancel(c) ==
  /\ place[c] \in Suspended
  /\ place' = [place EXCEPT ![c] = "cancelled"]
  /\ entry' = Failed(c)
  /\ UNCHANGED <<session, future, asked, over, answers>>

\* Slip: an error is taken for an answer.
SlipOutcome(c) ==
  CASE future[c] \in {"ok", "error"} -> "answered"
    [] future[c] = "closed"          -> "closed"

\* How the wait of c ends.
Outcome(c) ==
  CASE future[c] = "ok"     -> "answered"
    [] future[c] = "error"  -> "refused"
    [] future[c] = "closed" -> "closed"

\* The await of the future returns or raises.
Returned(c) ==
  /\ future[c] # "pending"
  /\ place' = [place EXCEPT ![c] = Outcome(c)]
  /\ entry' = IF c \in Updates \/ Outcome(c) # "answered" THEN Popped(c) ELSE entry

\* The write has returned.  A future that is done already is not waited for.
Sent(c) ==
  /\ place[c] = "sending"
  /\ \/ /\ future[c] = "pending"
        /\ place' = [place EXCEPT ![c] = "waiting"]
        /\ UNCHANGED entry
     \/ Returned(c)
  /\ UNCHANGED <<session, future, asked, over, answers>>

\* The coroutine runs again.
Resume(c) ==
  /\ place[c] = "waiting"
  /\ Returned(c)
  /\ UNCHANGED <<session, future, asked, over, answers>>

-----------------------------------------------------------------------------
(* The peer.                                                               *)

\* _resolve_request and _reject_request.
Resolved(r, result) ==
  /\ entry' = [entry EXCEPT ![r] = Nobody]
  /\ future' = IF entry[r] # Nobody /\ future[entry[r]] = "pending"
               THEN [future EXCEPT ![entry[r]] = result] ELSE future

\* The answer to the oldest unanswered message on the stream of r.
Answer(r, result) ==
  /\ ~core_closed
  /\ asked[r] # <<>>
  /\ asked' = [asked EXCEPT ![r] = Tail(@)]
  /\ answers' = [answers EXCEPT ![Head(asked[r])] = result]
  /\ Resolved(r, result)
  /\ UNCHANGED <<session, place, over>>

\* The peer ends the stream of r: nothing more is answered.  The session reports
\* an error for the request or not.
PeerEnds(r) ==
  /\ ~core_closed
  /\ r \notin over
  /\ place[r] \notin {"idle", "opening"}
  /\ over' = over \cup {r}
  /\ asked' = [asked EXCEPT ![r] = <<>>]
  /\ \/ UNCHANGED <<entry, future, answers>>
     \/ /\ asked[r] # <<>>
        /\ answers' = [answers EXCEPT ![Head(asked[r])] = "error"]
        /\ Resolved(r, "error")
  /\ UNCHANGED <<session, place>>

-----------------------------------------------------------------------------
(* The end of the session.                                                 *)

\* Slip: only the requests are told, not the updates.
SlipReleased ==
  [c \in Calls |-> IF c \in Starts /\ entry[c] = c /\ future[c] = "pending"
                   THEN "closed" ELSE future[c]]

\* The futures after _finish_session.
Released ==
  [c \in Calls |-> IF entry[Request(c)] = c /\ future[c] = "pending"
                   THEN "closed" ELSE future[c]]

\* _finish_session.
Finish ==
  /\ closed' = TRUE
  /\ future' = Released
  /\ entry' = [r \in Starts |-> Nobody]

\* The session closes and its events are applied.
SessionEnds ==
  /\ ~core_closed
  /\ core_closed' = TRUE
  /\ Finish
  /\ UNCHANGED <<left, place, asked, over, answers>>

\* A receive call raises: the session is closed, but the event that says so stays
\* in it.
ReceiveFails ==
  /\ ~core_closed
  /\ core_closed' = TRUE
  /\ UNCHANGED <<closed, left, entry, future, place, asked, over, answers>>

\* The tick takes what events there are.
Tick ==
  /\ ~closed
  /\ core_closed
  /\ Finish
  /\ UNCHANGED <<core_closed, left, place, asked, over, answers>>

\* Runtime.close: the event of the session finds the runtime closed, and
\* _finish_session returns at once.
Close ==
  /\ ~closed
  /\ closed' = TRUE
  /\ core_closed' = TRUE
  /\ left' = TRUE
  /\ UNCHANGED <<entry, future, place, asked, over, answers>>

-----------------------------------------------------------------------------
Next ==
  \/ \E c \in Starts : Start(c) \/ StreamOpened(c)
  \/ \E c \in Updates : Update(c)
  \/ \E c \in Calls : Raises(c) \/ Cancel(c) \/ Sent(c) \/ Resume(c)
  \/ \E r \in Starts, result \in {"ok", "error"} : Answer(r, result)
  \/ \E r \in Starts : PeerEnds(r)
  \/ SessionEnds
  \/ ReceiveFails
  \/ Tick
  \/ Close

\* The event loop runs the tasks that are ready, and the tick every 100 ms.
Spec == /\ Init /\ [][Next]_vars
        /\ WF_vars(Tick)
        /\ \A c \in Calls : WF_vars(Resume(c))

-----------------------------------------------------------------------------
(* Properties.                                                             *)

\* The types of all variables.  A future is made for every call, and a future or a
\* message is never filed under the request of another.
TypeOK ==
  /\ core_closed \in BOOLEAN /\ closed \in BOOLEAN /\ left \in BOOLEAN
  /\ entry \in [Starts -> Calls \cup {Nobody}]
  /\ future \in [Calls -> {"none", "pending", "ok", "error", "closed"}]
  /\ place \in [Calls -> {"idle"} \cup Suspended \cup Ended]
  /\ asked \in [Starts -> Seq(Calls)]
  /\ over \subseteq Starts
  /\ answers \in [Calls -> {"none", "ok", "error"}]
  /\ \A c \in Calls : place[c] = "idle" <=> future[c] = "none"
  /\ \A r \in Starts : entry[r] = Nobody \/ Request(entry[r]) = r
  /\ \A r \in Starts : \A i \in 1 .. Len(asked[r]) : Request(asked[r][i]) = r

\* No other update of the same request has been sent.
Alone(c) ==
  \A u \in Updates \ {c} : Target[u] = Request(c) => place[u] = "idle"

\* The calls whose answer cannot be confused: start calls always, updates as long
\* as they are alone on their request.
Own(c) == c \in Starts \/ Alone(c)

\* A call that returns or is refused has got the peer's own answer to it,
\* although answers carry no Request ID.
AnsweredByOwn ==
  \A c \in Calls : Own(c) =>
    /\ place[c] = "answered" => answers[c] = "ok"
    /\ place[c] = "refused" => answers[c] = "error"

\* A call that is under way and has no result can be found under its Request ID:
\* no answer and no end of the session passes it by.
WaitersKept ==
  \A c \in Calls : Own(c) =>
    (place[c] \in Suspended /\ future[c] = "pending" => entry[Request(c)] = c)

\* What the end of a call leaves behind: only a start that failed or was
\* cancelled before its wait keeps its entry.
LeftBehind ==
  \A r \in Starts : entry[r] # Nobody /\ place[entry[r]] \in Ended =>
    entry[r] = r /\ place[r] \in {"failed", "cancelled"}

\* The entries and the calls agree: who waits has one, and who is done has none.
EntriesAgree == WaitersKept /\ LeftBehind

\* When the session ends, however the runtime learns of it, every call that
\* waits is released, unless the application has closed the runtime itself.
ReleasedAtEnd ==
  \A c \in Calls :
    (core_closed /\ place[c] = "waiting" /\ Own(c))
      ~> (place[c] # "waiting" \/ left)
=============================================================================
