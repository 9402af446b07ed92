------------------------------ MODULE Responder ------------------------------
(***************************************************************************)
(* The requests that the peer starts and the updates it sends on their     *)
(* streams, from the fragment that brings them to the answer and the end:  *)
(* Runtime (python/moqt/moq/_runtime.py), the handler of requests of       *)
(* Server (server.py) and Publication.close (publisher.py).                *)
(*                                                                         *)
(* Answers carry no Request ID: the peer takes the n-th answer on a stream *)
(* for its n-th message.  A stream is named by the request it was opened   *)
(* for, message 0; its updates are the messages 1, 2, ...                  *)
(*                                                                         *)
(* A handler applies the events of one fragment; it waits while a callback *)
(* of the application runs and while an answer is written.  The bytes of   *)
(* an answer are in their place on the stream once the write begins.       *)
(*                                                                         *)
(* External to the modelled code: the peer, which updates a request only   *)
(* when it has been accepted, and the session of moqt-rs, which refuses a  *)
(* second answer and answers to requests that are over.                    *)
(***************************************************************************)
EXTENDS Integers, Sequences

CONSTANTS Requests,   \* requests of the peer
          Fetches,    \* those that are FETCH
          Handlers,   \* callbacks of the transport under way
          Most,       \* Most[r]: bound on the updates of r
          Plain,      \* a stream in the table without a Request ID
          Nothing     \* no stream, no request

ASSUME ResponderAssumption ==
  /\ Fetches \subseteq Requests
  /\ Most \in [Requests -> Nat]
  /\ {Plain, Nothing} \cap Requests = {} /\ Plain # Nothing

VARIABLES
  core,      \* core[r]: how the session has the request: "none", "pending", "ok", "over"
  arrived,   \* arrived[r]: how many of its messages have arrived
  ended,     \* requests whose stream the peer has ended
  streams,   \* Runtime._streams: what is entered for the stream of a request
  handler,   \* handler[h]: the request, the messages left, what it waits for, and
             \* whether the answer it writes ends the stream
  app,       \* app[r]: where the application is with the request
  finishing, \* requests whose last message the application is writing
  wire,      \* wire[r]: what has been written on the stream of r
  crossed,   \* requests two handlers had updates of at a time (observer)
  dropped,   \* requests with events that were not applied, after an exception (observer)
  late       \* requests that got a message when they were over (observer)

observers == <<crossed, dropped, late>>
vars == <<core, arrived, ended, streams, handler, app, finishing, wire, observers>>

Idle == [request |-> Nothing, todo |-> <<>>, at |-> "idle", fin |-> FALSE]

Init ==
  /\ core = [r \in Requests |-> "none"]
  /\ arrived = [r \in Requests |-> 0]
  /\ ended = {}
  /\ streams = [r \in Requests |-> Nothing]
  /\ handler = [h \in Handlers |-> Idle]
  /\ app = [r \in Requests |-> "none"]
  /\ finishing = {}
  /\ wire = [r \in Requests |-> <<>>]
  /\ crossed = {} /\ dropped = {} /\ late = {}

-----------------------------------------------------------------------------
(* Sending.                                                                *)

\* _find_incoming_request_stream.
StreamsOf(r) == {s \in Requests : streams[s] = r}

\* Slip: the first stream of the table is taken, whatever its Request ID.
SlipWrite(r, message) ==
  LET first == CHOOSE s \in Requests : streams[s] # Nothing IN
  wire' = [wire EXCEPT ![first] = Append(@, message)]

\* _send_on_stream up to the await of the write.
Write(r, message) ==
  wire' = [s \in Requests |-> IF s \in StreamsOf(r) THEN Append(wire[s], message)
                                                    ELSE wire[s]]

Message(what, r, n, fin) == [what |-> what, of |-> <<r, n>>, fin |-> fin]

\* The session takes an answer and there is a stream to write it on.
Answerable(r, state) == core[r] = state /\ StreamsOf(r) # {}

\* Slip: the entry stays when the last message is written.
SlipUnregister(r, fin) == streams

\* What is left of the table when the write of an answer to r is over.
Unregister(r, fin) ==
  [s \in Requests |-> IF fin /\ s \in StreamsOf(r) THEN Nothing ELSE streams[s]]

-----------------------------------------------------------------------------
(* Receiving.                                                              *)

Busy(r) == {h \in Handlers : handler[h].request = r /\ handler[h].at # "idle"}

\* Slip: the updates are counted without the request.
SlipUpdates(r, n) == [i \in 1..n |-> arrived[r] + i]

\* The messages of a fragment, after those that have arrived.
Updates(r, n) == [i \in 1..n |-> arrived[r] + i - 1]

\* The first bytes of a stream: too few for a message.
StreamOpens(r) ==
  /\ streams[r] = Nothing /\ arrived[r] = 0
  /\ r \notin ended
  /\ streams' = [streams EXCEPT ![r] = Plain]
  /\ UNCHANGED <<core, arrived, ended, handler, app, finishing, wire, observers>>

\* _classify_stream and _remember_incoming_request.
Remember(r) == streams' = [streams EXCEPT ![r] = r]

\* A new request, _on_request: there is a callback for its kind, which gets it, ...
RequestGiven(h, r) ==
  /\ handler[h] = Idle
  /\ arrived[r] = 0 /\ r \notin ended
  /\ arrived' = [arrived EXCEPT ![r] = 1]
  /\ core' = [core EXCEPT ![r] = "pending"]
  /\ Remember(r)
  /\ handler' = [handler EXCEPT ![h] =
       [request |-> r, todo |-> <<0>>, at |-> "callback", fin |-> FALSE]]
  /\ app' = [app EXCEPT ![r] = "given"]
  /\ UNCHANGED <<ended, finishing, wire, observers>>

\* ... or there is none, and it is refused on the stream entered in this very step.
RequestNotHandled(h, r) ==
  /\ handler[h] = Idle
  /\ arrived[r] = 0 /\ r \notin ended
  /\ arrived' = [arrived EXCEPT ![r] = 1]
  /\ core' = [core EXCEPT ![r] = "over"]
  /\ Remember(r)
  /\ \E fin \in BOOLEAN :
       /\ wire' = [wire EXCEPT ![r] = Append(@, Message("error", r, 0, fin))]
       /\ handler' = [handler EXCEPT ![h] =
            [request |-> r, todo |-> <<0>>, at |-> "writing", fin |-> fin]]
  /\ UNCHANGED <<ended, app, finishing, observers>>

\* Updates of an accepted request, one or two in a fragment.
UpdatesArrive(h, r, n) ==
  /\ handler[h] = Idle
  /\ core[r] = "ok"
  /\ arrived[r] + n <= Most[r] + 1
  /\ arrived' = [arrived EXCEPT ![r] = @ + n]
  /\ handler' = [handler EXCEPT ![h] =
       [request |-> r, todo |-> Updates(r, n), at |-> "callback", fin |-> FALSE]]
  /\ crossed' = IF \E g \in Busy(r) : Head(handler[g].todo) # 0
                THEN crossed \cup {r} ELSE crossed
  /\ UNCHANGED <<core, ended, streams, app, finishing, wire, dropped, late>>

\* Updates that the peer sent before it learnt that the request is over.  The session
\* may ignore them or report them all the same.  A stream that was given up is
\* entered again, without its Request ID.
UpdatesTooLate(h, r, n) ==
  /\ handler[h] = Idle
  /\ core[r] = "over" /\ r \notin ended
  /\ \E i \in DOMAIN wire[r] : wire[r][i].what = "ok"
  /\ arrived[r] + n <= Most[r] + 1
  /\ arrived' = [arrived EXCEPT ![r] = @ + n]
  /\ late' = late \cup {r}
  /\ streams' = [streams EXCEPT ![r] = IF @ = Nothing THEN Plain ELSE @]
  /\ handler' \in {handler, [handler EXCEPT ![h] =
       [request |-> r, todo |-> Updates(r, n), at |-> "callback", fin |-> FALSE]]}
  /\ UNCHANGED <<core, ended, app, finishing, wire, crossed, dropped>>

\* receive_stream_closed: the session is told only as long as the stream is entered.
PeerEnds(r) ==
  /\ r \notin ended
  /\ arrived[r] > 0 \/ streams[r] # Nothing
  /\ ended' = ended \cup {r}
  /\ streams' = [streams EXCEPT ![r] = Nothing]
  /\ core' = [core EXCEPT ![r] =
       IF streams[r] # Nothing /\ @ # "none" THEN "over" ELSE @]
  /\ UNCHANGED <<arrived, handler, app, finishing, wire, observers>>

-----------------------------------------------------------------------------
(* The handlers.                                                           *)

\* The handler when it is through with the first of its messages.
Rest(h) ==
  IF Len(handler[h].todo) = 1 THEN Idle
  ELSE [handler[h] EXCEPT !.todo = Tail(@), !.at = "callback", !.fin = FALSE]

\* An exception leaves the handler, and the rest of the events with it.
Throw(h) ==
  /\ handler' = [handler EXCEPT ![h] = Idle]
  /\ dropped' = dropped \cup {handler[h].request}

\* The callback of a request is over.  If it raises before there is an answer, _notify
\* keeps the exception and nothing answers.
CallbackEnds(h) ==
  LET r == handler[h].request IN
  /\ handler[h].at = "callback"
  /\ Head(handler[h].todo) = 0
  /\ app[r] # "opening"
  /\ handler' = [handler EXCEPT ![h] = Rest(h)]
  /\ app' \in {app} \cup (IF app[r] = "given" THEN {[app EXCEPT ![r] = "silent"]} ELSE {})
  /\ UNCHANGED <<core, arrived, ended, streams, finishing, wire, observers>>

\* Slip: an update that the application refuses is not answered.
SlipUpdateDecided(h) ==
  LET r == handler[h].request IN
  /\ handler[h].at = "callback"
  /\ Head(handler[h].todo) # 0
  /\ \/ /\ Answerable(r, "ok")
        /\ Write(r, Message("ok", r, Head(handler[h].todo), FALSE))
        /\ handler' = [handler EXCEPT ![h].at = "writing"]
     \/ /\ handler' = [handler EXCEPT ![h] = Rest(h)]
        /\ UNCHANGED wire
  /\ UNCHANGED <<core, arrived, ended, streams, app, finishing, observers>>

\* _respond_request_update: the callback of the update is over, and what it did decides
\* the answer.  The session may end the request with the refusal.
UpdateDecided(h) ==
  LET r == handler[h].request
      n == Head(handler[h].todo)
  IN
  /\ handler[h].at = "callback"
  /\ n # 0
  /\ \/ /\ Answerable(r, "ok")
        /\ \/ /\ Write(r, Message("ok", r, n, FALSE))
              /\ handler' = [handler EXCEPT ![h].at = "writing"]
              /\ UNCHANGED core
           \/ \E fin \in BOOLEAN :
                /\ Write(r, Message("error", r, n, fin))
                /\ handler' = [handler EXCEPT ![h] =
                     [request |-> r, todo |-> @.todo, at |-> "writing", fin |-> fin]]
                /\ core' = [core EXCEPT ![r] = IF fin THEN "over" ELSE @]
        /\ UNCHANGED dropped
     \/ /\ ~Answerable(r, "ok")
        /\ Throw(h)
        /\ UNCHANGED <<core, wire>>
  /\ UNCHANGED <<arrived, ended, streams, app, finishing, crossed, late>>

\* The answer is written, and the handler goes on.
Written(h) ==
  /\ handler[h].at = "writing"
  /\ streams' = Unregister(handler[h].request, handler[h].fin)
  /\ handler' = [handler EXCEPT ![h] = Rest(h)]
  /\ UNCHANGED <<core, arrived, ended, app, finishing, wire, observers>>

\* The transport raises in the write.
WriteFails(h) ==
  /\ handler[h].at = "writing"
  /\ Throw(h)
  /\ UNCHANGED <<core, arrived, ended, streams, app, finishing, wire, crossed, late>>

-----------------------------------------------------------------------------
(* The application.                                                        *)

\* SubscriptionRequest.subscribe_ok, PublisherRequest.accept and FetchRequest.respond;
\* respond() goes on to open a stream when the answer is written.
Accept(r) ==
  /\ app[r] = "given"
  /\ \/ /\ Answerable(r, "pending")
        /\ Write(r, Message("ok", r, 0, FALSE))
        /\ core' = [core EXCEPT ![r] = "ok"]
        /\ app' = [app EXCEPT ![r] = IF r \in Fetches THEN "opening" ELSE "accepted"]
     \/ /\ ~Answerable(r, "pending")
        /\ app' = [app EXCEPT ![r] = "raised"]
        /\ UNCHANGED <<core, wire>>
  /\ UNCHANGED <<arrived, ended, streams, handler, finishing, observers>>

\* The fetch stream is opened and its header accepted by the session and written; or
\* it cannot be opened, or the request is over, and respond() raises.
FetchStreamOpened(r) ==
  /\ app[r] = "opening"
  /\ \/ /\ core[r] = "ok"
        /\ app' = [app EXCEPT ![r] = "serving"]
     \/ app' = [app EXCEPT ![r] = "raised"]
  /\ UNCHANGED <<core, arrived, ended, streams, handler, finishing, wire, observers>>

\* The message that ends a request, with the FIN if the session wants it.
End(r, from, to, what) ==
  /\ app[r] = from
  /\ core[r] = IF what = "done" THEN "ok" ELSE "pending"
  /\ StreamsOf(r) # {}
  /\ core' = [core EXCEPT ![r] = "over"]
  /\ app' = [app EXCEPT ![r] = to]
  /\ \E fin \in BOOLEAN :
       /\ Write(r, Message(what, r, 0, fin))
       /\ finishing' = IF fin THEN finishing \cup {r} ELSE finishing
  /\ UNCHANGED <<arrived, ended, streams, handler, observers>>

\* reject() of a request, and the close() of the Publication of an accepted one.
Reject(r) == End(r, "given", "rejected", "error")
Close(r) == End(r, "accepted", "closed", "done")

\* The last message is written, or the transport raises in the write.
Finished(r) ==
  /\ r \in finishing
  /\ finishing' = finishing \ {r}
  /\ \/ streams' = Unregister(r, TRUE) /\ UNCHANGED dropped
     \/ dropped' = dropped \cup {r} /\ UNCHANGED streams
  /\ UNCHANGED <<core, arrived, ended, handler, app, wire, crossed, late>>

-----------------------------------------------------------------------------
Next ==
  \/ \E r \in Requests : StreamOpens(r) \/ PeerEnds(r) \/ Accept(r) \/ Reject(r)
                         \/ FetchStreamOpened(r) \/ Close(r) \/ Finished(r)
  \/ \E h \in Handlers :
       \/ CallbackEnds(h) \/ UpdateDecided(h) \/ Written(h) \/ WriteFails(h)
       \/ \E r \in Requests :
            \/ RequestGiven(h, r) \/ RequestNotHandled(h, r)
            \/ \E n \in 1..2 : UpdatesArrive(h, r, n) \/ UpdatesTooLate(h, r, n)

\* Writes and callbacks end, and the application answers what it is given.
Spec ==
  /\ Init /\ [][Next]_vars
  /\ \A h \in Handlers : WF_vars(CallbackEnds(h)) /\ WF_vars(UpdateDecided(h))
                         /\ WF_vars(Written(h))
  /\ \A r \in Requests : WF_vars(Accept(r)) /\ WF_vars(FetchStreamOpened(r))
                         /\ WF_vars(Finished(r))

-----------------------------------------------------------------------------
(* Properties.                                                             *)

\* The types of all variables; a handler that is not idle has a message of the
\* request that has arrived.
TypeOK ==
  /\ core \in [Requests -> {"none", "pending", "ok", "over"}]
  /\ \A r \in Requests : arrived[r] \in 0..(Most[r] + 1)
  /\ ended \subseteq Requests
  /\ streams \in [Requests -> Requests \cup {Plain, Nothing}]
  /\ app \in [Requests -> {"none", "given", "silent", "opening", "accepted", "serving",
                           "rejected", "closed", "raised"}]
  /\ finishing \subseteq Requests
  /\ crossed \subseteq Requests /\ dropped \subseteq Requests /\ late \subseteq Requests
  /\ \A h \in Handlers :
       \/ handler[h] = Idle
       \/ /\ handler[h].request \in Requests
          /\ handler[h].at \in {"callback", "writing"} /\ handler[h].fin \in BOOLEAN
          /\ handler[h].todo # <<>>
          /\ \A i \in DOMAIN handler[h].todo :
               handler[h].todo[i] \in 0..(arrived[handler[h].request] - 1)

\* On every stream nothing follows the FIN or PUBLISH_DONE, and the n-th answer is the
\* one to the n-th message (PUBLISH_DONE is not an answer and is last): the peer, which
\* can go by nothing else, takes each answer for what it is.  Excepted: requests of
\* which two handlers had updates at a time, and those with events that an exception
\* kept from being applied.
AnswersInOrder ==
  \A r \in Requests :
    /\ \A i \in 1..(Len(wire[r]) - 1) : ~wire[r][i].fin /\ wire[r][i].what # "done"
    /\ r \notin crossed \cup dropped =>
         \A i \in DOMAIN wire[r] : wire[r][i].what # "done" => wire[r][i].of = <<r, i - 1>>

\* The last message of the request is written, and whoever wrote it is past the write.
FinWritten(r) ==
  /\ \E i \in DOMAIN wire[r] : wire[r][i].fin
  /\ r \notin finishing
  /\ \A h \in Busy(r) : handler[h].at # "writing"

\* As long as the session waits for answers to a request its stream can be found, so
\* that no answer the session has taken is without a stream; and the entry goes when
\* the peer ends the stream or the last message is written, but for a message that
\* comes too late, which enters the stream again.
StreamsAgree ==
  \A r \in Requests :
    /\ core[r] \in {"pending", "ok"} => StreamsOf(r) = {r}
    /\ r \in ended => streams[r] = Nothing
    /\ FinWritten(r) => streams[r] = Nothing \/ r \in late \cup dropped

\* The message n of r has its answer, or needs none.
Settled(r, n) ==
  \/ core[r] = "over" \/ app[r] = "silent" \/ r \in dropped
  \/ \E i \in DOMAIN wire[r] : wire[r][i].of = <<r, n>>

\* Every request and every update is answered, unless the request is over before,
\* the callback of the request raised, or an exception kept the event from being
\* applied; also when several updates come in one fragment or at a time.
AllAnswered ==
  \A r \in Requests : \A n \in 0..Most[r] : arrived[r] > n ~> Settled(r, n)
=============================================================================
