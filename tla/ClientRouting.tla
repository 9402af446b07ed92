--------------------------- MODULE ClientRouting ---------------------------
(***************************************************************************)
(* How Client (python/moqt/moq/client.py) brings the objects and the end   *)
(* of a request to the Subscription or Fetch that the application iterates *)
(* over.                                                                   *)
(*                                                                         *)
(* The session processes SUBSCRIBE_OK before the coroutine that waits for  *)
(* it runs again.  In between, objects, PUBLISH_DONE and the end of the    *)
(* request arrive for a subscription that is not registered yet: objects   *)
(* are buffered by Track Alias, ends are remembered by Request ID, and the *)
(* coroutine picks both up.  A Fetch is registered before its request is   *)
(* sent.                                                                   *)
(*                                                                         *)
(* An asyncio callback runs to its next await that really suspends, so     *)
(* every action below is atomic; the continuation of subscribe() never     *)
(* suspends, because the events of its retry are all objects.              *)
(*                                                                         *)
(* The session itself (core) is modelled from what the code relies on:     *)
(* objects arrive for a subscription from SUBSCRIBE_OK until it is         *)
(* forgotten, and it is forgotten some time after it has ended.  The       *)
(* publisher chooses the Track Alias.  The session refuses one that a      *)
(* subscription to another Track has which it still knows                  *)
(* (DUPLICATE_TRACK_ALIAS, tests/test_e2e.py); subscriptions to one Track  *)
(* may share an alias, an alias may come again once its subscription is    *)
(* forgotten, and it may be 0.                                             *)
(***************************************************************************)
EXTENDS Naturals, Sequences, SequencesExt, FiniteSets

CONSTANTS Subscribes,    \* subscribe() calls of the application
          Fetches,       \* fetch() calls of the application
          Others,        \* publish() and track_status() calls
          Aliases,       \* Track Aliases
          Zero,          \* the Track Alias 0, also what an unknown alias reads as
          TrackOf,       \* TrackOf[r]: the Track that r subscribes to
          TrackAlias,    \* TrackAlias[r]: what the publisher answers to r
          NoRequest,     \* not a request
          MaxPendingObjects,      \* MAX_PENDING_OBJECTS_PER_ALIAS
          MaxPendingTerminations, \* MAX_PENDING_TERMINATIONS
          Objects,       \* bound: Objects[r][s] objects are written on stream s of r
          MaxRequests    \* bound: how many of the calls are made

ASSUME RoutingAssumption ==
  /\ Zero \in Aliases
  /\ TrackAlias \in [Subscribes -> Aliases]
  /\ NoRequest \notin Subscribes
  /\ MaxPendingObjects \in Nat \ {0}
  /\ MaxPendingTerminations \in Nat \ {0}
  /\ Objects \in [Subscribes \cup Fetches -> [{"live", "held"} -> Nat]]
  /\ MaxRequests \in Nat
  /\ Subscribes \cap Fetches = {}
  /\ Others \cap (Subscribes \cup Fetches) = {}

Readers == Subscribes \cup Fetches
Requests == Readers \cup Others

VARIABLES
  closed,        \* the session has ended
  core,          \* core[r]: what the session knows of r
  arrived,       \* arrived[r][s]: objects the session reported for r from its stream s
  waiting,       \* waiting[r]: the coroutine of r
  subscriptions, \* Client._subscriptions
  by_alias,      \* Client._subscriptions_by_alias
  track_alias,   \* track_alias[r]: Subscription.track_alias
  fetches,       \* Client._fetches
  pending_objects,      \* Client._pending_objects
  pending_terminations, \* Client._pending_terminations, oldest first
  queue,         \* queue[r]: everything put into the queue of objects() so far
  sharing,       \* subscriptions that have shared their alias with a live one (observer)
  dropped,       \* objects discarded at a limit or by close() (observer)
  forgotten      \* terminations discarded at the limit (observer)

vars == <<closed, core, arrived, waiting, subscriptions, by_alias, track_alias,
          fetches, pending_objects, pending_terminations, queue, sharing, dropped, forgotten>>

tables == <<subscriptions, by_alias, track_alias, fetches>>
pending == <<pending_objects, pending_terminations, dropped, forgotten>>

\* The None that ends an iteration.
End == <<>>

\* "live" is a stream the session decodes as it comes, "held" one that it keeps
\* until a retry.
DataStreams == {"live", "held"}

Object(r, s, k) == <<r, s, k>>

Init ==
  /\ closed = FALSE
  /\ core = [r \in Requests |-> "idle"]
  /\ arrived = [r \in Readers |-> [s \in DataStreams |-> 0]]
  /\ waiting = [r \in Readers |-> "none"]
  /\ subscriptions = {}
  /\ by_alias = [a \in Aliases |-> NoRequest]
  /\ track_alias = [r \in Subscribes |-> Zero]
  /\ fetches = {}
  /\ pending_objects = [a \in Aliases |-> <<>>]
  /\ pending_terminations = <<>>
  /\ queue = [r \in Readers |-> <<>>]
  /\ sharing = {}
  /\ dropped = {}
  /\ forgotten = {}

-----------------------------------------------------------------------------
(* The application and the session.                                        *)

\* A call of the application that has not been made yet.
Callable(r) ==
  /\ ~closed
  /\ core[r] = "idle"
  /\ Cardinality({q \in Requests : core[q] # "idle"}) < MaxRequests

\* subscribe(): the request is sent and its future awaited.
Subscribe(r) ==
  /\ Callable(r)
  /\ core' = [core EXCEPT ![r] = "sent"]
  /\ waiting' = [waiting EXCEPT ![r] = "waiting"]
  /\ UNCHANGED <<closed, arrived, tables, pending, queue, sharing>>

\* fetch(): the Fetch is registered as soon as its Request ID is known.
Fetch(r) ==
  /\ Callable(r)
  /\ core' = [core EXCEPT ![r] = "sent"]
  /\ waiting' = [waiting EXCEPT ![r] = "waiting"]
  /\ fetches' = fetches \cup {r}
  /\ UNCHANGED <<closed, arrived, subscriptions, by_alias, track_alias, pending, queue, sharing>>

\* publish() or track_status().
Other(r) ==
  /\ Callable(r)
  /\ core' = [core EXCEPT ![r] = "ok"]
  /\ UNCHANGED <<closed, arrived, waiting, tables, pending, queue, sharing>>

Live(r) == core[r] \in {"ok", "done", "ended"}

\* The live subscriptions that were given the alias which r is given now.
SameAlias(r) == {q \in Subscribes \ {r} : Live(q) /\ TrackAlias[q] = TrackAlias[r]}

\* SUBSCRIBE_OK or FETCH_OK: the future gets its result, the coroutine will run.  An
\* alias that belongs to another Track would end the session instead.
Answer(r) ==
  /\ ~closed
  /\ core[r] = "sent"
  /\ r \in Subscribes => \A q \in SameAlias(r) : TrackOf[q] = TrackOf[r]
  /\ sharing' = IF r \in Subscribes /\ SameAlias(r) # {}
                THEN sharing \cup {r} \cup SameAlias(r) ELSE sharing
  /\ core' = [core EXCEPT ![r] = "ok"]
  /\ waiting' = [waiting EXCEPT ![r] = IF @ = "waiting" THEN "resolved" ELSE @]
  /\ UNCHANGED <<closed, arrived, tables, pending, queue>>

\* REQUEST_ERROR: the call raises.  A fetch stays registered.
Refuse(r) ==
  /\ ~closed
  /\ core[r] = "sent"
  /\ core' = [core EXCEPT ![r] = "refused"]
  /\ waiting' = [waiting EXCEPT ![r] = IF @ = "waiting" THEN "raised" ELSE @]
  /\ UNCHANGED <<closed, arrived, tables, pending, queue, sharing>>

\* The application gives up, e.g. by wait_for.
Cancel(r) ==
  /\ waiting[r] \in {"waiting", "resolved"}
  /\ waiting' = [waiting EXCEPT ![r] = "cancelled"]
  /\ UNCHANGED <<closed, core, arrived, tables, pending, queue, sharing>>

-----------------------------------------------------------------------------
(* Events of the session.                                                  *)

\* Slip: nothing is dropped at the limit.
SlipBuffered(q, o) == Append(q, o)

\* _buffer_object: the oldest object makes room at the limit.
Buffered(q, o) ==
  Append(IF Len(q) >= MaxPendingObjects THEN Tail(q) ELSE q, o)

\* Slip: with a subscription registered, any alias is taken for its own.
SlipReceiver(r) ==
  IF subscriptions = {} THEN NoRequest ELSE CHOOSE q \in subscriptions : TRUE

\* The subscription that an object of r is routed to.
Receiver(r) == by_alias[TrackAlias[r]]

\* _on_object with the next object of stream s of subscription r.
SubscribedObject(r, s) ==
  LET o == Object(r, s, arrived[r][s] + 1)
      a == TrackAlias[r]
  IN /\ ~closed
     /\ Live(r)
     /\ arrived[r][s] < Objects[r][s]
     /\ arrived' = [arrived EXCEPT ![r][s] = @ + 1]
     /\ IF Receiver(r) # NoRequest
        THEN /\ queue' = [queue EXCEPT ![Receiver(r)] = Append(@, o)]
             /\ UNCHANGED <<pending_objects, dropped>>
        ELSE /\ pending_objects' = [pending_objects EXCEPT ![a] = Buffered(@, o)]
             /\ dropped' = IF Len(pending_objects[a]) >= MaxPendingObjects
                           THEN dropped \cup {Head(pending_objects[a])} ELSE dropped
             /\ UNCHANGED queue
     /\ UNCHANGED <<closed, core, waiting, tables, pending_terminations, forgotten, sharing>>

\* _on_object with an object of a fetch stream: it has no Track Alias and goes
\* to every registered fetch.
FetchedObject(r) ==
  /\ ~closed
  /\ core[r] \in {"sent", "ok"}
  /\ arrived[r]["live"] < Objects[r]["live"]
  /\ arrived' = [arrived EXCEPT ![r]["live"] = @ + 1]
  /\ queue' = [q \in Readers |->
                 IF q \in fetches
                 THEN Append(queue[q], Object(r, "live", arrived[r]["live"] + 1))
                 ELSE queue[q]]
  /\ UNCHANGED <<closed, core, waiting, tables, pending, sharing>>

\* _remember_pending_termination: a dict keyed by Request ID in insertion order,
\* whose oldest entry makes room at the limit.
Remember(r) ==
  LET full == Len(pending_terminations) >= MaxPendingTerminations
      kept == IF full THEN Tail(pending_terminations) ELSE pending_terminations
  IN /\ pending_terminations' = IF Contains(kept, r) THEN kept ELSE Append(kept, r)
     /\ forgotten' = IF full THEN forgotten \cup {Head(pending_terminations)} ELSE forgotten

\* _on_publish_done.  The subscription stays registered.
PublishDone(r) ==
  /\ ~closed
  /\ core[r] = "ok"
  /\ core' = [core EXCEPT ![r] = "done"]
  /\ IF r \in subscriptions
     THEN /\ queue' = [queue EXCEPT ![r] = Append(@, End)]
          /\ UNCHANGED <<pending_terminations, forgotten>>
     ELSE Remember(r) /\ UNCHANGED queue
  /\ UNCHANGED <<closed, arrived, waiting, tables, pending_objects, dropped, sharing>>

\* Slip: the alias still leads to r.
SlipUnregister(r) ==
  /\ subscriptions' = subscriptions \ {r}
  /\ pending_objects' = [pending_objects EXCEPT ![track_alias[r]] = <<>>]
  /\ dropped' = dropped \cup ToSet(pending_objects[track_alias[r]])
  /\ queue' = [queue EXCEPT ![r] = Append(@, End)]
  /\ UNCHANGED by_alias

\* The subscription r leaves the tables; what is buffered for its alias goes too.
Unregister(r) ==
  /\ subscriptions' = subscriptions \ {r}
  /\ by_alias' = [by_alias EXCEPT ![track_alias[r]] = NoRequest]
  /\ pending_objects' = [pending_objects EXCEPT ![track_alias[r]] = <<>>]
  /\ dropped' = dropped \cup ToSet(pending_objects[track_alias[r]])
  /\ queue' = [queue EXCEPT ![r] = Append(@, End)]

\* _on_request_terminated, and cleanup_terminated_requests at its end.
Terminate(r) ==
  /\ ~closed
  /\ core[r] \in {"ok", "done", "refused"} \/ (r \in Fetches /\ core[r] = "sent")
  /\ \E c \in IF core[r] = "refused" THEN {"gone"} ELSE {"ended", "gone"} :
       core' = [core EXCEPT ![r] = c]
  /\ IF r \in subscriptions
     THEN Unregister(r) /\ UNCHANGED <<fetches, pending_terminations, forgotten>>
     ELSE IF r \in fetches
     THEN /\ fetches' = fetches \ {r}
          /\ queue' = [queue EXCEPT ![r] = Append(@, End)]
          /\ UNCHANGED <<subscriptions, by_alias, pending>>
     ELSE /\ Remember(r)
          /\ UNCHANGED <<subscriptions, by_alias, fetches, pending_objects, dropped, queue>>
  /\ UNCHANGED <<closed, arrived, waiting, track_alias, sharing>>

\* The tick forgets a request whose cleanup has become possible.
Cleanup(r) ==
  /\ ~closed
  /\ core[r] = "ended"
  /\ core' = [core EXCEPT ![r] = "gone"]
  /\ UNCHANGED <<closed, arrived, waiting, tables, pending, queue, sharing>>

-----------------------------------------------------------------------------
(* The coroutines run again.                                               *)

\* subscription_track_alias: 0 once the session has forgotten the request.
ReadAlias(r) == IF core[r] = "gone" THEN Zero ELSE TrackAlias[r]

\* Slip: the last object that came before the retry comes again.
SlipReleased(r, n) == [i \in 1 .. n |-> Object(r, "held", arrived[r]["held"] + i - 1)]

\* The n next objects of the streams of r that the session held.
Released(r, n) == [i \in 1 .. n |-> Object(r, "held", arrived[r]["held"] + i)]

\* Slip: the early end is forgotten.
SlipPickedUp(r, n) == Released(r, n) \o pending_objects[ReadAlias(r)]

\* What the queue gets when subscribe() registers r: the objects of the retry,
\* then what was buffered for the alias, then the end if it came early.
PickedUp(r, n) ==
  Released(r, n)
    \o pending_objects[ReadAlias(r)]
    \o (IF Contains(pending_terminations, r) THEN <<End>> ELSE <<>>)

\* subscribe() after the answer: register, retry the held streams, pick up.  A stream
\* of which the session has reported something is not held any more.
Subscribed(r, n) ==
  /\ waiting[r] = "resolved"
  /\ n > 0 => ~closed /\ Live(r) /\ arrived[r]["held"] = 0
  /\ arrived[r]["held"] + n <= Objects[r]["held"]
  /\ waiting' = [waiting EXCEPT ![r] = "returned"]
  /\ subscriptions' = subscriptions \cup {r}
  /\ by_alias' = [by_alias EXCEPT ![ReadAlias(r)] = r]
  /\ track_alias' = [track_alias EXCEPT ![r] = ReadAlias(r)]
  /\ arrived' = [arrived EXCEPT ![r]["held"] = @ + n]
  /\ queue' = [queue EXCEPT ![r] = @ \o PickedUp(r, n)]
  /\ pending_objects' = [pending_objects EXCEPT ![ReadAlias(r)] = <<>>]
  /\ pending_terminations' = RemoveFirst(pending_terminations, r)
  /\ UNCHANGED <<closed, core, fetches, dropped, forgotten, sharing>>

\* subscribe() whose retry raises: registered, but the application gets no
\* Subscription and nothing is picked up.
SubscribeFails(r) ==
  /\ waiting[r] = "resolved"
  /\ waiting' = [waiting EXCEPT ![r] = "raised"]
  /\ subscriptions' = subscriptions \cup {r}
  /\ by_alias' = [by_alias EXCEPT ![ReadAlias(r)] = r]
  /\ track_alias' = [track_alias EXCEPT ![r] = ReadAlias(r)]
  /\ UNCHANGED <<closed, core, arrived, fetches, pending, queue, sharing>>

\* fetch() after the answer: a fetch that ended meanwhile is registered anew,
\* as a Fetch without a past.
Fetched(r) ==
  /\ waiting[r] = "resolved"
  /\ waiting' = [waiting EXCEPT ![r] = "returned"]
  /\ fetches' = fetches \cup {r}
  /\ queue' = IF r \in fetches THEN queue ELSE [queue EXCEPT ![r] = <<>>]
  /\ UNCHANGED <<closed, core, arrived, subscriptions, by_alias, track_alias, pending, sharing>>

-----------------------------------------------------------------------------
(* The end of the session.  No iteration is told.                          *)

\* _finish_session: the futures of all requests fail.
SessionEnds ==
  /\ ~closed
  /\ closed' = TRUE
  /\ waiting' = [r \in Readers |-> IF waiting[r] = "waiting" THEN "raised" ELSE waiting[r]]
  /\ UNCHANGED <<core, arrived, tables, pending, queue, sharing>>

\* Client.close(): what is buffered is cleared; close() of the runtime marks the
\* session closed before the futures could fail.
Close ==
  /\ ~closed
  /\ closed' = TRUE
  /\ dropped' = dropped \cup UNION {ToSet(pending_objects[a]) : a \in Aliases}
  /\ pending_objects' = [a \in Aliases |-> <<>>]
  /\ UNCHANGED <<core, arrived, waiting, tables, pending_terminations, queue, forgotten, sharing>>

Next ==
  \/ \E r \in Subscribes : Subscribe(r) \/ SubscribeFails(r) \/ PublishDone(r)
  \/ \E r \in Subscribes, s \in DataStreams : SubscribedObject(r, s)
  \/ \E r \in Subscribes : \E n \in 0 .. Objects[r]["held"] : Subscribed(r, n)
  \/ \E r \in Fetches : Fetch(r) \/ FetchedObject(r) \/ Fetched(r)
  \/ \E r \in Readers : Answer(r) \/ Refuse(r) \/ Cancel(r)
  \/ \E r \in Others : Other(r)
  \/ \E r \in Requests : Terminate(r) \/ Cleanup(r)
  \/ SessionEnds
  \/ Close

Spec == Init /\ [][Next]_vars

-----------------------------------------------------------------------------
(* Properties.                                                             *)

AnObject == UNION {{r} \X {s} \X (1 .. Objects[r][s]) : r \in Readers, s \in DataStreams}

\* The types of all variables.
TypeOK ==
  /\ closed \in BOOLEAN
  /\ core \in [Requests -> {"idle", "sent", "ok", "done", "refused", "ended", "gone"}]
  /\ arrived \in [Readers -> [DataStreams -> Nat]]
  /\ waiting \in [Readers -> {"none", "waiting", "resolved", "returned", "raised", "cancelled"}]
  /\ subscriptions \subseteq Subscribes
  /\ by_alias \in [Aliases -> Subscribes \cup {NoRequest}]
  /\ track_alias \in [Subscribes -> Aliases]
  /\ fetches \subseteq Fetches
  /\ pending_objects \in [Aliases -> Seq(AnObject)]
  /\ pending_terminations \in Seq(Requests)
  /\ queue \in [Readers -> Seq(AnObject \cup {End})]
  /\ sharing \subseteq Subscribes
  /\ dropped \subseteq AnObject
  /\ forgotten \subseteq Requests

\* What an iteration over the queue q yields: all up to the first End.
Yielded(q) ==
  LET ends == {i \in 1 .. Len(q) : q[i] = End}
  IN IF ends = {} THEN q
     ELSE SubSeq(q, 1, (CHOOSE i \in ends : \A j \in ends : i <= j) - 1)

\* The application iterates once the call has returned.
Seen == [r \in Readers |-> IF waiting[r] = "returned" THEN Yielded(queue[r]) ELSE <<>>]

Over == {r \in Readers : waiting[r] = "returned" /\ Contains(queue[r], End)}

\* A subscription is given objects of the alias it has, a fetch those of all fetches:
\* their events do not name one.
OfItsAlias ==
  [r \in Readers |-> IF r \in Fetches THEN Fetches
                     ELSE {q \in Subscribes : TrackAlias[q] = track_alias[r]}]

Feed == INSTANCE ObjectFeed
          WITH Requests <- Readers, sources <- OfItsAlias, seen <- Seen, over <- Over

\* Objects of one data stream reach an iteration in order and at most once, and an
\* iteration over a subscription sees those of its alias alone, however buffering,
\* retry and registration interleave and whoever has or had that alias.
ImplementsFeed == Feed!Spec

\* Of two subscriptions to different Tracks neither is ever given an object of the
\* other, also before it is registered, as long as the session has forgotten neither.
TracksApart ==
  \A q, r \in Subscribes : \A s \in DataStreams : \A k \in 1 .. arrived[r][s] :
    TrackOf[q] # TrackOf[r] /\ core[q] # "gone" /\ core[r] # "gone"
      => ~Contains(queue[q], Object(r, s, k))

Places(o) ==
  {"queue"} \X {q \in Subscribes : Contains(queue[q], o)}
    \cup {"buffer"} \X {a \in Aliases : Contains(pending_objects[a], o)}
    \cup {"dropped"} \X (dropped \cap {o})

\* Every object the session reported for a subscription is in exactly one place: the
\* queue of one subscription, the buffer of one alias, or discarded.
Conserved ==
  \A r \in Subscribes : \A s \in DataStreams : \A k \in 1 .. arrived[r][s] :
    Cardinality(Places(Object(r, s, k))) = 1

\* The object went to a subscription registered after its end, which the session has
\* forgotten and which stays in the tables for ever.
WithForgotten(o) == \E q \in subscriptions : core[q] = "gone" /\ Contains(queue[q], o)

\* A subscription that lasts and that the application has was given every object the
\* session reported for it, unless the object was discarded at the limit, the alias was
\* shared, or the alias led to a forgotten subscription when the object came.
Delivered ==
  \A r \in Subscribes \ sharing : \A s \in DataStreams : \A k \in 1 .. arrived[r][s] :
    waiting[r] = "returned" /\ core[r] \in {"ok", "done"} =>
      LET o == Object(r, s, k)
      IN Contains(queue[r], o) \/ o \in dropped \/ WithForgotten(o)

\* An iteration over a subscription that PUBLISH_DONE or the end of the request
\* has finished does end, even when they came before the registration.
EndSeen ==
  \A r \in Subscribes :
    waiting[r] = "returned" /\ core[r] \in {"done", "ended", "gone"}
      => Contains(queue[r], End) \/ r \in forgotten

\* A fetch is registered before its first object can arrive: while it lasts, the
\* application's Fetch has got every one of its objects.
FetchMissesNothing ==
  \A r \in Fetches :
    waiting[r] = "returned" /\ core[r] \in {"sent", "ok"} =>
      \A k \in 1 .. arrived[r]["live"] : Contains(queue[r], Object(r, "live", k))

\* No object of a subscription is lost, doubled, left where nobody looks or, while the
\* session knows both, given to a subscription to another Track.
ObjectsKept == Conserved /\ Delivered /\ TracksApart

\* What comes while subscribe() and fetch() wait is not missed: the end of a
\* subscription, the objects of a fetch.
NothingMissed == EndSeen /\ FetchMissesNothing

\* Both buffers keep to their limits, and a request is remembered once.
LimitsHold ==
  /\ \A a \in Aliases : Len(pending_objects[a]) <= MaxPendingObjects
  /\ Len(pending_terminations) <= MaxPendingTerminations
  /\ Cardinality(ToSet(pending_terminations)) = Len(pending_terminations)

\* The iteration over a fetch ends when the fetch has ended (Fetch.objects).
FetchEnds ==
  \A r \in Fetches :
    waiting[r] = "returned" /\ core[r] \in {"ended", "gone"} => Contains(queue[r], End)
=============================================================================
