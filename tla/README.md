# A verification development for moqt-py

moqt-py is a Python binding of the MoQT (Media over QUIC Transport) protocol.
Three layers make it up:

- **moqt-rs** and **webtransport-py**, dependencies that are not in this
  repository: the protocol state machine with its wire codec, and the transport.
- **`src/core.rs`** (Rust, PyO3): `CoreSession` wraps a moqt-rs `Session`, feeds
  it the fragments the transport delivers, and turns what comes out into events.
- **`python/moqt/moq/`** (asyncio): `Runtime` (`_runtime.py`) drives one
  `CoreSession` over one WebTransport session; `Client` (`client.py`) and `Server`
  (`server.py`) give the application requests, subscriptions, fetches, object
  streams and datagrams.

The modules here are translated from the second and third layer. The first one
is modelled only as far as the code relies on it, and marked external.

## Inventory

Line numbers are those of `src/src/core.rs` (C), `src/python/moqt/moq/_runtime.py`
(R), `client.py` (CL), `server.py` (S) and `publisher.py` (P).

**Data stream reception** (C 1557-1604, 1702-2069, 2640-2710). *State*: per stream
the buffered bytes, a decoder that holds bytes of its own, whether the header was
accepted, an object whose payload is missing; the sets of held and of discarded
streams. *Operations*: a fragment arrives, FIN or RESET arrives, the held streams
are retried. *Interactions*: fragments come from the runtime, Track Aliases are
bound by the control messages the session processes, the retry is called by
`Client.subscribe` and by the tick. *Hard*: data that outruns the `SUBSCRIBE_OK`
that makes sense of it; fragments that cut headers and objects anywhere; limits
that discard; one retry over many streams that may fail in the middle. *Correct
when* every object is handed over once and in order, nothing that is held is
lost, nothing that is discarded comes back, limits hold, and a FIN in the middle
of an object never passes for the end of a subgroup.

**Client routing** (CL 109-250, 543-680, 757-870). *State*: the registered subscriptions by
Request ID and by Track Alias, the registered fetches, objects that came before
their subscription was registered, ends that came before it, the queues that
`objects()` iterates over. *Operations*: `subscribe`, `fetch`, the callbacks for
objects, PUBLISH_DONE and the end of a request, `close`. *Interactions*: callbacks
of the runtime run between the steps of the coroutines of the application. *Hard*:
the window between the processing of `SUBSCRIBE_OK` and the continuation of
`subscribe()`; the limits of both buffers; cancellation; aliases that are shared, used again or 0.
*Correct when* each object is in one place and comes in order to an iteration of its
alias, one that lasts gets all of its objects, subscriptions to different Tracks stay
apart, and an iteration whose subscription ended does end.

**Requests** (R 604-613, 788-843, 1001-1030, 1376-1437, 1635-1673). *State*: one
future per Request ID, the request streams, whether the session is closed.
*Operations*: a request is started, its stream is opened, its message sent, its
answer awaited; an update of a request does the same under the Request ID of the
request; answers, the end of the request stream and the end of the session resolve
futures. *Hard*: every await is a point where the answer, a cancellation or the end
of the session may come. *Correct when* an answer reaches the call it answers and
no call waits for ever.

**Object writers** (R 855-999, 1112-1298, P). *State*: for each request the stream
written to, its group and subgroup, the last object on it. *Operations*: send an
object on a subgroup or fetch stream, finish and reset streams. *Hard*: several
tasks send for one request while the opening of a stream or a write is awaited;
Object IDs are written as differences to the last one. *Correct when* the peer
decodes what was sent, each group has one stream per subgroup, and every stream
opened is ended.

**Datagrams** (R 686-738, 742-756). *State*: the datagrams that the session did not take,
with the number of tries. *Operations*: a datagram arrives, the tick retries the
held ones. *Correct when* each datagram is processed at most once, in order among
the held ones, and the limits (256 datagrams, 64 tries) hold.

**Stream classification** (R 615-685). *State*: the kind of each stream, once its first
fragment has told a control stream, a request stream, a data stream and a padding
stream apart. *Hard*: everything that follows belongs to what the first fragment
told, and the end of a stream is told only of one that was classified. *Correct when*
the session is given all of a stream, in order and as what it is, and its end after
that.

**Client lifecycle** (CL 485-541, 757-762, 907-975). *State*: the runtime, the task that runs the
transport, the tick task, the event that ends the wait for SETUP and the error that
may be its reason. *Operations*: `connect`, `close`, and the callbacks that establish the
session, end it or fail. *Hard*: `connect` races its timeout, the establishment and the
first error; several calls close at a time, each awaiting tasks of the others; a
callback may close the task it runs in. *Correct when* `connect` returns only with its
own established session, every way out that closes ends what was started, whatever is
left running can still be reached by a `close`, and every call ends.

**Server** (S 397-460, 536-560, 597-850). *State*: the sessions by address of the peer and session ID, one
runtime for each, one tick task for all. *Operations*: a session becomes ready or is
closed, data comes, `stop`. *Interactions*: the transport does not wait for one callback
before it makes the next; callbacks look their session up again by its key. *Hard*:
keys are used again; one task ticks all sessions; sessions come and go while `stop`
awaits. *Correct when* what a peer sends reaches the runtime of its own session, a
session that has failed is closed although others fail as well, and `stop` leaves no
session that the transport had open unclosed.

**Requests of the peer** (R 1032-1082, 1439-1463, 1555-1633, S 155-260, 337-388,
683-752, P). *State*: the
streams on which requests came, the requests that await an answer. *Operations*: a
request or an update arrives, a callback handles it, the application answers it,
refuses it or ends it later. *Hard*: an answer carries no Request ID, so that only its
place on the stream says what it answers; the entry of a stream goes while others
still use it; callbacks and writes raise. *Correct when* the n-th answer is the one to
the n-th message, answers find their stream, and everything is answered.

**Object encoding** (R 914-975, 1145-1348, 1860-2127). *State*: the last location written on a
stream. *Operations*: an object is sent on a subgroup stream, a fetch stream or as a
datagram. *Hard*: flags and fields must agree in every combination; three different
rules for differences. *Correct when* the peer reads from the wire what was asked for
and nothing it would have to refuse.

**Control stream, events, queries** (C 1-640, 1604-1700, 2070-2640, 2710-3577):
conversion between moqt-rs and Python; the state machine is moqt-rs.

**Catalog, LOC, parameters, properties, codec helpers** (`msf.rs`, `loc.rs`,
`message_parameters.rs`, `properties.rs`, `codec.rs`, `grease.rs`, `errors.rs`):
stateless conversions, most of them one call of moqt-rs.

How they interact: the transport calls the runtime; the runtime calls the
session and takes its events; events resolve futures, call the callbacks of
`Client` or `Server`, or close the runtime. A task runs `tick` every 100 ms
(`TICK_INTERVAL`). Everything runs on one asyncio loop, so a step of a coroutine is
atomic up to the next await that suspends; the models take these steps as actions.

The hazards of this code, each at its line and with the properties that cover it,
are listed in `PROJECT.json`.

## What is modelled

| module | models | checked by | proved in |
| --- | --- | --- | --- |
| `StreamDelivery` | the promise of a receiver of data streams (abstract) | | |
| `DataStreams` | data stream reception of `CoreSession` | `MCDataStreams` | `DataStreamsProofs` |
| `ObjectFeed` | the promise of `objects()` (abstract) | | |
| `ClientRouting` | how `Client` routes objects and ends | `MCClientRouting` | `ClientRoutingProofs` |
| `Requests` | requests and updates of `Runtime`, their answers and their end | `MCRequests` | `RequestsProofs` |
| `ObjectWriters` | subgroup and fetch streams of the sending side | `MCObjectWriters` | `ObjectWritersProofs` |
| `RuntimeInput` | stream classification, datagrams and the tick | `MCRuntimeInput` | `RuntimeInputProofs` |
| `ClientLifecycle` | `connect`, `close` and the tasks of a `Client` | `MCClientLifecycle` | `ClientLifecycleProofs` |
| `Server` | the sessions of a `Server`, its tick task and `stop` | `MCServer` | `ServerProofs` |
| `Responder` | requests and updates of the peer and their answers | `MCResponder` | `ResponderProofs` |
| `ObjectEncoding` | what is written for an object, and what is refused | `MCObjectEncoding` | `ObjectWritersProofs` |
| `ObjectLayout` | how the peer reads it (external) | | |
| `ObjectIds` | the constants that `ObjectWriters` and `ObjectEncoding` share | | |

How the modules fit together. `RuntimeInput` decides what reaches the session;
`DataStreams` is what the session makes of a data stream; what it hands over is what
`ClientRouting` routes. `Requests` and `Responder` are the two sides of request streams, and
`ObjectWriters` and `ObjectEncoding` the sending side of data streams: the former interleaves
calls and keeps of the wire only the differences, the latter writes everything and
has one call after the other. `ClientLifecycle` and `Server` make the runtimes all of this
belongs to. Where one module relies on another it does so by what the other one is
shown to do: `HeldEnds` of `RuntimeInput` by `DataStreams`, the tick that `Requests` and `DataStreams`
assume by `ClientLifecycle` (a client whose runtime is open has its tick task) and by
`FailedIsClosed` of `Server`.

### DataStreams

`core[s]` is everything `CoreSession` keeps about the stream `s` in its maps:
`buffer` is `data_buffers`, `decoder` and `rest` are `data_decoders` with the bytes a
decoder has taken and not read, `header` is `data_headers_decoded`, `object` is the
entry in `pending_subgroup_objects` or `pending_fetch_entries`.
`pending_data_streams` and `ignored_data_streams` have the names of the code.
`delivered`, `dropped`, `torn` and `lost` are history variables that guard nothing.

| action | code |
| --- | --- |
| `Receive(s, n)` | `receive_data_stream`: overflow, or `receive_buffered_data_stream` on all that is buffered |
| `Close(s, how)` | `receive_data_stream_closed` and `take_mid_object_fin` |
| `Retry` | `retry_pending_data_streams` / `retry_held_data_streams`, whole or aborted by a stream that fails |
| `Bind`, `Unbind`, `Forget` | what the moqt-rs session does with a Track Alias (external; `forget_subscription`) |

Bytes are numbered units: `HeaderLen` units of header, then two units for each
object, its header and the rest. A fragment is any run of units. A decoder that
reads a stream from its first unit reports object `k` at unit `HeaderLen + 2k`; what
it reads from the wrong place is a free choice. `Verdicts` is the control of
`receive_buffered_data_stream`: ignored, wait, skip (padding), decode, and for a
complete header accept, hold, ignore or error. `After` and `Events` say what each
does to the stream and what is handed over.

*Runs.* `data_streams_hold` has two subgroup streams of different aliases and a
fetch stream, a header of two units, fragments of one or two units, and one
stream whose objects do not decode, so that a header is cut, a retry aborts and
a hold meets a hold. It checks type correctness, order (`InOrderOnce`), that nothing is
missing (`NothingMissing`: completeness of what is held, and a FIN that the session
survives found the whole stream) and the refinement of `StreamDelivery`.
`data_streams_limits` has three streams of one alias, one place for held streams
and a buffer of three units: every hold of a second stream evicts the first, and a
held stream overflows. It checks both limits (`LimitsKept`), that what is discarded is forgotten,
and the liveness property `HeldIsDelivered`. Three streams are enough for what the
code distinguishes: one stream is processed at a time, and the others matter only
as members of the held set (none, one to stay, one to be evicted).

*Fairness.* Only `WF_vars(Retry)`: the tick task runs every 100 ms for as long as the
session lives (R 742-756) and each tick retries the held streams. Nothing is assumed
of the peer.

*Finding.* `data_streams_orphan`: a held stream is accepted when a later fragment of it
arrives after `SUBSCRIBE_OK`, but stays in `pending_data_streams`. The next tick drops
its live decoder and rebuilds one from an empty buffer, which reads nothing or
garbage from then on, and the FIN of a complete stream closes the session as a
protocol violation.

Properties about held streams except the streams in which this occurs (`lost`,
`Orphaned`), and those whose header was torn (`torn`, see below), so that they
state what holds for all others.

### ClientRouting

The variables have the names of the attributes of `Client`; `queue[r]` is all that
was ever put into the queue of request `r`, and `Yielded` what an iteration makes of
a queue (it stops at the first `End`, the `None` of the code). `core[r]` is what the session
knows of the request, modelled from what the code relies on. `waiting[r]` is the
place of the coroutine: the answer resolves its future (`resolved`) in one step, and
it continues in a later one, `Subscribed`, `SubscribeFails` or `Fetched`.

| action | code |
| --- | --- |
| `Subscribe`, `Fetch`, `Other` | the calls up to the await of the answer; `fetch` registers at once |
| `Answer`, `Refuse`, `Cancel` | the future is resolved, fails, or its task is cancelled |
| `SubscribedObject`, `FetchedObject` | `_on_object`: to the queue, or to the buffer of the alias |
| `PublishDone`, `Terminate` | `_on_publish_done`, `_on_request_terminated` |
| `Cleanup` | the tick lets the session forget a request that has ended |
| `Subscribed(r, n)` | `subscribe()` after the answer: registration, retry of held streams with `n` objects, pick-up |
| `SubscribeFails`, `Fetched` | a retry that raises; `fetch()` after the answer |
| `SessionEnds`, `Close` | `_finish_session`, `Client.close()` |

*Track Aliases.* `TrackAlias[r]` is what the publisher answers to `r`, and nothing is assumed
about it. What the session allows is the guard of `Answer`: an alias that a subscription to another
Track has which the session still knows would end the session (DUPLICATE_TRACK_ALIAS,
`tests/test_e2e.py`). So subscriptions to one Track may share an alias, an alias may come again,
also for another Track, once its subscription is forgotten, and it may be 0, which is also what
`subscription_track_alias` returns for a request that the session has forgotten (`ReadAlias`).
`Client` keeps its table and its buffer by alias and knows nothing of this. `sharing` is an
observer: the subscriptions that have shared their alias with a live one.

*Runs.* `client_routing` has four subscriptions, two fetches and a publish of which any
two are made. `r1` and `r2` share a Track and an alias, `r3` subscribes to another Track
and is given that alias once they are forgotten, `r4` is given the alias 0. There is one place for
early ends and two for early objects: with one object on the stream that is decoded as it comes and
two on the one that may be held until the retry, `r4` reaches the limit of its buffer, and two early
ends the other one. It checks `ObjectsKept`, which has three parts: each object is in exactly one place
(`Conserved`); a subscription that lasts and that the application has was given each of its
objects (`Delivered`); of two subscriptions to different Tracks that the session knows neither is
given an object of the other (`TracksApart`). `Delivered` excepts by name what the code does lose: what
was discarded at the limit, the subscriptions in `sharing`, and objects that a forgotten
subscription took which had been registered too late to be ended (`WithForgotten`). The run checks too
that an end that came early is seen and a fetch misses no object (`NothingMissed`), the
limits, and that the whole implements `ObjectFeed`: `Seen` is what the iterations were given, `Over` those
that have ended, and the sources (`OfItsAlias`) of a subscription are the subscriptions that are given
its alias, those of a fetch all fetches. The sources are a variable of `ObjectFeed`, settled before the
first object is given, because `subscribe()` reads the alias after its await. A retry only gives objects of streams of which the session
has reported nothing yet (C 636-670): a stream whose header was accepted is not held any
more. Order across the retry depends on that. Two requests are enough for aliases and limits to be contended; the
tables have no state that relates three requests.

*Finding.* `client_fetch_end`: a fetch whose request ends before its coroutine continues is
registered anew with a queue that never gets the end. What aliases do to objects is
under "Where code and comments disagree" below.

### Requests

A request is named by the call that started it. `future[c]` is the future of a call,
`entry[r]` the call whose future is in `_pending_requests` under the Request ID of
`r`: one entry for the request and all its updates. `place[c]` is where the
coroutine is (`opening` a stream, `sending` the message, `waiting` for the future) or
how it ended. `asked[r]` are the messages on the stream of `r` that the peer has
still to answer, in order; `over` are the requests whose stream it ended. `answers[c]`
is an observer, what the peer really answered to `c`; `left` says that the application
itself closed the runtime.

| action | code |
| --- | --- |
| `Start`, `StreamOpened`, `Sent` | `_start_request` and `_send_request` between their awaits |
| `Update` | `send_request_update` up to its write |
| `Raises`, `Cancel` | an exception in an await; `Failed` is the cleanup, `finally` of an update and `except` of a start, whose `try` begins with the wait |
| `Resume` | the future is done and the coroutine continues |
| `Answer` | `receive_request_stream` with `_resolve_request` or `_reject_request` |
| `PeerEnds` | `receive_request_stream_closed`, with or without an error |
| `SessionEnds`, `ReceiveFails`, `Tick`, `Close` | the ways the session ends: its event is applied, its event stays in it until the next tick, the application closes |

*Runs.* `requests` has two requests, one of them with two updates. Two updates are
the least number that can share an entry, and a second request shows that nothing
leaks between entries; every table is indexed by the request. `AnsweredByOwn` says that
a call ends with what the peer answered to it; `EntriesAgree` that a call which waits can
still be reached by its answer, and that only a start that could not open its stream
leaves an entry behind. `Own(c)` holds of every
start call and of an update as long as no other update of its request was sent; the
properties are about calls that own their answer. `Update` is taken by the session; that it may
refuse one (R 836-843 raise then, after the shared entry was taken over) is left out, as it only
changes whose entry it was for calls that do not own their answer.

*Fairness.* `WF(Tick)` as above, and `WF(Resume(c))`: asyncio runs a task whose
future is done. Nothing is assumed of the peer, so `ReleasedAtEnd` is about the
end of the session only.

### ObjectWriters

`subgroups` and `fetch_streams` are the tables of `Runtime`, `last[s]` the `last_*` of a writer,
`core_open` what the session counts as open. `task[t]` is the call of a task of the
application and its place between awaits, with what it computed before them.
`asked[s]` is what the application asked for and `decoded[s]` what the peer makes of the
differences on the wire. The transport takes writes in the order of the calls, an
assumption about webtransport-py. `stale`, `cut` and `crossed` are observers that name
the exceptions: a fetch stream on which a send began before the one before it was
over or was interrupted, a stream whose opening or end was interrupted, a
subscription for which two calls opened streams at a time. In the three cases the
code leaves a wrong base, a stream without end, or two streams of one group; no
doc promises otherwise, so they are stated as the limits of the properties. A reset that
the session refuses after its writer was popped (R 1118-1125) is left out.

| action | code |
| --- | --- |
| `SendSubgroup`, `SendInNewSubgroup`, `Replaced`, `Opened`, `SubgroupOpened` | `send_subgroup_object`, `_open_subgroup` between their awaits |
| `FinishSubgroup`, `ResetSubgroup` | `finish_subgroup`, `reset_subgroup(_at)` |
| `OpenFetch`, `Opened`, `FetchOpened` | `open_fetch_stream`, `open_fill_fetch_stream` |
| `SendFetched`, `SendEndOfRange`, `Written` | `send_fetch_stream_object`, `send_fetch_end_of_range` |
| `CloseFetch`, `EndWritten` | `close_fetch_stream`, the end of a FIN |
| `Interrupted` | an await raises or is cancelled |

*Run.* `object_writers` has two tasks, one subscription, an ascending and a
descending fetch, groups and objects 0 and 2 (so that a difference of zero, of one more
and a negative one occur), two kinds of header, two streams and three objects.
Three objects make a first, a second and a replaced one. The constraint
`OneRequest` restricts a behaviour to one of the three requests, and a fetch to one
stream: the tables are indexed by request and by stream, and no action of one
request reads the entry of another. Tasks are interchangeable, so the run uses symmetry.
`PeerDecodes` says that the peer resolves every difference to what was asked for,
`OpenStreamsKnown` that no stream is forgotten by its writer or by the session, and the
action property `NothingAfterEnd` that nothing follows a FIN or a reset.

### RuntimeInput

`streams[s]` is the kind in `_streams`, `fed[s]` the units of a stream that the session was
given, `told` the streams whose end it was told of, `pending_datagrams` the deque with its
attempts, `bound` the aliases that the session knows. `arrived`, `processed`, `dropped` and
`lost` are observers: together they say where each datagram is. The end of a stream that raises ends
the session (R 675-677); the model has that for the control stream only, since for the others an end
in a session that fails is `SessionFails` and `Close`. Callbacks of `Client`
and `Server` do not suspend while they take an object, so a call of the runtime is
one step.

| action | code |
| --- | --- |
| `ReceiveStream`, `StreamClosed` | `receive_stream` with `_classify_stream`, `receive_stream_closed` |
| `ReceiveDatagram` | `receive_datagram`, `_hold_datagram` |
| `Tick` | `tick`: the event of a closed session, a held stream that raises, or `retry_pending_datagrams`, whole or ended by a datagram on which the session fails |
| `Bind`, `Unbind`, `SessionFails` | the session (external) |
| `Close` | `close` |

*Runs.* `runtime_input` has a control stream whose type takes two units, a data stream
whose type takes one, three datagrams of two aliases, two places and two attempts. With
three datagrams the hold is at its limit while another arrives, and with two
attempts a datagram is at its last while another is at its first. `MaxAborts` bounds
the ticks that a failing held stream ends: such a stream is removed by its failure
(`DataStreams`), and finitely many streams are held, so that `HeldEnds` may rely on it.
`DatagramsKept` says where each datagram is and in which order the held ones are
tried, `StreamsTold` what the session is given of each stream and that its end is told
last, and `GivenUpUnknown` that no datagram is given up whose alias the session knows.

*Fairness.* `WF(Tick)`.

### ClientLifecycle

One `connect()` makes a runtime, a run task and a tick task, and all three have its name;
`runtime`, `run_task` and `tick_task` are the attributes of `Client`, which name the latest ones.
`event` and `connect_error` are what ends the wait for SETUP. `call[x]` is where a `connect` or a
`close` is, or how it ended: a call closes in the stages `tick`, `runtime`, `transport`, `run`, each
an await of the code. `found`, `fresh` and `overlapped` are observers.

| action | code |
| --- | --- |
| `Connect`, `TransportConnected`, `Started` | `connect()` up to the transport, to `Runtime.start`, to the wait |
| `Wake`, `Timeout`, `Raises` | how the wait, or an await before it, ends |
| `Close` (`BeginClose`), `TickAwaited`, `RuntimeClosed`, `TransportClosed`, `RunAwaited` | `close()`, called by the application, by a callback or by a `connect()` that fails |
| `TickEnds`, `RunStops`, `RunBreaks` | the tick task, `Transport.run` and `_on_run_done` |
| `Established`, `SessionEnds`, `ReceiveFails`, `TransportSessionClosed` | the callbacks, with `_fail_connect` |

*Run.* `client_lifecycle` has two calls of `connect`, one of `close` by a task and one in a
callback: a second `connect` finds what the first one left, and up to three calls close at
a time (each `connect` that fails closes as well). The constraint `NoOverlap` and the observer
`overlapped` leave out a `connect()` that begins while another call is under way and a
`close()` while the transport is being connected; `Client` has no lock and no doc promises
anything of such calls. It checks `ConnectedMeansEstablished`, `NothingLost`, `EndsClean` and
`CallsEnd`.

*What the model shows besides, and the properties except.* The event and the error of a
connection are never cleared, so that a `connect()` of a client that was connected before
returns or fails at once (`fresh`). A `close()` in a callback of the run task awaits its own
task and gets a `RuntimeError` after everything else has been closed (`LeftByCallback`).
A `start()` that raises anything but a `TimeoutError`, or a cancelled `connect()`, closes
nothing; all it leaves can be reached by a later `close()`.

*Fairness.* The wait has a timeout (`Timeout`); the event loop runs tasks that are ready
(`TickAwaited`, `TickEnds`, `RunAwaited`); the transport closes when it is told to (`RunStops`,
`RuntimeClosed`, `TransportClosed`). Nothing is assumed of the peer.

### Server

`connections` is the table `Server._connections`, by the key of a session: the address of its
peer and the session ID. A session and its runtime have one name. `transport[w]` is what the
transport knows of a session, `session[w]` whether `_on_session_ready` accepted or refused it,
`handling[w]` the runtime of which a callback is to handle an event, `tick` and `stop` the places
of the tick task and of `stop()`. A closed session is one whose `Runtime.close` has run: webtransport-py
has no call that closes a WebTransport session, and the close of a `Runtime` only closes a
stream (`issues/pending/0030-fix-server-session-close.md`). `FailedIsClosed` and `StopEndsAll` say nothing
of what the peer sees.

| action | code |
| --- | --- |
| `SessionReady`, `SessionClosed` | `_on_session_ready`, `_on_session_closed` |
| `Leave` | the peer closes the session (external) |
| `Receive`, `ReceiveFails`, `Handle` | `_on_stream_data`, `_on_stream_reset`, `_on_datagram`; the session fails on it; the callbacks that look the session up again by its key |
| `TickRound`, `TickNext`, `Ticked`, `TickSleeps` | `_tick_loop` over all sessions |
| `Stop`, `TickCancelled`, `CloseNext`, `ClearConnections`, `TransportStopped` | `stop()` between its awaits |

*Run.* `server` has two sessions of one peer that use the same key one after the other, and a
third one of that peer with a key of its own. With these a key is taken again before and
after the end of its former session is reported, and a round of the tick meets sessions
that fail, end and are closed. `OneHandled` lets one callback at a time be under way
between its events: nothing in the state relates two of them. It checks `Served`,
`GivenOwn`, `StopEndsAll` and the liveness property `FailedIsClosed`.

*What the model shows besides, and the properties except.* A peer that comes back with the
same key before the end of its former session is reported is refused and its session
stays open at the transport without a runtime; its end, later, takes the entry of
whatever session has the key by then. A session that becomes ready while `stop()` closes
the others is dropped without being closed. An exception in a tick loses the
event that ends the session, which stays registered. A callback of a session that is gone gets
the runtime of the one that has its key now.

*Fairness.* `WF(TickTask)`: a round goes on as long as the tick task lives, whose exceptions
are suppressed for each session.

### Responder

A request stream is named by the request it was opened for: message 0, and 1, 2, ...
for its updates. `core[r]` is how the session has the request, `streams[s]` the entry of a stream
in `Runtime._streams`, `handler[h]` a callback of the transport with the messages of one
fragment, `app[r]` where the application is with the request, `wire[r]` what has been written.
`crossed`, `dropped` and `late` are observers that name the exceptions. `PeerEnds` takes a FIN
as a RESET: either takes the entry of the stream, and what the session makes of it is not told apart.

| action | code |
| --- | --- |
| `StreamOpens` | a fragment that is too short for a message |
| `RequestGiven`, `RequestNotHandled` | `_remember_incoming_request` and `_on_request` of `Server`, with or without a callback for the kind |
| `UpdatesArrive`, `UpdatesTooLate`, `PeerEnds` | the messages after the first, those that cross the end of the request, `receive_stream_closed` |
| `CallbackEnds`, `UpdateDecided`, `Written`, `WriteFails` | `_notify`, `_respond_request_update` and `_send_on_stream` between their awaits |
| `Accept`, `FetchStreamOpened`, `Reject`, `Close`, `Finished` | the request objects of `server.py`, `Publication.close` |

*Run.* `responder` has a subscription with two updates, a fetch, and two handlers: two
updates in one fragment, two handled at a time, and a handler of each request. Three
messages give every answer one before and one after it. It checks `AnswersInOrder`,
`StreamsAgree` and the liveness property `AllAnswered`.

*What the properties except.* Two handlers with updates of one request at a time: the
callbacks decide the order of the answers (`crossed`). An exception in a handler drops the
events after it and shifts later answers (`dropped`). An update that crosses PUBLISH_DONE
enters the stream again without its Request ID (`late`). A request whose callback raises
before it answered is never answered (`silent`), since `_notify` keeps the exception. With any of
these exceptions taken out of the property TLC finds a violation.

*Fairness.* `WF` of the callbacks and the writes (`CallbackEnds`, `UpdateDecided`, `Written`,
`FetchStreamOpened`, `Finished`): they are awaited by tasks that the event loop runs. `WF(Accept)`
is about the application, and `AllAnswered` is a promise to an application that answers what it is
given.

### ObjectEncoding and ObjectLayout

`wire[i]` is what was written on stream (or in datagram) `i`, a sequence of numbers: a varint is one
number, a byte of a payload another. `writer` is the registered writer with its last location, and
`sent` records what the application asked for. The actions are `SendSubgroupObject` (with
`_open_subgroup`), `OpenFetchStream`, `SendFetchStreamObject`, `SendFetchEndOfRange` and
`SendObjectDatagram`, each with everything it refuses as its guard. `ObjectLayout` is the reader, from
the layouts of the draft that the code cites; it is not part of this repository.

*Run.* `object_encoding` takes all combinations of groups and objects 0 and 2, with and without
Subgroup ID, mode, priority, properties (empty, with content, malformed), payload, status
(known and unknown) and end of group, for two objects: the second is written against
the first, and differences of zero, up and down occur. `PeerReads` says that the peer
reads what was asked for, finds nothing it must refuse, and that no number is negative; it is proved
for any number of calls and any values (`PeerReadsAll`). What the values have to be is in
`EncodingTypes`: IDs, priorities and statuses are numbers, blocks and payloads sequences of
numbers, and `None` is none of them. Calls of one task follow each other here; how those of
several interleave is the subject of `ObjectWriters`.

## Where code and comments disagree without a run of its own

These were met while modelling. The models have the behaviour, and the properties except it
by name, so that they state what holds for everything else.

- *Torn header* (C 1862). A subgroup header that comes in two fragments before its alias is
  bound: the comment at C 1860 says that the bytes the decoder received are kept; the code
  puts back the bytes of the last call only, and the retry reads the stream from the
  middle of its header (`torn` in `DataStreams`).
- *Two fetches at a time* (CL 789). The doc at CL 203 says that an iteration returns the objects
  of its fetch; the event of a fetched object does not name its fetch, and it goes to every
  registered one. A fetch misses none of its own (`NothingMissed`); `ObjectFeed` takes all fetches
  for its sources (`OfItsAlias`).
- *A second update* (R 836). All updates of a request share its entry, so that the second one
  takes it over, returns with the answer to the first, and the first is never resolved.
  `AnsweredByOwn` and `EntriesAgree` are about calls that own their answer.
- *A cut stream type* (R 622, 638). The comments say that the next fragment decides; the first
  one is not kept, so the next is read as a stream type of its own. `StreamsTold` is about
  streams whose type came whole.
- *Alias 0* (CL 559). The doc at CL 117 calls `track_alias` the one that `SUBSCRIBE_OK` told. When the
  session has forgotten a subscription before `subscribe()` continues, `subscription_track_alias`
  returns 0: what was buffered for the real alias is not handed over, and the dead subscription
  stays in the table under 0, where it takes the objects of a live one with that alias
  (`ReadAlias`, `WithForgotten` in `ClientRouting`).
- *An alias used again* (CL 806). The comment at CL 30 says that objects are kept only until the
  registration of their subscription. Those of a call that was cancelled, or whose request was forgotten
  before it continued, stay in the buffer and go to the next subscription of that alias, also one
  to another Track. `TracksApart` is about subscriptions that the session knows.
- *A shared alias* (CL 829). The comment at CL 794 says that an object is buffered until its
  subscription is settled. When one of two subscriptions with one alias ends, the alias is taken
  out of the table, and what comes for the other is buffered for as long as that one lives.
  `Delivered` excepts subscriptions that have shared their alias (`sharing`).
- *Properties with a status* (R 2092). A subgroup object may carry properties with a status
  that says there is no object, which a datagram refuses and the comment rules out.
  `PeerReads` has the code's rule for each.

## What is proved

All theorems hold for every value of the constants that the named assumptions of the module
allow; nothing else is assumed. Each module has an inductive
invariant `IInv`, a conjunction of named parts, proved by a lemma for `Init`, one for each action
(or group of actions that touch the same state), and a last one that combines them. The theorem
`Invariant` is `Spec => []IInv`. Where a property needs more, a second inductive invariant stands on
top of the first (`KeptInv` and `FeedInv` of `ClientRoutingProofs`, `KeptInv` of
`RuntimeInputProofs`, `OrderInv` of `ResponderProofs`). TLC has checked the parts of these as
invariants first. The proof about `ObjectEncoding`, with its own invariant `EncodingInvariant`, is in
`ObjectWritersProofs`, next to the other half of the sending side; the module extends both, which share
the constants of `ObjectIds`, and hides the assumption of `ObjectWriters` from that proof.

| module | theorem | property |
| --- | --- | --- |
| `DataStreamsProofs` | `TypeCorrect`, `Invariant` | `TypeOK` |
| | `ObjectsInOrder` | `InOrderOnce` |
| | `HeldIsComplete`, `FinIsWhole`, `NothingIsMissing` | `NothingMissing` |
| | `IgnoredStaysForgotten` | `IgnoredIsForgotten` |
| | `BuffersAreBounded`, `PendingIsBounded`, `LimitsAreKept` | `LimitsKept` |
| | `Implements` | `ImplementsDelivery`, the refinement of `StreamDelivery` |
| `ClientRoutingProofs` | `TypeCorrect`, `Invariant` | `TypeOK` |
| | `LimitsAreKept` | `LimitsHold` |
| | `NothingIsMissed` | `NothingMissed` |
| | `ObjectsInvariant`, `ObjectsAreKept` | `ObjectsKept` |
| | `TracksAreApart` | `TracksApart`, a part of `ObjectsKept` |
| | `FeedIsImplemented` | `ImplementsFeed`, the refinement of `ObjectFeed` |
| `RequestsProofs` | `TypeCorrect`, `Invariant` | `TypeOK` |
| | `AnswersAreOwn` | `AnsweredByOwn` |
| | `WaitersAreKept`, `OnlyFailedStartsStay`, `EntriesDoAgree` | `EntriesAgree` |
| `ObjectWritersProofs` | `TypeCorrect`, `Invariant` | `TypeOK` |
| | `WritersDecode` | `PeerDecodes` |
| | `StreamsAreKnown` | `OpenStreamsKnown` |
| | `EndIsFinal` | `NothingAfterEnd` |
| | `PeerReadsAll` (of `ObjectEncoding`) | `PeerReads` |
| `RuntimeInputProofs` | `TypeCorrect` | `TypeOK` |
| | `Invariant`, `StreamsAreTold` | `StreamsTold` |
| | `OnlyUnknownGivenUp` | `GivenUpUnknown` |
| | `KeptInvariant`, `DatagramsAreKept` | `DatagramsKept` |
| | `RetriesAreCounted` | the bound `HeldEnds` rests on |
| `ClientLifecycleProofs` | `TypeCorrect`, `Invariant` | `TypeOK` |
| | `ConnectedIsEstablished` | `ConnectedMeansEstablished` |
| | `NothingIsLost` | `NothingLost` |
| | `EndsAreClean` | `EndsClean` |
| `ServerProofs` | `TypeCorrect`, `Invariant` | `TypeOK` |
| | `OpenIsServed` | `Served` |
| | `EventsAreGivenOwn` | `GivenOwn` |
| | `StopIsComplete` | `StopEndsAll` |
| `ResponderProofs` | `TypeCorrect` | `TypeOK` |
| | `Invariant`, `StreamsAreAgreed` | `StreamsAgree` |
| | `OrderInvariant`, `AnswersAreInOrder` | `AnswersInOrder` |

**DataStreams.** `TypeOK` is inductive by itself; the work is that `Batch` never reads past the
objects of the stream. `InOrderOnce` is not inductive: it says nothing of the units still in
a buffer or a decoder. The strengthening `Sound(s, c, n, d)` relates all four: what was delivered
(`d`), the waiting object, the units in the decoder and the units in the buffer are together a
run of units without gap or overlap that ends at unit `n`, the last that arrived. `Sound` holds
of every stream that is not torn, lost or discarded; `ReadSound` and `CallSound` show that a call
keeps it for every verdict, and each action is reduced to `CallSound` for the streams it touches.
An orphaned stream, whose decoder never saw a header, satisfies a weaker disjunct: it delivers
nothing more. The FIN property follows because the FIN of a sound stream that leaves the
session open found the decoder empty and no waiting object. `PendingBounded` needs finiteness of
the held set and cardinality facts, and `BufferBounded` that put-back bytes were in the buffer
before the call. `Implements` combines the invariant with the step: what a stream hands over
extends what it had, and nothing is handed over by a stream that is `gone`.

**ClientRouting.** The invariant has to say how the session and the application agree across the
await: `CallInv` (a call that waits has been sent and not answered, one that has its result has been
accepted), `EndInv` (the end of a subscription is in its queue or remembered for the call that
will look for it), `FetchInv` and `AliasInv` (an alias leads to a subscription whose call is over,
and nothing is buffered for it once the application has the `Subscription`).

Where the objects are is `KeptInv`, and none of it assumes anything about the aliases that the
publisher chooses. `RouteInv` says who has an alias: live subscriptions of one alias are to one Track and
in `sharing` (`ShareInv`); a subscription whose queue was touched has been answered, and its alias was
read as it is or, if it is forgotten, as 0 (`QueueOK`); an alias leads to a registered subscription
that has it (`TableInv`). `HeldInv` says that a buffer holds what came for its alias and a queue what
came for the alias of its subscription (`ContentInv`), and that each object is in exactly one place
(`PlaceInv`). These give `Conserved` and `TracksApart`: an object in the queue of `q` came for a
subscription of the alias of `q`, and two live ones of an alias are to one Track. For `Delivered`,
`LastInv` says that the alias of a lasting subscription that is not in `sharing` leads to it or to a
forgotten one and nothing is buffered for it, and `StrayInv` that the only other queue which gets its
objects is that of a forgotten subscription still in the tables. The hard steps are `Subscribed`, which may
put the alias of another out of the table, and `Terminate`, which takes out an alias that by now may be
another's: the lemmas `OneLives`, `OtherIsForgotten` and `OtherWasForgotten` show that without sharing the other
subscription is forgotten then.

For the refinement of `ObjectFeed` the order has to be an invariant of every place an object can be
in, not only of the queues: `FeedInv` says that queues and buffers ascend (of two objects of one data
stream the later one has the greater number), and that the queue of a fetch holds objects of fetches. What comes next is newer than all
that came (`Newer`), since `ContentInv` bounds what queues and buffers hold; the one step that joins
sequences is `Subscribed`, where the objects of the retry and those in the buffer are of different
requests or of different streams (`SubscribedFeed`). `GivenOnlyGrows` and `YieldedGrows` then give the step of the
abstract module: a queue that is iterated over only grows at its end, and what its iteration yields
is extended or, after an `End`, stays.

**Requests.** `AnsweredByOwn` compares how a call ended with what the peer answered, and between the
two stand the future and the entry. `IInv` adds `FutureInv` (a call that ended agrees with its
future, and the future of a call that owns its answer with the answer), `EntryInv` (only futures
without a result are entered), `AskedInv` and `UnaskedInv` (what is to be answered has been sent, once,
and is not answered yet) and `OrderInv` (an update follows the answer to its request). The key
lemma, `NextIsOwn`, says that when an answer comes, the call at the head of `asked[r]` and the one in
`entry[r]` are the same if the latter owns its answer. `Own` can only be lost, since no call
becomes idle again, so each action needs its conjuncts for calls that owned their answer before.

**ObjectWriters.** A difference is computed before the awaits of a call and written after them, so
the invariant has to say what those awaits cannot change. `NewInv`: a stream whose header is being
written is the business of one call. `RegisteredInv` and `OneOpener`: a registered stream has not ended
and belongs to its request, and calls that do not cross open one stream at a time. `SubgroupInv`: on
a subgroup stream the base is the last object that was asked for, and Object IDs ascend. `FetchInv`:
on a fetch stream that is not stale at most one call writes, and the base is the last
location except for that call. `CountedInv` and `FinInv` relate the session to the transport.

**ObjectEncoding.** `PeerReads` is not inductive: it does not say from which object the next
difference will be counted, nor that what is on a stream can be extended. `EncodingInvariant` says how each stream
was put together: a header, then pieces without a gap (`Chained`), piece `n` being what is written for
object `n` after object `n - 1` (`WrittenAs`, `FetchWrittenAs`), and that the registered writer remembers
the last of them (`LastStream`, `FromAt`). One lemma for each thing that is written shows
that the reader undoes it whatever follows on the wire (`SubgroupHeaderRead`, `SubgroupObjectRead`,
`FetchObjectRead`, `RangeRead`, `FetchHeaderRead`, `DatagramRead`); under them are the bits of the flags
(`TypeBits`, `FlagBits`, `DatagramBits`), optional fields and blocks (`FieldRead`, `PropertiesRead`,
`ContentRead`) and what a sequence is after its front is cut off (`AfterOne`, `Cut`, `AfterTrio`). The reader
of a whole stream is a loop, a recursive function of the number of objects read; `LoopReads` shows
that over a chain of `k` readable pieces it goes through `k` known states and stays at the last, for
both readers at a time, by induction as the absence of a smallest counterexample (`UpTo`,
`LoopEnds`). `ObjectAdded`, `FetchAdded`, `StreamOpened` and `DatagramStep` then show that each call keeps the
invariant, and `EncodingRead` that it implies `PeerReads`.

**RuntimeInput.** `RegisteredInv` says that a stream is registered exactly if the session was given
something of it, until it ends, which makes `StreamsWhole` and `EndsTold` inductive.
`OnlyUnknownGivenUp` follows from the steps alone. `KeptInv` is about datagrams: the places
(`PlacesInv`) exclude each other and cover what arrived, no datagram is held twice, and
the held ones are in order (`HeldInOrder`). The work is the retry, a loop over the deque that pops each
datagram and puts it back, gives it to the session or drops it. `RetriedKept` says what the loop leaves:
the datagrams that were not given, in their order, each tried once more. It is proved by induction on
the rounds of the loop, as the absence of a smallest counterexample in a set of numbers (`UpTo`),
with a mapping of the new places to the old ones as the witness (`KeptFrom`). From the same lemma
`RetriesAreCounted` shows that a retry counts an attempt of all it holds again and no step takes one back.

**ClientLifecycle.** The parts under `Orderly` hold until calls overlap, which cannot be undone. `StageInv`
is the heart: what is over at each stage of a closing call, whatever the others that close at
the same time do to the attributes; `OneConnects` and `FoundInv` make sure that no runtime is made
meanwhile, and `EmptyInv` that the run task is the last thing the client lets go of. `EventInv` says
that the event of a fresh `connect` was set by its own exchange or with an error.

**Server.** `HeldInv` is stronger than `Served`: it covers sessions that are gone and not yet reported,
because the report takes the entry away. `AloneInv` (nothing but itself is registered for the key of an
open session) gives `GivenOwn`, and `LeftInv`, with `TickInv` and `StoppedInv`, `StopEndsAll`.

**Responder.** The entry of a stream, the state of the request and the writers are related by `EntryInv`,
`OpenInv` and `FinInv`: a FIN on the wire is either being written or has taken the entry away.
`InvOf(r)` splits the invariant by request, since each step changes one. `OrderInv`
counts: of an accepted request whose callbacks neither crossed nor raised, one handler has the last
updates that arrived, and there are as many answers on the stream as messages before them
(`AcceptedInv`, `PlaceInv`). So the answer that is written next is the one to the message whose turn it
is. `LastInv` says that the session waits for nothing after PUBLISH_DONE or the FIN.

### Only model-checked

- Liveness: `HeldIsDelivered`, `ReleasedAtEnd`, `HeldEnds`, `CallsEnd`, `FailedIsClosed`, `AllAnswered`. Fairness is out
  of reach of the prover. Of `HeldEnds` the bound is proved: `RetriesAreCounted` with the limit on attempts
  of `TypeCorrect`.
- The refinements are proved as safety; that `ObjectLayout` is the layout of the draft is read, not proved.

## What is not modelled, and why

- *Control stream and SETUP*: `receive_control` pushes bytes into a decoder of moqt-rs and hands each message
  to its state machine; what the code adds is the order of `start` and the first data, which
  `ClientLifecycle` and `Server` have as `ReceiveFails`.
- *Session events and queries, message parameters, object and track properties, LOC, MSF catalog, codec,
  grease and errors*: conversion between moqt-rs and Python, without state or control
  of its own. The rules are those of moqt-rs.
- *RESET and STOP_SENDING on request and data streams, GOAWAY, PUBLISH_STATE_NOTIFY*: the session decides
  and the runtime forwards; the transport in use does not report a FIN (R 1499).
  `DataStreams` has the RESET of a stream that is received.
- *`ranges()` of a fetch*: the same loop as its objects.
- *moqt-rs and webtransport-py*: not in the repository. They are in the models as external
  actions, as far as the code relies on them.
- *Testing helpers, examples, development scripts.*

## What is left

1. `DataStreams` and `ClientRouting` as one system, so that what the session holds for an alias and
   what the client buffers for it are followed together when the alias is used again.
2. The messages of request streams cut by fragments (C 2509-2640), as a refinement of the
   messages that `Requests` and `Responder` take whole.
3. Overlapping calls of `connect()` and `close()`, once the code says what they should do.
