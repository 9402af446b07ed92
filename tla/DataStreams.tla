---------------------------- MODULE DataStreams ----------------------------
(***************************************************************************)
(* Reception of the peer's unidirectional data streams by CoreSession      *)
(* (core.rs): buffering of fragments, holding of subgroup streams whose    *)
(* Track Alias is not bound to a subscription yet, discarding, the retry   *)
(* of held streams and the end of a stream.                                *)
(*                                                                         *)
(* The bytes of a stream are numbered units: units 1..HeaderLen are its    *)
(* header, and object k is the two units HeaderLen+2k-1 (object header)    *)
(* and HeaderLen+2k (the rest of the object).  A fragment is a run of      *)
(* units, so a header may be cut anywhere and an object between its        *)
(* header and its payload.                                                 *)
(*                                                                         *)
(* External to the modelled code: the peer and the transport (sent,        *)
(* outcome), the Session of moqt-rs (alias, closed) and its stream         *)
(* decoders, which are modelled by what core.rs relies on.                 *)
(***************************************************************************)
EXTENDS Naturals, Sequences, FiniteSets

CONSTANTS Streams,     \* data streams
          Aliases,     \* Track Aliases
          Kind,        \* Kind[s]: "subgroup", "fetch" or "padding"
          Alias,       \* Alias[s]: the Track Alias in the header of s
          Filtered,    \* streams that the filter of their subscription rejects
          Malformed,   \* streams whose objects do not decode
          Objects,     \* Objects[s]: objects written on s
          HeaderLen,   \* units of a stream header
          MaxFragment, \* bound: units in one fragment
          MaxBuffer,   \* MAX_STREAM_BUFFER_BYTES, in units
          MaxPending   \* MAX_PENDING_DATA_STREAMS

ASSUME StreamsAssumption ==
  /\ Kind \in [Streams -> {"subgroup", "fetch", "padding"}]
  /\ Alias \in [Streams -> Aliases]
  /\ Filtered \subseteq Streams
  /\ Malformed \subseteq Streams
  /\ Objects \in [Streams -> Nat]
  /\ HeaderLen \in Nat \ {0}
  /\ MaxFragment \in Nat
  /\ MaxBuffer \in Nat
  /\ MaxPending \in Nat \ {0}

VARIABLES
  alias,    \* alias[a]: "unknown", "bound" to a subscription that is live, or
            \* bound to one that has "ended"
  closed,   \* the session has been closed with PROTOCOL_VIOLATION
  sent,     \* sent[s]: units of s that have arrived
  outcome,  \* outcome[s]: "open", or how the peer ended s
  core,     \* core[s]: what CoreSession keeps about s
  pending_data_streams,
  ignored_data_streams,
  delivered, \* history: objects of s handed over as events
  dropped,   \* history: streams that have been discarded
  torn,      \* history: streams held after a decoder had taken part of them
  lost       \* history: streams whose events an error threw away

vars == <<alias, closed, sent, outcome, core, pending_data_streams,
          ignored_data_streams, delivered, dropped, torn, lost>>

Size(s) == HeaderLen + 2 * Objects[s]

\* buffer: the entry of s in data_buffers.  decoder: its entry in data_decoders,
\* "new" until it has seen a header itself, with the bytes in it as rest.  header:
\* "decoded" once s is in data_headers_decoded.  object: 1 while an object waits
\* for its payload in pending_subgroup_objects or pending_fetch_entries.
Fresh == [buffer |-> <<>>, decoder |-> "none", rest |-> <<>>,
          header |-> "awaited", object |-> 0]

\* The decoder goes, and whatever it has taken goes with it.
Undecoded(c) == [c EXCEPT !.decoder = "none", !.rest = <<>>]

\* Decoder and buffer go.
Forgotten(c) == [Undecoded(c) EXCEPT !.buffer = <<>>]

-----------------------------------------------------------------------------
(* The decoding of one stream.                                             *)

\* Bytes move from the buffer into the decoder, which is created first if
\* there is none.  A fetch stream gets a decoder once its header is complete.
Fed(s, c) ==
  IF /\ Kind[s] = "fetch"
     /\ c.decoder = "none"
     /\ Len(c.buffer) < HeaderLen
  THEN c
  ELSE [c EXCEPT !.buffer = <<>>,
                 !.decoder = IF @ = "none" THEN "new" ELSE @,
                 !.rest = @ \o c.buffer]

\* Slip: the object is numbered one too high.
SlipObjectEndingAt(u) ==
  IF u > HeaderLen /\ (u - HeaderLen) % 2 = 0 THEN (u - HeaderLen) \div 2 + 1 ELSE 0

\* The object a decoder reports when it reads unit u as the end of an object:
\* 0 stands for bytes that are not the end of any object.
ObjectEndingAt(u) ==
  IF u > HeaderLen /\ (u - HeaderLen) % 2 = 0 THEN (u - HeaderLen) \div 2 ELSE 0

\* The objects that are complete in the decoder, in order.
Batch(c) ==
  [i \in 1 .. ((Len(c.rest) + c.object) \div 2) |->
     ObjectEndingAt(c.rest[2 * i - c.object])]

\* Slip: the entry of an object stays when its payload has been read.
SlipDrained(c) ==
  [c EXCEPT !.rest = <<>>,
            !.object = IF @ = 1 THEN 1 ELSE Len(c.rest) % 2]

\* Objects are read until one is incomplete; it waits for its payload.
Drained(c) ==
  [c EXCEPT !.rest = <<>>,
            !.object = (Len(c.rest) + @) % 2]

\* The header is taken off and recorded.
Accepted(c) ==
  [c EXCEPT !.header = "decoded",
            !.decoder = "open",
            !.rest = SubSeq(@, HeaderLen + 1, Len(@))]

\* Slip: a discarded stream is read like any other.
SlipVerdicts(s, c) ==
  IF Len(Fed(s, c).rest) < HeaderLen THEN {"wait"}
  ELSE IF alias[Alias[s]] = "unknown" THEN {"hold"} ELSE {"accept"}

\* What recv_subgroup_header and recv_fetch_header make of a complete header.
\* "accept" stands for Accepted and for Discarded, which takes the same path.
\* The header of a stream that lost its first units reads as anything.
HeaderVerdicts(s, f) ==
  IF f.rest[1] # 1 THEN {"accept", "hold", "ignore", "error"}
  ELSE IF Kind[s] = "fetch" \/ alias[Alias[s]] = "ended" THEN {"accept"}
  ELSE IF alias[Alias[s]] = "unknown" THEN {"hold"}
  ELSE IF s \in Filtered THEN {"ignore"} ELSE {"accept"}

\* What can become of the bytes of s once they are in the decoder.  A decoder
\* that never saw a header reads no object or fails.
Verdicts(s, c) ==
  LET f == Fed(s, c) IN
  IF s \in ignored_data_streams THEN {"ignored"}
  ELSE IF f.decoder = "none" THEN {"wait"}
  ELSE IF Kind[s] = "padding" THEN {"skip"}
  ELSE IF f.header = "decoded"
       THEN IF f.decoder = "open" THEN {"decode"} ELSE {"wait", "error"}
  ELSE IF Len(f.rest) < HeaderLen THEN {"wait"}
  ELSE HeaderVerdicts(s, f)

\* The decoder with the header taken off, before the objects are read.
Opened(s, c, v) == IF v = "accept" THEN Accepted(Fed(s, c)) ELSE Fed(s, c)

Reads(v) == v \in {"accept", "decode"}

\* The call returns an error and hands over nothing.
Fails(s, c, v) ==
  \/ v = "error"
  \/ Reads(v) /\ s \in Malformed /\ Opened(s, c, v).rest # <<>>

\* What CoreSession keeps about s afterwards.  When the stream is held only
\* the bytes that this call moved out of the buffer are put back.
After(s, c, v) ==
  CASE v = "ignored"                       -> [c EXCEPT !.buffer = <<>>]
    [] v = "ignore"                        -> Forgotten(c)
    [] v = "hold"                          -> Undecoded(c)
    [] v = "skip"                          -> [Fed(s, c) EXCEPT !.rest = <<>>]
    [] v \in {"wait", "error"}             -> Fed(s, c)
    [] Reads(v) /\ Fails(s, c, v)          -> Opened(s, c, v)
    [] Reads(v) /\ ~Fails(s, c, v)         -> Drained(Opened(s, c, v))

\* The objects handed over by the call.
Events(s, c, v) ==
  IF Reads(v) /\ ~Fails(s, c, v) THEN Batch(Opened(s, c, v)) ELSE <<>>

-----------------------------------------------------------------------------
(* The session and the peer.                                               *)

\* SUBSCRIBE_OK binds a Track Alias to a subscription.
Bind(a) ==
  /\ ~closed
  /\ alias[a] = "unknown"
  /\ alias' = [alias EXCEPT ![a] = "bound"]
  /\ UNCHANGED <<closed, sent, outcome, core, pending_data_streams,
                 ignored_data_streams, delivered, dropped, torn, lost>>

\* The subscription ends: the session discards what arrives for its alias.
Unbind(a) ==
  /\ ~closed
  /\ alias[a] = "bound"
  /\ alias' = [alias EXCEPT ![a] = "ended"]
  /\ UNCHANGED <<closed, sent, outcome, core, pending_data_streams,
                 ignored_data_streams, delivered, dropped, torn, lost>>

\* forget_subscription: the alias is unknown again and may be bound again.
Forget(a) ==
  /\ ~closed
  /\ alias[a] = "ended"
  /\ alias' = [alias EXCEPT ![a] = "unknown"]
  /\ UNCHANGED <<closed, sent, outcome, core, pending_data_streams,
                 ignored_data_streams, delivered, dropped, torn, lost>>

\* ignore_data_stream for every stream of I, on top of the states in c.
Discard(I, c) ==
  [s \in Streams |-> IF s \in I THEN Forgotten(c[s]) ELSE c[s]]

\* The fragment would overflow the buffer: the stream is discarded.
Overflow(s) ==
  /\ core' = Discard({s}, core)
  /\ pending_data_streams' = pending_data_streams \ {s}
  /\ ignored_data_streams' = ignored_data_streams \cup {s}
  /\ dropped' = dropped \cup {s}
  /\ UNCHANGED <<delivered, torn>>

\* Slip: off by one at the limit.
SlipEvicted(s, v) ==
  IF /\ v = "hold"
     /\ Cardinality(pending_data_streams) > MaxPending
     /\ s \notin pending_data_streams
  THEN pending_data_streams ELSE {}

\* hold_data_stream: a hold beyond the limit discards all that were held.
Evicted(s, v) ==
  IF /\ v = "hold"
     /\ Cardinality(pending_data_streams) >= MaxPending
     /\ s \notin pending_data_streams
  THEN pending_data_streams ELSE {}

\* The streams that the call discards.
Discarded(s, v) == Evicted(s, v) \cup (IF v = "ignore" THEN {s} ELSE {})

Process(s, c, v) ==
  /\ core' = Discard(Discarded(s, v), [core EXCEPT ![s] = After(s, c, v)])
  /\ pending_data_streams' =
       (pending_data_streams \ Discarded(s, v)) \cup (IF v = "hold" THEN {s} ELSE {})
  /\ ignored_data_streams' = ignored_data_streams \cup Discarded(s, v)
  /\ dropped' = dropped \cup Discarded(s, v)
  /\ delivered' = [delivered EXCEPT ![s] = @ \o Events(s, c, v)]
  /\ torn' = IF v = "hold" /\ c.rest # <<>> THEN torn \cup {s} ELSE torn

\* The state of s with its next n units in the buffer.
Pushed(s, n) == [core[s] EXCEPT !.buffer = @ \o [i \in 1 .. n |-> sent[s] + i]]

\* receive_data_stream with the next n units of s.
Receive(s, n) ==
  /\ ~closed
  /\ outcome[s] = "open"
  /\ sent[s] + n <= Size(s)
  /\ IF Len(core[s].buffer) + n > MaxBuffer
     THEN Overflow(s)
     ELSE \E v \in Verdicts(s, Pushed(s, n)) : Process(s, Pushed(s, n), v)
  /\ sent' = [sent EXCEPT ![s] = @ + n]
  /\ UNCHANGED <<alias, closed, outcome, lost>>

\* Slip: an object whose payload is missing does not count.
SlipUnfinished(s) ==
  /\ Kind[s] # "padding"
  /\ core[s].decoder # "none"
  /\ core[s].decoder = "new" \/ core[s].rest # <<>>

\* decoder.finish() of a stream that ends.
Unfinished(s) ==
  /\ Kind[s] # "padding"
  /\ core[s].decoder # "none"
  /\ core[s].decoder = "new" \/ core[s].rest # <<>> \/ core[s].object = 1

\* Slip: an ended stream stays held.
SlipClose(s, how) ==
  /\ ~closed
  /\ outcome[s] = "open"
  /\ sent[s] > 0
  /\ outcome' = [outcome EXCEPT ![s] = how]
  /\ closed' = (how = "fin" /\ Unfinished(s))
  /\ UNCHANGED <<alias, sent, core, pending_data_streams, ignored_data_streams,
                 delivered, dropped, torn, lost>>

\* receive_data_stream_closed: FIN or RESET_STREAM.
Close(s, how) ==
  /\ ~closed
  /\ outcome[s] = "open"
  /\ sent[s] > 0
  /\ outcome' = [outcome EXCEPT ![s] = how]
  /\ closed' = (how = "fin" /\ Unfinished(s))
  /\ core' = [core EXCEPT ![s] = Fresh]
  /\ pending_data_streams' = pending_data_streams \ {s}
  /\ ignored_data_streams' = ignored_data_streams \ {s}
  /\ UNCHANGED <<alias, sent, delivered, dropped, torn, lost>>

-----------------------------------------------------------------------------
(* retry_held_data_streams, run by Client.subscribe and by every tick.     *)

Rebuilt(s) == Undecoded(core[s])

Uncertain == {s \in pending_data_streams : Cardinality(Verdicts(s, Rebuilt(s))) > 1}

\* One verdict for every held stream.
Choices ==
  {[s \in pending_data_streams |->
      IF s \in Uncertain THEN u[s] ELSE CHOOSE v \in Verdicts(s, Rebuilt(s)) : TRUE] :
   u \in {w \in [Uncertain -> {"accept", "hold", "ignore", "error", "wait"}] :
            \A s \in Uncertain : w[s] \in Verdicts(s, Rebuilt(s))}}

\* Slip: a stream that is still unknown is not held again.
SlipRetried(R, v) ==
  /\ core' = [s \in Streams |-> IF s \in R THEN After(s, Rebuilt(s), v[s]) ELSE core[s]]
  /\ pending_data_streams' = pending_data_streams \ R
  /\ ignored_data_streams' = ignored_data_streams \cup {s \in R : v[s] = "ignore"}
  /\ dropped' = dropped \cup {s \in R : v[s] = "ignore"}
  /\ UNCHANGED <<alias, closed, sent, outcome, torn>>

\* The streams of R have gone through the receive path with verdicts v.
Retried(R, v) ==
  /\ core' = [s \in Streams |-> IF s \in R THEN After(s, Rebuilt(s), v[s]) ELSE core[s]]
  /\ pending_data_streams' =
       (pending_data_streams \ R) \cup {s \in R : v[s] = "hold"}
  /\ ignored_data_streams' = ignored_data_streams \cup {s \in R : v[s] = "ignore"}
  /\ dropped' = dropped \cup {s \in R : v[s] = "ignore"}
  /\ UNCHANGED <<alias, closed, sent, outcome, torn>>

RetryAll(v) ==
  /\ \A s \in pending_data_streams : ~Fails(s, Rebuilt(s), v[s])
  /\ Retried(pending_data_streams, v)
  /\ delivered' =
       [s \in Streams |->
          IF s \in pending_data_streams
          THEN delivered[s] \o Events(s, Rebuilt(s), v[s])
          ELSE delivered[s]]
  /\ UNCHANGED lost

\* The set is visited in no particular order.  The first stream that fails
\* ends the visit, and the events collected before it are thrown away.
RetryAborted(v) ==
  \E f \in pending_data_streams :
    /\ Fails(f, Rebuilt(f), v[f])
    /\ \E before \in SUBSET {s \in pending_data_streams : ~Fails(s, Rebuilt(s), v[s])} :
         /\ Retried(before \cup {f}, v)
         /\ lost' = lost \cup {s \in before : Events(s, Rebuilt(s), v[s]) # <<>>}
         /\ UNCHANGED delivered

Retry ==
  /\ ~closed
  /\ pending_data_streams # {}
  /\ \E v \in Choices : RetryAll(v) \/ RetryAborted(v)

-----------------------------------------------------------------------------
Init ==
  /\ alias = [a \in Aliases |-> "unknown"]
  /\ closed = FALSE
  /\ sent = [s \in Streams |-> 0]
  /\ outcome = [s \in Streams |-> "open"]
  /\ core = [s \in Streams |-> Fresh]
  /\ pending_data_streams = {}
  /\ ignored_data_streams = {}
  /\ delivered = [s \in Streams |-> <<>>]
  /\ dropped = {}
  /\ torn = {}
  /\ lost = {}

Next ==
  \/ \E a \in Aliases : Bind(a)
  \/ \E a \in Aliases : Unbind(a)
  \/ \E a \in Aliases : Forget(a)
  \/ \E s \in Streams, n \in 1 .. MaxFragment : Receive(s, n)
  \/ \E s \in Streams, how \in {"fin", "reset"} : Close(s, how)
  \/ Retry

\* The tick task calls the retry every 100 ms for as long as the session lives.
Spec == Init /\ [][Next]_vars /\ WF_vars(Retry)

-----------------------------------------------------------------------------
(* Properties.                                                             *)

Octets(s) == [i \in 1 .. sent[s] |-> i]

Units(s) == 1 .. Size(s)

StatesOver(U) == [buffer  : Seq(U),
                  decoder : {"none", "new", "open"},
                  rest    : Seq(U),
                  header  : {"awaited", "decoded"},
                  object  : {0, 1}]

CoreStates == StatesOver(Nat)
CoreState(s) == StatesOver(Units(s))

\* The decoders never read an object that the peer has not written, 0 standing
\* for one read from the wrong bytes.
TypeOK ==
  /\ alias \in [Aliases -> {"unknown", "bound", "ended"}]
  /\ closed \in BOOLEAN
  /\ sent \in [Streams -> Nat]
  /\ \A s \in Streams : sent[s] <= Size(s)
  /\ outcome \in [Streams -> {"open", "fin", "reset"}]
  /\ core \in [Streams -> CoreStates]
  /\ \A s \in Streams : core[s] \in CoreState(s)
  /\ pending_data_streams \subseteq Streams
  /\ ignored_data_streams \subseteq Streams
  /\ delivered \in [Streams -> Seq(Nat)]
  /\ \A s \in Streams : delivered[s] \in Seq(0 .. Objects[s])
  /\ dropped \subseteq Streams
  /\ torn \subseteq Streams
  /\ lost \subseteq Streams

\* The retry has replaced the decoder of a stream whose header had already been
\* accepted: the new decoder never sees a header.
Orphaned(s) == core[s].header = "decoded" /\ core[s].decoder = "new"

\* Whatever is buffered, held, retried and evicted, the objects handed over from
\* a stream are its first objects in order, each once: the loop of
\* receive_buffered_data_stream.  Void for a stream that was torn or whose
\* events an aborted retry lost.
InOrderOnce ==
  \A s \in Streams \ (torn \cup lost) :
    \A i \in 1 .. Len(delivered[s]) : delivered[s][i] = i

\* A stream waiting for its subscription keeps every byte that has arrived, and
\* none of its objects has been handed over: hold_data_stream keeps the bytes
\* in data_buffers for the retry.
HeldComplete ==
  \A s \in pending_data_streams \ torn :
    core[s].decoder = "none" => core[s].buffer = Octets(s) /\ delivered[s] = <<>>

\* A discarded stream keeps no byte and no decoder, and no retry picks it up
\* again: ignore_data_stream.
IgnoredIsForgotten ==
  \A s \in ignored_data_streams :
    /\ core[s].buffer = <<>>
    /\ core[s].decoder = "none"
    /\ s \notin pending_data_streams

\* However many streams of unknown aliases arrive, at most MaxPending are held.
PendingBounded == Cardinality(pending_data_streams) <= MaxPending

\* Memory: no buffer ever exceeds MAX_STREAM_BUFFER_BYTES, put-back bytes included.
BufferBounded == \A s \in Streams : Len(core[s].buffer) <= MaxBuffer

\* If the session survives the FIN of a subgroup stream whose header it accepted,
\* every object the peer began on it was handed over: report_mid_object_fin
\* lets no truncated object pass for the end of the subgroup.
SurvivedFinIsWhole ==
  \A s \in Streams \ (torn \cup lost \cup dropped \cup Malformed) :
    (~closed /\ outcome[s] = "fin" /\ delivered[s] # <<>>) =>
      sent[s] = HeaderLen + 2 * Len(delivered[s])

\* Nothing that has arrived is missing where it is relied upon: in the buffer of a
\* stream that waits for its subscription, and at the FIN.
NothingMissing == HeldComplete /\ SurvivedFinIsWhole

\* What the peer sends for no subscription takes bounded room: held streams and bytes.
LimitsKept == PendingBounded /\ BufferBounded

\* The receiver implements the abstract promise.
Delivery == INSTANCE StreamDelivery WITH
              gone <- dropped \cup {s \in Streams : outcome[s] # "open"},
              spoiled <- torn \cup lost

ImplementsDelivery == Delivery!Spec

\* A stream of a bound alias does not wait for ever: the retry hands over what
\* had arrived, unless the stream ends, is discarded or loses its decoder.
CaughtUp(s) == Len(delivered[s]) >= (sent[s] - HeaderLen) \div 2

Excused(s) == \/ closed
              \/ outcome[s] # "open"
              \/ alias[Alias[s]] # "bound"
              \/ s \in dropped \cup torn \cup lost
              \/ Orphaned(s)

HeldIsDelivered ==
  \A s \in Streams :
    (Kind[s] = "subgroup" /\ s \notin Malformed /\ sent[s] >= HeaderLen
       /\ alias[Alias[s]] = "bound")
      ~> (CaughtUp(s) \/ Excused(s))

-----------------------------------------------------------------------------
(* What a comment of core.rs says and the code does not do.                *)

\* A FIN closes the session with PROTOCOL_VIOLATION only if the stream ends
\* before the end of its header or in the middle of an object.
OnlyTruncationCloses ==
  closed => \E s \in Streams :
    /\ outcome[s] = "fin"
    /\ ~ \E k \in 0 .. Objects[s] : sent[s] = HeaderLen + 2 * k
=============================================================================
