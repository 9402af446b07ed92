---------------------------- MODULE RuntimeInput ----------------------------
(***************************************************************************)
(* What Runtime (python/moqt/moq/_runtime.py) does with the fragments of   *)
(* streams, the ends of streams and the datagrams that the transport       *)
(* delivers, before the session sees them, and what its tick retries.      *)
(*                                                                         *)
(* A unidirectional stream is classified by the stream type at its         *)
(* beginning.  A datagram whose Track Alias the session does not know yet  *)
(* is held, and only the tick retries it.                                  *)
(*                                                                         *)
(* The callbacks of Client and Server do not suspend while an object is    *)
(* handed over, so a call of the runtime is one step.                      *)
(*                                                                         *)
(* External to the modelled code: the session of moqt-rs, which knows the  *)
(* Track Aliases, and the held data streams, which DataStreams models.     *)
(***************************************************************************)
EXTENDS Naturals, FiniteSets, Sequences, SequencesExt

CONSTANTS Streams,      \* streams the peer opens
          Kind,         \* Kind[s]: what the peer opened s for
          TypeLen,      \* TypeLen[s]: units of the stream type of s
          MaxUnits,     \* bound: units the peer writes on a stream
          Datagrams,    \* object datagrams the peer sends, each of them once
          Alias,        \* Alias[d]: the Track Alias of d
          MaxPending,   \* MAX_PENDING_DATAGRAMS
          MaxAttempts,  \* MAX_DATAGRAM_RETRY_ATTEMPTS
          MaxAborts     \* bound: ticks that a failing data stream ends

Kinds == {"control", "data", "request"}
Aliases == {Alias[d] : d \in Datagrams}

ASSUME InputAssumption ==
  /\ Kind \in [Streams -> Kinds]
  /\ TypeLen \in [Streams -> Nat \ {0}]
  /\ DOMAIN Alias = Datagrams
  /\ MaxUnits \in Nat /\ MaxAborts \in Nat
  /\ MaxPending \in Nat \ {0} /\ MaxAttempts \in Nat \ {0}

VARIABLES
  closed,            \* Runtime._closed
  core_closed,       \* the session is closed
  streams,           \* streams[s]: the kind in Runtime._streams, or "none"
  written,           \* written[s]: units of s that have arrived
  ended,             \* streams the peer has ended
  fed,               \* fed[s]: the units of s the session has been given
  told,              \* streams whose end the session has been told
  pending_datagrams, \* Runtime._pending_datagrams
  bound,             \* Track Aliases the session knows
  arrived,           \* datagrams that have arrived, in order (observer)
  processed,         \* datagrams the session took (observer)
  dropped,           \* datagrams thrown away at a limit (observer)
  lost,              \* datagrams the session failed on (observer)
  aborts             \* ticks that the retry of a held data stream has ended

input == <<streams, written, ended, fed, told>>
datagrams == <<pending_datagrams, arrived, processed, dropped, lost>>
vars == <<closed, core_closed, input, datagrams, bound, aborts>>

Init ==
  /\ closed = FALSE
  /\ core_closed = FALSE
  /\ streams = [s \in Streams |-> "none"]
  /\ written = [s \in Streams |-> 0]
  /\ ended = {}
  /\ fed = [s \in Streams |-> <<>>]
  /\ told = {}
  /\ pending_datagrams = <<>>
  /\ bound = {}
  /\ arrived = <<>>
  /\ processed = {}
  /\ dropped = {}
  /\ lost = {}
  /\ aborts = 0

-----------------------------------------------------------------------------
(* Streams.                                                                *)

\* What _classify_stream makes of a fragment of n units of a stream that is not
\* registered.  Units that are not the beginning of the stream are read as a stream
\* type all the same, which may be any or incomplete.
Classified(s, n) ==
  IF Kind[s] = "request" THEN {"request"}
  ELSE IF written[s] # 0 THEN {"control", "data", "none"}
  ELSE IF n < TypeLen[s] THEN {"none"} ELSE {Kind[s]}

\* Slip: the kind of a stream is not kept.
SlipReceiveStream(s, n) ==
  /\ ~core_closed
  /\ s \notin ended
  /\ written[s] + n <= MaxUnits
  /\ \E k \in Classified(s, n) :
       /\ streams' = [streams EXCEPT ![s] = k]
       /\ fed' = IF k = "none" THEN fed
                 ELSE [fed EXCEPT ![s] = @ \o [i \in 1 .. n |-> written[s] + i]]
  /\ written' = [written EXCEPT ![s] = @ + n]
  /\ UNCHANGED <<closed, core_closed, ended, told, datagrams, bound, aborts>>

\* receive_stream.  A fragment of a stream that cannot be classified is not kept.
ReceiveStream(s, n) ==
  /\ ~core_closed
  /\ s \notin ended
  /\ written[s] + n <= MaxUnits
  /\ \E k \in IF streams[s] = "none" THEN Classified(s, n) ELSE {streams[s]} :
       /\ streams' = [streams EXCEPT ![s] = k]
       /\ fed' = IF k = "none" THEN fed
                 ELSE [fed EXCEPT ![s] = @ \o [i \in 1 .. n |-> written[s] + i]]
  /\ written' = [written EXCEPT ![s] = @ + n]
  /\ UNCHANGED <<closed, core_closed, ended, told, datagrams, bound, aborts>>

\* _finish_session, when the runtime is not closed.
Finished ==
  /\ closed' = TRUE
  /\ pending_datagrams' = <<>>

\* receive_stream_closed.  The end of the control stream is a protocol violation;
\* the exception is taken for the end of the session.
StreamClosed(s) ==
  /\ ~core_closed
  /\ s \notin ended
  /\ ended' = ended \cup {s}
  /\ streams' = [streams EXCEPT ![s] = "none"]
  /\ told' = IF streams[s] = "none" THEN told ELSE told \cup {s}
  /\ IF streams[s] = "control"
     THEN Finished /\ core_closed' = TRUE
     ELSE UNCHANGED <<closed, core_closed, pending_datagrams>>
  /\ UNCHANGED <<written, fed, arrived, processed, dropped, lost, bound, aborts>>

-----------------------------------------------------------------------------
(* Datagrams.                                                              *)

\* _hold_datagram.
Held(d) ==
  IF Len(pending_datagrams) >= MaxPending
  THEN dropped' = dropped \cup {d} /\ UNCHANGED pending_datagrams
  ELSE /\ pending_datagrams' =
            Append(pending_datagrams, [datagram |-> d, attempts |-> 0])
       /\ UNCHANGED dropped

\* receive_datagram.
ReceiveDatagram(d) ==
  /\ ~core_closed
  /\ ~Contains(arrived, d)
  /\ arrived' = Append(arrived, d)
  /\ IF Alias[d] \in bound
     THEN processed' = processed \cup {d} /\ UNCHANGED <<pending_datagrams, dropped>>
     ELSE Held(d) /\ UNCHANGED processed
  /\ UNCHANGED <<closed, core_closed, input, bound, lost, aborts>>

Known(p) == Alias[p.datagram] \in bound

\* Slip: an attempt too many.
SlipLastAttempt(p) == p.attempts >= MaxAttempts

\* The retry of p that fails is its last.
LastAttempt(p) == p.attempts + 1 >= MaxAttempts

\* Slip: the attempts are not counted.
SlipRetried(q) == SelectSeq(q, LAMBDA p : ~Known(p) /\ ~LastAttempt(p))

\* Slip: what stays is put back at the front.
SlipOrder(q) ==
  LET kept == Reverse(SelectSeq(q, LAMBDA p : ~Known(p) /\ ~LastAttempt(p))) IN
  [i \in DOMAIN kept |-> [kept[i] EXCEPT !.attempts = @ + 1]]

\* What is held of the datagrams of q after each was tried once: again[i] is what has
\* been put back when the first i have been taken from the front.
Retried(q) ==
  LET again[i \in 0 .. Len(q)] ==
        IF i = 0 THEN <<>>
        ELSE IF Known(q[i]) \/ LastAttempt(q[i]) THEN again[i - 1]
        ELSE Append(again[i - 1], [q[i] EXCEPT !.attempts = @ + 1])
  IN  again[Len(q)]

\* Slip: the attempts are counted before the session is asked.
SlipTaken(q) ==
  /\ processed' = processed \cup
       {p.datagram : p \in {z \in ToSet(q) : Known(z) /\ ~LastAttempt(z)}}
  /\ dropped' = dropped \cup {p.datagram : p \in {z \in ToSet(q) : LastAttempt(z)}}

\* What a retry of the datagrams of q makes known to the session and throws away.
Taken(q) ==
  /\ processed' = processed \cup {p.datagram : p \in {z \in ToSet(q) : Known(z)}}
  /\ dropped' = dropped \cup
       {p.datagram : p \in {z \in ToSet(q) : ~Known(z) /\ LastAttempt(z)}}

\* retry_pending_datagrams.
RetryDatagrams ==
  /\ Taken(pending_datagrams)
  /\ pending_datagrams' = Retried(pending_datagrams)
  /\ UNCHANGED <<core_closed, lost>>

\* The session fails on the datagram at i and closes.  Those behind it have not been
\* tried and stand before those tried.
RetryFails(i) ==
  /\ Known(pending_datagrams[i])
  /\ LET before == SubSeq(pending_datagrams, 1, i - 1) IN
     /\ Taken(before)
     /\ pending_datagrams' =
          SubSeq(pending_datagrams, i + 1, Len(pending_datagrams)) \o Retried(before)
  /\ lost' = lost \cup {pending_datagrams[i].datagram}
  /\ core_closed' = TRUE

\* tick.  What the session reports comes first; a held data stream that fails ends
\* the tick before the datagrams.
Tick ==
  /\ ~closed
  /\ \/ /\ core_closed
        /\ Finished
        /\ UNCHANGED <<core_closed, arrived, processed, dropped, lost, aborts>>
     \/ /\ ~core_closed
        /\ aborts < MaxAborts
        /\ aborts' = aborts + 1
        /\ UNCHANGED <<closed, core_closed, datagrams>>
     \/ /\ ~core_closed
        /\ RetryDatagrams \/ \E i \in 1 .. Len(pending_datagrams) : RetryFails(i)
        /\ UNCHANGED <<closed, arrived, aborts>>
  /\ UNCHANGED <<input, bound>>

-----------------------------------------------------------------------------
(* The session and the application.                                        *)

\* SUBSCRIBE_OK, and PUBLISH accepted, make an alias known.
Bind(alias) ==
  /\ ~core_closed
  /\ bound' = bound \cup {alias}
  /\ UNCHANGED <<closed, core_closed, input, datagrams, aborts>>

\* The subscription is forgotten.
Unbind(alias) ==
  /\ ~core_closed
  /\ bound' = bound \ {alias}
  /\ UNCHANGED <<closed, core_closed, input, datagrams, aborts>>

\* The session closes by itself, and a call that raises leaves the event in it.
SessionFails ==
  /\ ~core_closed
  /\ core_closed' = TRUE
  /\ UNCHANGED <<closed, input, datagrams, bound, aborts>>

\* Runtime.close.
Close ==
  /\ ~closed
  /\ Finished
  /\ core_closed' = TRUE
  /\ UNCHANGED <<input, arrived, processed, dropped, lost, bound, aborts>>

Next ==
  \/ \E s \in Streams, n \in 1 .. MaxUnits : ReceiveStream(s, n)
  \/ \E s \in Streams : StreamClosed(s)
  \/ \E d \in Datagrams : ReceiveDatagram(d)
  \/ Tick
  \/ \E alias \in Aliases : Bind(alias) \/ Unbind(alias)
  \/ SessionFails
  \/ Close

\* The tick task runs every 100 ms for as long as the session lives.
Spec == Init /\ [][Next]_vars /\ WF_vars(Tick)

-----------------------------------------------------------------------------
(* Properties.                                                             *)

HeldDatagrams == {pending_datagrams[i].datagram : i \in DOMAIN pending_datagrams}

\* The types of all variables, with the limits of what is held.
TypeOK ==
  /\ closed \in BOOLEAN /\ core_closed \in BOOLEAN
  /\ streams \in [Streams -> Kinds \cup {"none"}]
  /\ written \in [Streams -> 0 .. MaxUnits]
  /\ ended \subseteq Streams /\ told \subseteq Streams
  /\ fed \in [Streams -> Seq(1 .. MaxUnits)]
  /\ pending_datagrams \in Seq([datagram: Datagrams, attempts: 0 .. MaxAttempts - 1])
  /\ Len(pending_datagrams) <= MaxPending
  /\ bound \subseteq Aliases
  /\ arrived \in Seq(Datagrams) /\ processed \subseteq Datagrams
  /\ dropped \subseteq Datagrams /\ lost \subseteq Datagrams
  /\ aborts \in 0 .. MaxAborts

\* Every datagram that has arrived is in one place: processed, held once, dropped
\* at a limit or lost with the session, until the runtime closes.
DatagramsConserved ==
  /\ \A i, j \in DOMAIN pending_datagrams :
       pending_datagrams[i].datagram = pending_datagrams[j].datagram => i = j
  /\ LET places == <<processed, HeldDatagrams, dropped, lost>> IN
     /\ \A i, j \in 1 .. 4 : i # j => places[i] \cap places[j] = {}
     /\ UNION ToSet(places) \subseteq ToSet(arrived)
     /\ ~closed => ToSet(arrived) = UNION ToSet(places)

\* Held datagrams stand in the order in which they arrived, and the older ones have
\* been tried at least as often, for as long as the session is open.
HeldInOrder ==
  ~core_closed =>
    \A i, j \in DOMAIN pending_datagrams : i < j =>
      /\ \E m, n \in DOMAIN arrived :
           /\ m < n
           /\ arrived[m] = pending_datagrams[i].datagram
           /\ arrived[n] = pending_datagrams[j].datagram
      /\ pending_datagrams[i].attempts >= pending_datagrams[j].attempts

\* No datagram is lost, doubled or overtaken while it is held.
DatagramsKept == DatagramsConserved /\ HeldInOrder

\* A datagram is given up only while the session does not know its alias: what was
\* subscribed to before the last attempt is not lost to a limit.
GivenUpUnknown ==
  [][\A d \in dropped' \ dropped : Alias[d] \notin bound']_vars

\* No datagram is held for ever, when only finitely many ticks are ended by a data
\* stream that fails.
HeldEnds == \A d \in Datagrams : d \in HeldDatagrams ~> d \notin HeldDatagrams

\* A stream whose first fragment holds its stream type, however the rest is cut, is
\* given to the session as what it is, whole and in order.
StreamsWhole ==
  \A s \in Streams :
    (\/ Kind[s] = "request"
     \/ TypeLen[s] = 1
     \/ fed[s] # <<>> /\ fed[s][1] = 1)
    => /\ fed[s] = [i \in 1 .. written[s] |-> i]
       /\ written[s] > 0 /\ s \notin ended => streams[s] = Kind[s]

\* The session is told of the end of every stream it was given something of, and
\* of no other.
EndsTold == \A s \in ended : s \in told <=> fed[s] # <<>>

\* The session gets a stream as it was sent, with its end.
StreamsTold == StreamsWhole /\ EndsTold
=============================================================================
